------------------------------ MODULE MCPhotos ------------------------------
(* A small instance of ReviewPhotos under its fairness: each photo is       *)
(* uploaded by a session of its own and may be claimed by either review.    *)
EXTENDS ReviewPhotos

CONSTANTS p1, p2, anna, ben

TwoSessions == [p \in Photo |-> IF p = p1 THEN anna ELSE ben]
=============================================================================
