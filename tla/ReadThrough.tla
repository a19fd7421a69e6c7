---------------------------- MODULE ReadThrough ----------------------------
(***************************************************************************)
(* What a cache behind a generation counter promises whoever reads it,     *)
(* whatever is written and filled beside it: a read is served nothing from *)
(* before the last write that announced itself, and nothing that was never *)
(* committed.  A write announces itself when the counter has been          *)
(* incremented for it; until then readers may be served what was there     *)
(* before.  The promise ends when the counter is lost or set back.         *)
(***************************************************************************)
EXTENDS Naturals

VARIABLES
    version,     \* the version of the data that is committed
    announced,   \* the version that was there when a write last announced itself
    served,      \* what a read would be served: no version, or one
    broken       \* whether the counter was lost or set back

vars == <<version, announced, served, broken>>
-----------------------------------------------------------------------------
Init == version = 0 /\ announced = 0 /\ served = {} /\ broken = FALSE

\* The data changes, and nobody knows yet.
Change == version' = version + 1 /\ UNCHANGED <<announced, served, broken>>

\* A write announces itself: what stays to be served is as new as that.
Announce ==
    /\ announced' \in announced .. version
    /\ served' \subseteq served /\ \A v \in served' : announced' <= v
    /\ UNCHANGED <<version, broken>>

\* A read computes what it does not find.  It may be slow: the data has perhaps
\* changed since, but no write announced itself.
Fill ==
    /\ \E v \in announced .. version : served' = {v}
    /\ UNCHANGED <<version, announced, broken>>

\* An entry expires, or is overwritten by one that nobody will look up.
Drop == served' = {} /\ UNCHANGED <<version, announced, broken>>

\* The counter is lost or set back: anything may be served from now on.
Break == broken' = TRUE

Next == \/ ~broken /\ (Change \/ Announce \/ Fill \/ Drop)
        \/ Break

Spec == Init /\ [][Next]_vars
-----------------------------------------------------------------------------
\* What readers rely on.
Fresh == ~broken => \A v \in served : announced <= v /\ v <= version
=============================================================================
