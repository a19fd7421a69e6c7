------------------------------ MODULE Reviews ------------------------------
(***************************************************************************)
(* The reviews of one product and the rating on its row (apps/reviews,     *)
(* and the product edits of apps/catalog that save the same row).  Photos  *)
(* of reviews are in ReviewPhotos.                                         *)
(*                                                                         *)
(* A rating never changes after it is posted, so average_rating and        *)
(* review_count stand for the set of reviews they were computed from.      *)
(* What a transaction writes stays in its task until it commits.           *)
(***************************************************************************)
EXTENDS Workers

CONSTANTS
    ReviewId, Contact, Purchase,
    Account,          \* the contacts that post signed in
    Buyer,            \* whose order a purchase is in
    MaxReviewCrashes  \* bound: requests killed half-way

ASSUME ReviewsAssumption ==
    /\ Account \subseteq Contact /\ None \notin ReviewId \cup Purchase \cup Contact
    /\ Buyer \in [Purchase -> Contact] /\ MaxReviewCrashes \in Nat

VARIABLES
    review,       \* the committed row: [state, contact, purchase]
    rating,       \* the reviews that average_rating and review_count were computed from
    productLock,  \* holder of the product row's lock
    reviewLock,   \* holders of the review rows' locks
    task,         \* what each request is doing
    postRaced,    \* (history) whether two requests were ever under way at once
    editRaced,    \* (history) whether one of them was a product edit
    reviewCrashes

reviewVars == <<review, rating, productLock, reviewLock, task, postRaced, editRaced,
                reviewCrashes>>
-----------------------------------------------------------------------------
ReviewStates == {"unused", "hidden", "approved", "deleted"}

NoTask == [pc |-> "idle", op |-> "none", review |-> None, contact |-> None,
           purchase |-> None, rating |-> {}]

Posted == {r \in ReviewId : review[r].state \in {"hidden", "approved"}}
Approved == {r \in ReviewId : review[r].state = "approved"}

\* is_approved reviews as the transaction of w sees them: the committed rows
\* and its own write.
ApprovedIn(w) == CASE task[w].op = "approve" -> Approved \cup {task[w].review}
                   [] task[w].op \in {"hide", "delete"} -> Approved \ {task[w].review}
                   [] OTHER -> Approved

Begin(w, t) ==
    LET others == {v \in Worker : task[v] # NoTask} IN
    /\ task[w] = NoTask
    /\ task' = [task EXCEPT ![w] = t]
    /\ postRaced' = (postRaced \/ others # {})
    /\ editRaced' = (editRaced \/ \E v \in others : "edit" \in {t.op, task[v].op})
    /\ UNCHANGED reviewCrashes

\* Mutant of EndTask: the product lock outlives the transaction.
EndTaskLocked(w) ==
    /\ task' = [task EXCEPT ![w] = NoTask]
    /\ reviewLock' = [r \in ReviewId |-> IF reviewLock[r] = w THEN None ELSE reviewLock[r]]
    /\ UNCHANGED productLock

\* A transaction is over: its locks are released.
EndTask(w) ==
    /\ task' = [task EXCEPT ![w] = NoTask]
    /\ productLock' = IF productLock = w THEN None ELSE productLock
    /\ reviewLock' = [r \in ReviewId |-> IF reviewLock[r] = w THEN None ELSE reviewLock[r]]
-----------------------------------------------------------------------------
ReviewInit ==
    /\ review = [r \in ReviewId |-> [state |-> "unused", contact |-> None, purchase |-> None]]
    /\ rating = {}
    /\ productLock = None /\ reviewLock = [r \in ReviewId |-> None]
    /\ task = [w \in Worker |-> NoTask]
    /\ postRaced = FALSE /\ editRaced = FALSE /\ reviewCrashes = 0

\* Mutant of AlreadyReviewed: the lookup is by account only.
AlreadyReviewedAs(c) == c \in Account /\ \E q \in Posted : review[q].contact = c

\* The submitter, by account or by the contact given, has a review here.
AlreadyReviewed(c) == \E q \in Posted : review[q].contact = c

\* create_review before its transaction.  The next primary key is fresh.
CheckPost(w) ==
    \E c \in Contact, o \in Purchase \cup {None} :
        LET fresh == {r \in ReviewId : /\ review[r].state = "unused"
                                       /\ \A v \in Worker : task[v].review # r}
        IN /\ fresh # {} /\ ~AlreadyReviewed(c)
           /\ Begin(w, [NoTask EXCEPT !.pc = "checked", !.op = "create", !.contact = c,
                                      !.review = CHOOSE r \in fresh : TRUE, !.purchase = o])
           /\ UNCHANGED <<review, rating, productLock, reviewLock>>

\* _resolve_verified_order_item: the submitter's own purchase, not used yet.
Verifies(t) ==
    t.purchase # None => /\ Buyer[t.purchase] = t.contact
                         /\ \A q \in Posted : review[q].purchase # t.purchase

\* The purchase is looked up, and the insertion meets the unique constraint on
\* (user, product): it waits for another insertion with the same key, and is
\* refused when that one has committed.
InsertReview(w) ==
    LET t == task[w] IN
    /\ t.pc = "checked"
    /\ t.contact \in Account =>
          \A v \in Worker \ {w} : task[v].contact = t.contact => task[v].pc = "checked"
    /\ task' = [task EXCEPT ![w] =
                  IF Verifies(t) /\ (t.contact \in Account => ~AlreadyReviewed(t.contact))
                  THEN [t EXCEPT !.pc = "written"] ELSE NoTask]
    /\ UNCHANGED <<review, rating, productLock, reviewLock, postRaced, editRaced, reviewCrashes>>

\* A staff request or an admin action loads a review to approve, hide or delete.
LoadReview(w) ==
    \E r \in Posted, op \in {"approve", "hide", "delete"} :
        /\ Begin(w, [NoTask EXCEPT !.pc = "loaded", !.op = op, !.review = r])
        /\ UNCHANGED <<review, rating, productLock, reviewLock>>

\* The write waits for the row: save(update_fields) finds it deleted and
\* fails, a deletion of nothing succeeds.
WriteReview(w) ==
    LET t == task[w] IN
    /\ t.pc = "loaded" /\ t.op # "edit" /\ reviewLock[t.review] = None
    /\ IF t.review \in Posted
       THEN /\ reviewLock' = [reviewLock EXCEPT ![t.review] = w]
            /\ task' = [task EXCEPT ![w].pc = "written"]
       ELSE /\ task' = [task EXCEPT ![w] = NoTask]
            /\ UNCHANGED reviewLock
    /\ UNCHANGED <<review, rating, productLock, postRaced, editRaced, reviewCrashes>>

\* Mutant of RecomputeRating: the product row is read without FOR UPDATE.
RecomputeUnlocked(w) ==
    /\ task[w].pc = "written"
    /\ task' = [task EXCEPT ![w].pc = "counted", ![w].rating = ApprovedIn(w)]
    /\ UNCHANGED <<review, rating, productLock, reviewLock, postRaced, editRaced, reviewCrashes>>

\* _recompute_rating, inside the transaction of the write (for a deletion, in
\* its post_delete signal): it locks the product, then reads the approved
\* reviews.
RecomputeRating(w) ==
    /\ task[w].pc = "written" /\ productLock = None
    /\ productLock' = w
    /\ task' = [task EXCEPT ![w].pc = "counted", ![w].rating = ApprovedIn(w)]
    /\ UNCHANGED <<review, rating, reviewLock, postRaced, editRaced, reviewCrashes>>

Written(t) ==
    CASE t.op = "create" -> [state |-> "hidden", contact |-> t.contact, purchase |-> t.purchase]
      [] t.op = "approve" -> [review[t.review] EXCEPT !.state = "approved"]
      [] t.op = "hide"    -> [review[t.review] EXCEPT !.state = "hidden"]
      [] OTHER            -> [state |-> "deleted", contact |-> None, purchase |-> None]

CommitReview(w) ==
    LET t == task[w] IN
    /\ t.pc = "counted"
    /\ review' = [review EXCEPT ![t.review] = Written(t)]
    /\ rating' = t.rating
    /\ EndTask(w)
    /\ UNCHANGED <<postRaced, editRaced, reviewCrashes>>
-----------------------------------------------------------------------------
\* A staff edit of the product loads its row ...
LoadProduct(w) == /\ Begin(w, [NoTask EXCEPT !.pc = "loaded", !.op = "edit", !.rating = rating])
                  /\ UNCHANGED <<review, rating, productLock, reviewLock>>

\* ... and update_product saves every column of it, the aggregates included.
SaveProduct(w) ==
    /\ task[w].pc = "loaded" /\ task[w].op = "edit" /\ productLock = None
    /\ rating' = task[w].rating
    /\ EndTask(w)
    /\ UNCHANGED <<review, postRaced, editRaced, reviewCrashes>>

\* A process is killed and its transaction rolled back.
ReviewCrash(w) ==
    /\ task[w] # NoTask /\ reviewCrashes < MaxReviewCrashes
    /\ reviewCrashes' = reviewCrashes + 1
    /\ EndTask(w)
    /\ UNCHANGED <<review, rating, postRaced, editRaced>>

ReviewContinues(w) == \/ InsertReview(w) \/ WriteReview(w) \/ RecomputeRating(w)
                      \/ CommitReview(w) \/ SaveProduct(w)

ReviewsNext == \E w \in Worker : \/ CheckPost(w) \/ LoadReview(w) \/ LoadProduct(w)
                                 \/ ReviewContinues(w) \/ ReviewCrash(w)

ReviewsSpec == ReviewInit /\ [][ReviewsNext]_reviewVars
-----------------------------------------------------------------------------
\* The types of the variables; whoever holds a lock is at work.
ReviewsTypeOK ==
    /\ review \in [ReviewId -> [state : ReviewStates, contact : Contact \cup {None},
                                purchase : Purchase \cup {None}]]
    /\ rating \subseteq ReviewId
    /\ productLock \in Worker \cup {None} /\ reviewLock \in [ReviewId -> Worker \cup {None}]
    /\ task \in [Worker -> [pc : {"idle", "checked", "loaded", "written", "counted"},
                            op : {"none", "create", "approve", "hide", "delete", "edit"},
                            review : ReviewId \cup {None}, contact : Contact \cup {None},
                            purchase : Purchase \cup {None}, rating : SUBSET ReviewId]]
    /\ postRaced \in BOOLEAN /\ editRaced \in BOOLEAN /\ reviewCrashes \in Nat
    /\ \A w \in Worker : task[w] = NoTask => /\ productLock # w
                                            /\ \A r \in ReviewId : reviewLock[r] # w

\* As long as no edit of the product overlaps another request, its average and
\* count are those of the approved reviews at every moment, however posts,
\* approvals and deletions overlap and die: the lock of _recompute_rating is
\* held until the write it counts commits.
RatingMatches == ~editRaced => rating = Approved

\* An account never has two reviews of a product.  As long as no two requests
\* overlap, neither has a guest and a purchase verifies one review;
\* overlapping ones break both (create_review checks before it writes, and
\* only the account's review has a constraint).
PostingExclusive ==
    \A r, q \in Posted : r # q =>
        /\ review[r].contact = review[q].contact => postRaced /\ review[r].contact \notin Account
        /\ review[r].purchase = review[q].purchase => postRaced \/ review[r].purchase = None
=============================================================================
