----------------------------- MODULE ReviewsProofs ----------------------------
(***************************************************************************)
(* Reviews and their photos, for every set of workers, reviews, photos and *)
(* contacts and every bound: the rating of a product is that of its        *)
(* approved reviews, nobody posts twice, and every photo has its file.     *)
(***************************************************************************)
EXTENDS Reviews, ReviewPhotos, FiniteSetTheorems, TLAPS

(***************************************************************************)
(* Reviews and the rating of their product.                                *)
(***************************************************************************)
ReviewRow == [state : ReviewStates, contact : Contact \cup {None}, purchase : Purchase \cup {None}]
Task == [pc : {"idle", "checked", "loaded", "written", "counted"},
         op : {"none", "create", "approve", "hide", "delete", "edit"},
         review : ReviewId \cup {None}, contact : Contact \cup {None},
         purchase : Purchase \cup {None}, rating : SUBSET ReviewId]

Writes == {"create", "approve", "hide", "delete"}

\* A task that writes a review has one.
Sane(t) == /\ t.op \in Writes => t.review \in ReviewId
           /\ t.pc \in {"checked", "written", "counted"} => t.op \in Writes
           /\ t.pc = "idle" <=> t.op = "none"

\* The product's lock is held from the recomputation on, a review's from the
\* write on.
Held(w, t) == /\ productLock = w <=> t.pc = "counted"
              /\ \A r \in ReviewId : reviewLock[r] = w => t.pc \in {"written", "counted"}

\* A review to be inserted is nobody else's.
Fresh(w) == task[w].op = "create" =>
                /\ review[task[w].review].state = "unused"
                /\ \A v \in Worker \ {w} : task[v].review # task[w].review

\* What was recomputed is the rating its transaction will leave.
Counted(w) == task[w].pc = "counted" => task[w].rating = ApprovedIn(w)

\* Until an edit of the product overlaps another request, it is alone and will
\* save the rating as it is.
EditAlone ==
    ~editRaced => /\ rating = Approved
                  /\ \A w \in Worker : task[w].op = "edit" =>
                        /\ task[w].rating = rating
                        /\ \A v \in Worker \ {w} : task[v] = NoTask

ReviewInv ==
    /\ ReviewsTypeOK
    /\ \A w \in Worker : Sane(task[w]) /\ Held(w, task[w]) /\ Fresh(w) /\ Counted(w)
    /\ EditAlone
-----------------------------------------------------------------------------
\* The type invariant, with the records named.
LEMMA ReviewShapes ==
    ASSUME ReviewsTypeOK
    PROVE  /\ review \in [ReviewId -> ReviewRow] /\ rating \subseteq ReviewId
           /\ productLock \in Worker \cup {None}
           /\ reviewLock \in [ReviewId -> Worker \cup {None}]
           /\ task \in [Worker -> Task] /\ reviewCrashes \in Nat
  BY DEF ReviewsTypeOK, ReviewRow, Task

\* An idle request is one of the tasks and has no review.
LEMMA IdleTask == /\ NoTask \in Task /\ NoTask.pc = "idle" /\ NoTask.op = "none"
                  /\ NoTask.review = None /\ Sane(NoTask)
  BY DEF NoTask, Task, Sane, Writes

\* The types after a step, from the types of what it changes.
LEMMA ReviewTypes ==
    ASSUME review' \in [ReviewId -> ReviewRow], rating' \subseteq ReviewId,
           productLock' \in Worker \cup {None},
           reviewLock' \in [ReviewId -> Worker \cup {None}],
           task' \in [Worker -> Task], reviewCrashes' \in Nat,
           postRaced' \in BOOLEAN, editRaced' \in BOOLEAN,
           \A w \in Worker : Held(w, task[w])'
    PROVE  ReviewsTypeOK'
<1>1. ASSUME NEW w \in Worker, task'[w] = NoTask
      PROVE  productLock' # w /\ \A r \in ReviewId : reviewLock'[r] # w
  BY <1>1, IdleTask DEF Held
<1> QED
  BY <1>1 DEF ReviewsTypeOK, ReviewRow, Task

\* A request that begins: it has taken no lock, and what it will insert is
\* fresh.
LEMMA BeginKeeps ==
    ASSUME ReviewInv, NEW w \in Worker, NEW t \in Task, Begin(w, t), Sane(t),
           t.pc \in {"checked", "loaded"},
           UNCHANGED <<review, rating, productLock, reviewLock>>,
           t.op = "create" => /\ review[t.review].state = "unused"
                              /\ \A v \in Worker : task[v].review # t.review,
           t.op # "create" => t.review = None \/ review[t.review].state # "unused",
           t.op = "edit" => t.rating = rating
    PROVE  ReviewInv'
<1>0. /\ task[w] = NoTask /\ task' = [task EXCEPT ![w] = t] /\ UNCHANGED reviewCrashes
      /\ task \in [Worker -> Task]
      /\ \A v \in Worker : Sane(task[v]) /\ Held(v, task[v]) /\ Fresh(v) /\ Counted(v)
  BY ReviewShapes DEF Begin, ReviewInv
<1>1. /\ task'[w] = t /\ task'[w].pc \in {"checked", "loaded"}
      /\ \A v \in Worker \ {w} : task'[v] = task[v]
  BY <1>0
<1>2. postRaced' \in BOOLEAN /\ editRaced' \in BOOLEAN
  <2>1. postRaced \in BOOLEAN /\ editRaced \in BOOLEAN
    BY DEF ReviewInv, ReviewsTypeOK
  <2> QED
    BY <2>1, Zenon DEF Begin
<1>3. ASSUME ~editRaced', NEW v \in Worker, task[v] # NoTask
      PROVE  ~editRaced /\ t.op # "edit" /\ task[v].op # "edit"
  BY <1>3, Zenon DEF Begin
<1>4. ~editRaced' => ~editRaced
  BY Zenon DEF Begin
<1>5. \A v \in Worker : Sane(task[v])' /\ Held(v, task[v])'
  BY <1>0, <1>1, IdleTask DEF Held, Sane
<1>6. ReviewsTypeOK'
  BY <1>0, <1>2, <1>5, ReviewShapes, ReviewTypes DEF ReviewInv
<1>7. ASSUME NEW v \in Worker PROVE Fresh(v)'
  <2>1. CASE v = w
    BY <1>1, <2>1 DEF Fresh
  <2>2. CASE v # w
    <3> SUFFICES ASSUME task[v].op = "create"
                 PROVE  /\ review[task[v].review].state = "unused"
                        /\ \A u \in Worker \ {v} : task'[u].review # task[v].review
      BY <1>1, <2>2 DEF Fresh
    <3>1. task[v].review \in ReviewId /\ review[task[v].review].state = "unused"
      BY <1>0 DEF Fresh, Sane, Writes
    <3>2. t.review # task[v].review
      BY <3>1, ReviewsAssumption
    <3> QED
      BY <1>0, <1>1, <3>1, <3>2 DEF Fresh
  <2> QED
    BY <2>1, <2>2
<1>8. \A v \in Worker : Counted(v)'
  BY <1>0, <1>1 DEF Counted, ApprovedIn, Approved
<1>9. EditAlone'
  <2> SUFFICES ASSUME ~editRaced' PROVE EditAlone'
    BY DEF EditAlone
  <2>1. rating = Approved /\ rating' = Approved'
    BY <1>4 DEF ReviewInv, EditAlone, Approved
  <2>2. \A v \in Worker : task[v].op # "edit"
    BY <1>3, IdleTask
  <2>3. t.op = "edit" => \A v \in Worker : task[v] = NoTask
    BY <1>3
  <2> QED
    BY <1>1, <2>1, <2>2, <2>3 DEF EditAlone
<1> QED
  BY <1>5, <1>6, <1>7, <1>8, <1>9 DEF ReviewInv

\* A request that goes on with its task, or ends it.
LEMMA GoesOn ==
    ASSUME ReviewInv, NEW w \in Worker, NEW t \in Task, task[w] # NoTask,
           task' = [task EXCEPT ![w] = t], UNCHANGED <<postRaced, editRaced>>,
           reviewCrashes' \in Nat, review' \in [ReviewId -> ReviewRow], rating' \subseteq ReviewId,
           productLock' \in Worker \cup {None},
           reviewLock' \in [ReviewId -> Worker \cup {None}],
           Sane(t), Held(w, t)', \A v \in Worker \ {w} : Held(v, task[v])',
           t = NoTask \/ (t.op = task[w].op /\ t.review = task[w].review /\ t.op # "edit"),
           t.pc = "counted" => t.rating = ApprovedIn(w) /\ review' = review,
           \A r \in ReviewId : (r = task[w].review /\ t = NoTask) \/ review'[r] = review[r],
           \A v \in Worker \ {w} : task[v].pc = "counted" => review' = review,
           ~editRaced => rating' = Approved'
    PROVE  ReviewInv'
<1>0. /\ task \in [Worker -> Task] /\ t \in Task
      /\ \A v \in Worker : Sane(task[v]) /\ Held(v, task[v]) /\ Fresh(v) /\ Counted(v)
      /\ postRaced \in BOOLEAN /\ editRaced \in BOOLEAN
  BY ReviewShapes DEF ReviewInv, ReviewsTypeOK
<1>1. task'[w] = t /\ \A v \in Worker \ {w} : task'[v] = task[v]
  BY <1>0
<1>2. \A v \in Worker : Sane(task[v])' /\ Held(v, task[v])'
  BY <1>0, <1>1 DEF Held, Sane
<1>3. ReviewsTypeOK'
  BY <1>0, <1>2, ReviewTypes
<1>4. ASSUME NEW v \in Worker PROVE Fresh(v)'
  <2>1. CASE v = w
    <3>1. t = NoTask => Fresh(v)'
      BY <1>1, <2>1, IdleTask DEF Fresh
    <3>2. ASSUME t # NoTask, t.op = "create"
          PROVE  /\ review'[t.review].state = "unused"
                 /\ \A u \in Worker \ {w} : task[u].review # t.review
      <4>1. t.review \in ReviewId /\ t.review = task[w].review /\ task[w].op = "create"
        BY <3>2 DEF Sane, Writes
      <4> QED
        BY <1>0, <3>2, <4>1 DEF Fresh
    <3> QED
      BY <1>1, <2>1, <3>1, <3>2 DEF Fresh
  <2>2. CASE v # w
    <3> SUFFICES ASSUME task[v].op = "create"
                 PROVE  /\ review'[task[v].review].state = "unused"
                        /\ \A u \in Worker \ {v} : task'[u].review # task[v].review
      BY <1>1, <2>2 DEF Fresh
    <3>1. /\ task[v].review \in ReviewId /\ review[task[v].review].state = "unused"
          /\ \A u \in Worker \ {v} : task[u].review # task[v].review
      BY <1>0 DEF Fresh, Sane, Writes
    <3>2. review'[task[v].review] = review[task[v].review]
      BY <2>2, <3>1
    <3>3. t.review # task[v].review
      BY <2>2, <3>1, IdleTask, ReviewsAssumption
    <3> QED
      BY <1>1, <3>1, <3>2, <3>3
  <2> QED
    BY <2>1, <2>2
<1>5. ASSUME NEW v \in Worker PROVE Counted(v)'
  <2>1. CASE v = w
    <3>1. t.pc = "counted" => t # NoTask /\ t.op = task[w].op /\ t.review = task[w].review
      BY IdleTask
    <3>2. task'[v] = t
      BY <1>1, <2>1
    <3>3. ASSUME t.pc = "counted"
          PROVE  t.rating = ApprovedIn(v)'
      <4>1. t.rating = ApprovedIn(w) /\ Approved' = Approved
        BY <3>3 DEF Approved
      <4>2. task'[v].op = task[w].op /\ task'[v].review = task[w].review
        BY <3>1, <3>2, <3>3
      <4> QED
        BY <4>1, <4>2 DEF ApprovedIn
    <3> QED
      BY <3>2, <3>3, Zenon DEF Counted
  <2>2. CASE v # w
    <3>1. task'[v] = task[v] /\ Counted(v)
      BY <1>0, <1>1, <2>2
    <3>2. task[v].pc = "counted" => Approved' = Approved
      BY <2>2 DEF Approved
    <3>3. ASSUME task[v].pc = "counted"
          PROVE  task[v].rating = ApprovedIn(v)'
      BY <3>1, <3>2, <3>3 DEF Counted, ApprovedIn
    <3> QED
      BY <3>1, <3>3, Zenon DEF Counted
  <2> QED
    BY <2>1, <2>2
<1>6. EditAlone'
  <2> SUFFICES ASSUME ~editRaced' PROVE EditAlone'
    BY DEF EditAlone
  <2>1. \A v \in Worker \ {w} : task[v].op # "edit"
    BY DEF ReviewInv, EditAlone
  <2>2. t.op # "edit"
    BY IdleTask
  <2> QED
    BY <1>1, <2>1, <2>2 DEF EditAlone
<1> QED
  BY <1>2, <1>3, <1>4, <1>5, <1>6 DEF ReviewInv

\* The locks after EndTask.
LEMMA LocksReleased ==
    ASSUME ReviewInv, NEW w \in Worker, EndTask(w)
    PROVE  /\ task' = [task EXCEPT ![w] = NoTask]
           /\ productLock' \in Worker \cup {None}
           /\ reviewLock' \in [ReviewId -> Worker \cup {None}]
           /\ Held(w, NoTask)' /\ \A v \in Worker \ {w} : Held(v, task[v])'
<1>1. /\ task' = [task EXCEPT ![w] = NoTask] /\ task \in [Worker -> Task]
      /\ productLock' = IF productLock = w THEN None ELSE productLock
      /\ reviewLock' = [r \in ReviewId |-> IF reviewLock[r] = w THEN None ELSE reviewLock[r]]
      /\ productLock \in Worker \cup {None} /\ reviewLock \in [ReviewId -> Worker \cup {None}]
  BY ReviewShapes DEF ReviewInv, EndTask
<1>2. productLock' \in Worker \cup {None} /\ reviewLock' \in [ReviewId -> Worker \cup {None}]
  BY <1>1
<1>3. Held(w, NoTask)'
  BY <1>1, IdleTask, WorkersAssumption DEF Held, NoTask
<1>4. ASSUME NEW v \in Worker \ {w} PROVE Held(v, task[v])'
  <2>1. Held(v, task[v]) /\ task'[v] = task[v] /\ v # None
    BY <1>1, WorkersAssumption DEF ReviewInv
  <2>2. productLock' = v <=> productLock = v
    BY <1>1, <2>1
  <2>3. \A r \in ReviewId : reviewLock'[r] = v => reviewLock[r] = v
    BY <1>1, <2>1
  <2> QED
    BY <2>1, <2>2, <2>3 DEF Held
<1> QED
  BY <1>1, <1>2, <1>3, <1>4
-----------------------------------------------------------------------------
\* There is no review and no request when the system starts (apps/reviews).
THEOREM ReviewInvStarts == ReviewInit => ReviewInv
<1> SUFFICES ASSUME ReviewInit PROVE ReviewInv
  OBVIOUS
<1>1. \A w \in Worker : task[w] = NoTask
  BY DEF ReviewInit
<1>2. \A w \in Worker : Sane(task[w]) /\ Held(w, task[w]) /\ Fresh(w) /\ Counted(w)
  BY <1>1, IdleTask, WorkersAssumption DEF ReviewInit, Held, Fresh, Counted
<1>3. ReviewsTypeOK
  <2>1. task \in [Worker -> Task] /\ review \in [ReviewId -> ReviewRow]
    BY IdleTask DEF ReviewInit, ReviewRow, ReviewStates
  <2>2. \A w \in Worker : productLock # w /\ \A r \in ReviewId : reviewLock[r] # w
    BY WorkersAssumption DEF ReviewInit
  <2> QED
    BY <2>1, <2>2 DEF ReviewInit, ReviewsTypeOK, Task, ReviewRow
<1>4. EditAlone
  BY <1>1, IdleTask DEF ReviewInit, EditAlone, Approved
<1> QED
  BY <1>2, <1>3, <1>4 DEF ReviewInv

\* Every step keeps it: a rating is recomputed and committed under the
\* product's lock, so no other commit comes between (_recompute_rating).
THEOREM ReviewStepKeeps == ReviewInv /\ [ReviewsNext]_reviewVars => ReviewInv'
<1> SUFFICES ASSUME ReviewInv, [ReviewsNext]_reviewVars
             PROVE  ReviewInv'
  OBVIOUS
<1>0. /\ review \in [ReviewId -> ReviewRow] /\ rating \subseteq ReviewId
      /\ productLock \in Worker \cup {None} /\ reviewLock \in [ReviewId -> Worker \cup {None}]
      /\ task \in [Worker -> Task] /\ reviewCrashes \in Nat
      /\ \A v \in Worker : Sane(task[v]) /\ Held(v, task[v]) /\ Fresh(v) /\ Counted(v)
      /\ ~editRaced => rating = Approved
  BY ReviewShapes DEF ReviewInv, EditAlone
<1>1. ASSUME NEW w \in Worker, CheckPost(w)
      PROVE  ReviewInv'
  <2>1. PICK c \in Contact, o \in Purchase \cup {None}, r \in ReviewId :
          /\ review[r].state = "unused" /\ \A v \in Worker : task[v].review # r
          /\ Begin(w, [NoTask EXCEPT !.pc = "checked", !.op = "create", !.contact = c,
                                     !.review = r, !.purchase = o])
          /\ UNCHANGED <<review, rating, productLock, reviewLock>>
    BY <1>1 DEF CheckPost
  <2>2. PICK t \in Task : t = [NoTask EXCEPT !.pc = "checked", !.op = "create", !.contact = c,
                                             !.review = r, !.purchase = o]
    BY IdleTask DEF Task
  <2>3. t.pc = "checked" /\ t.op = "create" /\ t.review = r
    BY <2>2, IdleTask DEF Task
  <2>4. Sane(t)
    BY <2>3 DEF Sane, Writes
  <2> QED
    BY <2>1, <2>2, <2>3, <2>4, BeginKeeps
<1>2. ASSUME NEW w \in Worker, LoadReview(w)
      PROVE  ReviewInv'
  <2>1. PICK r \in Posted, op \in {"approve", "hide", "delete"} :
          /\ Begin(w, [NoTask EXCEPT !.pc = "loaded", !.op = op, !.review = r])
          /\ UNCHANGED <<review, rating, productLock, reviewLock>>
    BY <1>2 DEF LoadReview
  <2>2. r \in ReviewId /\ review[r].state # "unused"
    BY <2>1 DEF Posted
  <2>3. PICK t \in Task : t = [NoTask EXCEPT !.pc = "loaded", !.op = op, !.review = r]
    BY <2>2, IdleTask DEF Task
  <2>4. t.pc = "loaded" /\ t.op = op /\ t.review = r
    BY <2>3, IdleTask DEF Task
  <2>5. Sane(t)
    BY <2>2, <2>4 DEF Sane
  <2> QED
    BY <2>1, <2>2, <2>3, <2>4, <2>5, BeginKeeps
<1>3. ASSUME NEW w \in Worker, LoadProduct(w)
      PROVE  ReviewInv'
  <2>1. PICK t \in Task : t = [NoTask EXCEPT !.pc = "loaded", !.op = "edit", !.rating = rating]
    BY <1>0, IdleTask DEF Task
  <2>2. t.pc = "loaded" /\ t.op = "edit" /\ t.rating = rating /\ t.review = None
    BY <2>1, IdleTask DEF Task
  <2>3. Sane(t)
    BY <2>2 DEF Sane, Writes
  <2>4. Begin(w, t) /\ UNCHANGED <<review, rating, productLock, reviewLock>>
    BY <1>3, <2>1 DEF LoadProduct
  <2> QED
    BY <2>2, <2>3, <2>4, BeginKeeps
<1>4. ASSUME NEW w \in Worker, InsertReview(w)
      PROVE  ReviewInv'
  <2>1. /\ task[w].pc = "checked"
        /\ UNCHANGED <<review, rating, productLock, reviewLock, postRaced, editRaced,
                       reviewCrashes>>
    BY <1>4 DEF InsertReview
  <2>2. task[w] # NoTask
    BY <2>1, IdleTask
  <2>3. PICK t \in Task : /\ task' = [task EXCEPT ![w] = t]
                          /\ t = NoTask \/ t = [task[w] EXCEPT !.pc = "written"]
    <3>1. [task[w] EXCEPT !.pc = "written"] \in Task
      BY <1>0 DEF Task
    <3> QED
      BY <1>4, <3>1, IdleTask DEF InsertReview
  <2>4. /\ Sane(t) /\ Held(w, t) /\ t.pc # "counted"
        /\ t = NoTask \/ (t.op = task[w].op /\ t.review = task[w].review /\ t.op # "edit")
    <3>1. CASE t = NoTask
      BY <1>0, <2>1, <3>1, IdleTask DEF Held
    <3>2. CASE t = [task[w] EXCEPT !.pc = "written"]
      <4>1. t.pc = "written" /\ t.op = task[w].op /\ t.review = task[w].review
        BY <1>0, <3>2 DEF Task
      <4> QED
        BY <1>0, <2>1, <4>1 DEF Sane, Held, Writes
    <3> QED
      BY <2>3, <3>1, <3>2
  <2>5. Held(w, t)' /\ \A v \in Worker \ {w} : Held(v, task[v])'
    BY <1>0, <2>1, <2>3, <2>4 DEF Held
  <2>6. ~editRaced => rating' = Approved'
    BY <1>0, <2>1 DEF Approved
  <2> QED
    BY <1>0, <2>1, <2>2, <2>3, <2>4, <2>5, <2>6, GoesOn
<1>5. ASSUME NEW w \in Worker, WriteReview(w)
      PROVE  ReviewInv'
  <2>1. /\ task[w].pc = "loaded" /\ task[w].op # "edit" /\ reviewLock[task[w].review] = None
        /\ UNCHANGED <<review, rating, productLock, postRaced, editRaced, reviewCrashes>>
    BY <1>5 DEF WriteReview
  <2>2. task[w] # NoTask
    BY <2>1, IdleTask
  <2>3. ~editRaced => rating' = Approved'
    BY <1>0, <2>1 DEF Approved
  <2>4. CASE task[w].review \in Posted
    <3>1. PICK t \in Task : t = [task[w] EXCEPT !.pc = "written"]
      BY <1>0 DEF Task
    <3>2. /\ task' = [task EXCEPT ![w] = t]
          /\ reviewLock' = [reviewLock EXCEPT ![task[w].review] = w]
          /\ t.pc = "written" /\ t.op = task[w].op /\ t.review = task[w].review
      BY <1>0, <1>5, <2>4, <3>1 DEF WriteReview, Task
    <3>3. Sane(t) /\ task[w].review \in ReviewId
      <4>1. task[w].review \in ReviewId
        BY <2>4 DEF Posted
      <4>2. task[w].op \in Writes
        BY <1>0, <2>1 DEF Sane, Writes, Task
      <4> QED
        BY <3>2, <4>1, <4>2 DEF Sane, Writes
    <3>4. /\ reviewLock' \in [ReviewId -> Worker \cup {None}]
          /\ \A r \in ReviewId, v \in Worker \ {w} : reviewLock'[r] = v => reviewLock[r] = v
      BY <1>0, <3>2, <3>3
    <3>5. Held(w, t)' /\ \A v \in Worker \ {w} : Held(v, task[v])'
      BY <1>0, <2>1, <3>2, <3>4 DEF Held
    <3> QED
      BY <1>0, <2>1, <2>2, <2>3, <3>2, <3>3, <3>4, <3>5, GoesOn
  <2>5. CASE task[w].review \notin Posted
    <3>1. task' = [task EXCEPT ![w] = NoTask] /\ UNCHANGED reviewLock
      BY <1>5, <2>5 DEF WriteReview
    <3>2. Held(w, NoTask)' /\ \A v \in Worker \ {w} : Held(v, task[v])'
      BY <1>0, <2>1, <3>1, IdleTask DEF Held
    <3> QED
      BY <1>0, <2>1, <2>2, <2>3, <3>1, <3>2, IdleTask, GoesOn
  <2> QED
    BY <2>4, <2>5
<1>6. ASSUME NEW w \in Worker, RecomputeRating(w)
      PROVE  ReviewInv'
  <2>1. /\ task[w].pc = "written" /\ productLock = None /\ productLock' = w
        /\ UNCHANGED <<review, rating, reviewLock, postRaced, editRaced, reviewCrashes>>
    BY <1>6 DEF RecomputeRating
  <2>2. task[w] # NoTask /\ ApprovedIn(w) \subseteq ReviewId
    <3>1. task[w].op = "approve" => task[w].review \in ReviewId
      BY <1>0 DEF Sane, Writes
    <3> QED
      BY <2>1, <3>1, IdleTask DEF ApprovedIn, Approved
  <2>3. PICK t \in Task : t = [task[w] EXCEPT !.pc = "counted", !.rating = ApprovedIn(w)]
    <3>1. [task[w] EXCEPT !.pc = "counted", !.rating = ApprovedIn(w)] \in Task
      BY <1>0, <2>2 DEF Task
    <3> QED
      BY <3>1
  <2>4. /\ task' = [task EXCEPT ![w] = t] /\ t.pc = "counted" /\ t.rating = ApprovedIn(w)
        /\ t.op = task[w].op /\ t.review = task[w].review
    BY <1>0, <1>6, <2>3 DEF RecomputeRating, Task
  <2>5. Sane(t) /\ t.op # "edit"
    BY <1>0, <2>1, <2>4 DEF Sane, Writes
  <2>6. Held(w, t)' /\ \A v \in Worker \ {w} : Held(v, task[v])'
    BY <1>0, <2>1, <2>4, WorkersAssumption DEF Held
  <2>7. ~editRaced => rating' = Approved'
    BY <1>0, <2>1 DEF Approved
  <2> QED
    BY <1>0, <2>1, <2>2, <2>4, <2>5, <2>6, <2>7, GoesOn
<1>7. ASSUME NEW w \in Worker, CommitReview(w)
      PROVE  ReviewInv'
  <2>1. PICK r \in ReviewId : r = task[w].review
    BY <1>0, <1>7 DEF CommitReview, Sane
  <2>2. /\ task[w].pc = "counted" /\ productLock = w /\ task[w].op \in Writes
        /\ review' = [review EXCEPT ![r] = Written(task[w])] /\ rating' = ApprovedIn(w)
        /\ EndTask(w) /\ UNCHANGED <<postRaced, editRaced, reviewCrashes>>
    BY <1>0, <1>7, <2>1 DEF CommitReview, Held, Sane, Counted
  <2>3. Written(task[w]) \in ReviewRow
    BY <1>0, <2>1 DEF Written, ReviewRow, Task, ReviewStates
  <2>4. Written(task[w]).state = "approved" <=> task[w].op = "approve"
    BY <1>0, <2>1, <2>2 DEF Written, Writes, ReviewRow
  <2>5. task[w].op = "create" => r \notin Approved
    BY <1>0, <2>1 DEF Fresh, Approved
  <2>6. Approved' = ApprovedIn(w)
    <3>1. Approved' = IF task[w].op = "approve" THEN Approved \cup {r} ELSE Approved \ {r}
      BY <1>0, <2>2, <2>3, <2>4 DEF Approved
    <3> QED
      BY <2>1, <2>2, <2>5, <3>1 DEF ApprovedIn, Writes
  <2>7. \A v \in Worker \ {w} : task[v].pc # "counted"
    BY <1>0, <2>2 DEF Held
  <2>8. /\ review' \in [ReviewId -> ReviewRow] /\ rating' \subseteq ReviewId
        /\ task[w] # NoTask /\ \A q \in ReviewId \ {r} : review'[q] = review[q]
    BY <1>0, <2>2, <2>3, <2>6, IdleTask DEF Approved
  <2> QED
    BY <1>0, <2>1, <2>2, <2>6, <2>7, <2>8, LocksReleased, IdleTask, GoesOn
<1>8. ASSUME NEW w \in Worker, SaveProduct(w)
      PROVE  ReviewInv'
  <2>1. /\ task[w].pc = "loaded" /\ task[w].op = "edit" /\ rating' = task[w].rating
        /\ EndTask(w) /\ UNCHANGED <<review, postRaced, editRaced, reviewCrashes>>
    BY <1>8 DEF SaveProduct
  <2>2. rating' \subseteq ReviewId /\ task[w] # NoTask
    BY <1>0, <2>1, IdleTask DEF Task
  <2>3. ~editRaced => rating' = Approved'
    BY <2>1 DEF ReviewInv, EditAlone, Approved
  <2> QED
    BY <1>0, <2>1, <2>2, <2>3, LocksReleased, IdleTask, GoesOn
<1>9. ASSUME NEW w \in Worker, ReviewCrash(w)
      PROVE  ReviewInv'
  <2>1. /\ task[w] # NoTask /\ reviewCrashes' \in Nat /\ EndTask(w)
        /\ UNCHANGED <<review, rating, postRaced, editRaced>>
    BY <1>0, <1>9 DEF ReviewCrash
  <2>2. ~editRaced => rating' = Approved'
    BY <1>0, <2>1 DEF Approved
  <2> QED
    BY <1>0, <2>1, <2>2, LocksReleased, IdleTask, GoesOn
<1>10. CASE UNCHANGED reviewVars
  BY <1>10 DEF reviewVars, ReviewInv, ReviewsTypeOK, Held, Fresh, Counted, ApprovedIn, Approved,
               EditAlone
<1> QED
  BY <1>1, <1>2, <1>3, <1>4, <1>5, <1>6, <1>7, <1>8, <1>9, <1>10 DEF ReviewsNext, ReviewContinues
-----------------------------------------------------------------------------
\* The types of the variables hold throughout, and no idle request holds a
\* lock (apps/reviews).
THEOREM ReviewTypesHold == ReviewsSpec => []ReviewsTypeOK
<1>1. ReviewInv => ReviewsTypeOK
  BY DEF ReviewInv
<1> QED
  BY <1>1, ReviewInvStarts, ReviewStepKeeps, PTL DEF ReviewsSpec

\* The product's average and count are those of its approved reviews at every
\* moment, until an edit of the product overlaps another request.
THEOREM RatingKept == ReviewsSpec => []RatingMatches
<1>1. ReviewInv => RatingMatches
  BY DEF ReviewInv, EditAlone, RatingMatches
<1> QED
  BY <1>1, ReviewInvStarts, ReviewStepKeeps, PTL DEF ReviewsSpec
-----------------------------------------------------------------------------
Writing(t) == t.pc \in {"written", "counted"}
Handling == {"approve", "hide", "delete"}

\* Only a post names a contact, and it is checked before it is written.
Posting == \A w \in Worker : /\ task[w].op # "create" => task[w].contact = None
                             /\ task[w].pc = "checked" => task[w].op = "create"
                             /\ task[w].pc = "loaded" => task[w].op # "create"

\* A write to a review holds its row.
RowsHeld == \A w \in Worker : task[w].op \in Handling /\ Writing(task[w]) =>
                reviewLock[task[w].review] = w /\ task[w].review \in Posted

Unreviewed(c) == \A q \in Posted : review[q].contact # c

\* An account's insertion is the only one of that account, and it met no review
\* of it.
OneInsertion ==
    \A w \in Worker :
        task[w].op = "create" /\ Writing(task[w]) /\ task[w].contact \in Account =>
            /\ Unreviewed(task[w].contact)
            /\ \A v \in Worker \ {w} :
                  task[v].contact = task[w].contact => task[v].pc = "checked"

\* As long as no two requests overlapped, what a post found before it wrote still
\* holds.
Undisturbed ==
    ~postRaced => \A w \in Worker : task[w].op = "create" =>
        /\ Unreviewed(task[w].contact)
        /\ Writing(task[w]) => Verifies(task[w])
        /\ \A v \in Worker \ {w} : task[v] = NoTask

PostInv == PostingExclusive /\ Posting /\ RowsHeld /\ OneInsertion /\ Undisturbed

\* No review is posted at the start.
LEMMA PostStarts == ReviewInit => PostInv
  BY IdleTask DEF ReviewInit, NoTask, PostInv, PostingExclusive, Posted, Writing, Handling,
                  Posting, RowsHeld, OneInsertion, Undisturbed

\* A step that writes no review.
LEMMA QuietKeepsPosts ==
    ASSUME ReviewInv, PostInv, NEW w \in Worker, NEW t \in Task,
           task' = [task EXCEPT ![w] = t], review' = review,
           t.op # "create" => t.contact = None,
           t.pc = "checked" => t.op = "create", t.pc = "loaded" => t.op # "create",
           t.op \in Handling /\ Writing(t) => reviewLock'[t.review] = w /\ t.review \in Posted,
           \A v \in Worker \ {w}, r \in ReviewId : reviewLock[r] = v => reviewLock'[r] = v,
           t.op = "create" /\ Writing(t) /\ t.contact \in Account =>
               /\ Unreviewed(t.contact)
               /\ \A v \in Worker \ {w} : task[v].contact = t.contact => task[v].pc = "checked",
           \A v \in Worker \ {w} :
               /\ task[v].op = "create" /\ Writing(task[v]) /\ task[v].contact \in Account
               /\ t.contact = task[v].contact
               => t.pc = "checked",
           ~postRaced' => ~postRaced,
           ~postRaced' /\ t.op = "create" =>
               /\ Unreviewed(t.contact) /\ (Writing(t) => Verifies(t))
               /\ \A v \in Worker \ {w} : task[v] = NoTask,
           ~postRaced' /\ t # NoTask => \A v \in Worker \ {w} : task[v].op # "create"
    PROVE  PostInv'
<1>0. /\ task'[w] = t /\ \A v \in Worker \ {w} : task'[v] = task[v]
      /\ Posted' = Posted /\ Posted \subseteq ReviewId
  BY ReviewShapes DEF ReviewInv, Posted
<1>1. PostingExclusive'
  <2>1. postRaced => postRaced'
    OBVIOUS
  <2> QED
    BY <1>0, <2>1, Zenon DEF PostInv, PostingExclusive
<1>2. \A c : Unreviewed(c) => \A q \in Posted' : review'[q].contact # c
  BY <1>0 DEF Unreviewed
<1>3. ASSUME NEW v \in Worker, Verifies(task'[v]) PROVE Verifies(task[v])'
  BY <1>0, <1>3 DEF Verifies
<1>4. RowsHeld'
  <2> SUFFICES ASSUME NEW v \in Worker, task'[v].op \in Handling, Writing(task'[v])
               PROVE  reviewLock'[task'[v].review] = v /\ task'[v].review \in Posted
    BY <1>0 DEF RowsHeld, Writing
  <2>1. CASE v = w
    BY <1>0, <2>1
  <2>2. CASE v # w
    BY <1>0, <2>2 DEF PostInv, RowsHeld, Posted
  <2> QED
    BY <2>1, <2>2
<1>5. OneInsertion'
  <2> SUFFICES ASSUME NEW v \in Worker, task'[v].op = "create", Writing(task'[v]),
                      task'[v].contact \in Account
               PROVE  /\ Unreviewed(task'[v].contact)
                      /\ \A u \in Worker \ {v} :
                            task'[u].contact = task'[v].contact => task'[u].pc = "checked"
    BY <1>0, <1>2 DEF OneInsertion, Unreviewed, Writing
  <2>1. CASE v = w
    BY <1>0, <2>1
  <2>2. CASE v # w
    <3>1. task'[v] = task[v]
      BY <1>0, <2>2
    <3>2. /\ Unreviewed(task[v].contact)
          /\ \A u \in Worker \ {v} : task[u].contact = task[v].contact => task[u].pc = "checked"
      BY <3>1 DEF PostInv, OneInsertion
    <3> QED
      BY <1>0, <2>2, <3>1, <3>2
  <2> QED
    BY <2>1, <2>2
<1>6. Undisturbed'
  <2> SUFFICES ASSUME ~postRaced', NEW v \in Worker, task'[v].op = "create"
               PROVE  /\ Unreviewed(task'[v].contact)
                      /\ Writing(task'[v]) => Verifies(task'[v])
                      /\ \A u \in Worker \ {v} : task'[u] = NoTask
    BY <1>0, <1>2, <1>3 DEF Undisturbed, Unreviewed, Writing
  <2>1. CASE v = w
    BY <1>0, <2>1
  <2>2. CASE v # w
    BY <1>0, <2>2 DEF PostInv, Undisturbed
  <2> QED
    BY <2>1, <2>2
<1>7. Posting'
  BY <1>0 DEF PostInv, Posting
<1> QED
  BY <1>1, <1>4, <1>5, <1>6, <1>7 DEF PostInv

\* The serializer finds the reviews of a customer by account or by purchase.
LEMMA NotReviewed == \A c : ~AlreadyReviewed(c) => Unreviewed(c)
  BY DEF AlreadyReviewed, Unreviewed

\* A request that begins.
LEMMA BeginKeepsPosts ==
    ASSUME ReviewInv, PostInv, NEW w \in Worker, NEW t \in Task, Begin(w, t),
           UNCHANGED <<review, rating, productLock, reviewLock>>,
           \/ t.pc = "checked" /\ t.op = "create" /\ Unreviewed(t.contact)
           \/ t.pc = "loaded" /\ t.op # "create" /\ t.contact = None
    PROVE  PostInv'
<1>1. task' = [task EXCEPT ![w] = t] /\ t \in Task
  BY DEF Begin
<1>2. ~postRaced' => ~postRaced /\ \A v \in Worker : task[v] = NoTask
  BY Zenon DEF Begin
<1>3. None \notin Account
  BY ReviewsAssumption
<1>4. ~Writing(t)
  BY DEF Writing
<1>5. \A v \in Worker : task[v] = NoTask => task[v].op # "create"
  BY IdleTask
<1> QED
  BY <1>1, <1>2, <1>3, <1>4, <1>5, QuietKeepsPosts

\* A request that goes on.
LEMMA ContinueKeepsPosts ==
    ASSUME ReviewInv, PostInv, NEW w \in Worker, NEW t \in Task, task[w] # NoTask,
           task' = [task EXCEPT ![w] = t], UNCHANGED <<review, postRaced>>,
           t.op \in Handling /\ Writing(t) => reviewLock'[t.review] = w /\ t.review \in Posted,
           \A v \in Worker \ {w}, r \in ReviewId : reviewLock[r] = v => reviewLock'[r] = v,
           \/ t = NoTask
           \/ /\ Writing(t) /\ t.op = task[w].op /\ t.contact = task[w].contact /\ t.purchase = task[w].purchase
              /\ \/ t.op # "create"
                 \/ Writing(task[w])
                 \/ /\ Verifies(t)
                    /\ t.contact \in Account =>
                          /\ Unreviewed(t.contact)
                          /\ \A v \in Worker \ {w} :
                                task[v].contact = t.contact => task[v].pc = "checked"
    PROVE  PostInv'
<1>1. t.op = "create" => t # NoTask /\ task[w].op = "create"
  BY IdleTask
<1>2. None \notin Account /\ NoTask.contact = None
  BY ReviewsAssumption DEF NoTask
<1>3. t.op = "create" /\ Writing(t) /\ t.contact \in Account =>
          /\ Unreviewed(t.contact)
          /\ \A v \in Worker \ {w} : task[v].contact = t.contact => task[v].pc = "checked"
  <2> SUFFICES ASSUME t.op = "create", t.contact \in Account
               PROVE  /\ Unreviewed(t.contact)
                      /\ \A v \in Worker \ {w} :
                            task[v].contact = t.contact => task[v].pc = "checked"
    OBVIOUS
  <2>1. task[w].op = "create" /\ t.contact = task[w].contact
    BY <1>1
  <2>2. CASE Writing(task[w])
    BY <2>1, <2>2 DEF PostInv, OneInsertion
  <2>3. CASE ~Writing(task[w])
    BY <1>1, <2>3
  <2> QED
    BY <2>2, <2>3
<1>4. ASSUME NEW v \in Worker \ {w}, task[v].op = "create", Writing(task[v]),
             task[v].contact \in Account, t.contact = task[v].contact
      PROVE  t.pc = "checked"
  <2>1. task[v].pc # "checked"
    BY <1>4 DEF Writing
  <2>0. t # NoTask /\ t.contact # None
    BY <1>2, <1>4
  <2>2. t.op = "create" /\ task[w].contact = task[v].contact
    BY <1>4, <2>0 DEF PostInv, Posting
  <2>3. task[w].pc = "checked"
    BY <1>4, <2>2 DEF PostInv, OneInsertion
  <2>4. ~Writing(task[w])
    BY <2>3 DEF Writing
  <2> QED
    BY <1>4, <2>0, <2>1, <2>2, <2>4
<1>5. ~postRaced => \A v \in Worker \ {w} : task[v].op # "create"
  BY IdleTask DEF PostInv, Undisturbed
<1>7. /\ t.op # "create" => t.contact = None
      /\ t.pc \notin {"checked", "loaded"}
  <2>1. CASE t = NoTask
    BY <1>2, <2>1, IdleTask
  <2>2. CASE t # NoTask
    BY <2>2 DEF PostInv, Posting, Writing
  <2> QED
    BY <2>1, <2>2
<1>6. ~postRaced /\ t.op = "create" =>
          /\ Unreviewed(t.contact) /\ (Writing(t) => Verifies(t))
          /\ \A v \in Worker \ {w} : task[v] = NoTask
  <2> SUFFICES ASSUME ~postRaced, t.op = "create"
               PROVE  /\ Unreviewed(t.contact) /\ (Writing(t) => Verifies(t))
                      /\ \A v \in Worker \ {w} : task[v] = NoTask
    OBVIOUS
  <2>1. /\ Unreviewed(task[w].contact) /\ \A v \in Worker \ {w} : task[v] = NoTask
        /\ Writing(task[w]) => Verifies(task[w])
    BY <1>1 DEF PostInv, Undisturbed
  <2>2. t.contact = task[w].contact /\ t.purchase = task[w].purchase
    BY <1>1
  <2>3. Verifies(task[w]) => Verifies(t)
    BY <2>2 DEF Verifies
  <2> QED
    BY <1>1, <2>1, <2>2, <2>3
<1> QED
  BY <1>3, <1>4, <1>5, <1>6, <1>7, QuietKeepsPosts

\* What a commit leaves to show of the other requests.
LEMMA CommitFrame ==
    ASSUME PostInv, NEW w \in Worker, task'[w] = NoTask, postRaced' = postRaced,
           \A v \in Worker \ {w} : task'[v] = task[v],
           PostingExclusive',
           \A v \in Worker \ {w} : task[v].op \in Handling /\ Writing(task[v]) =>
               reviewLock'[task[v].review] = v /\ task[v].review \in Posted',
           \A v \in Worker \ {w} :
               task[v].op = "create" /\ Writing(task[v]) /\ task[v].contact \in Account
                  => \A q \in Posted' : review'[q].contact # task[v].contact,
           ~postRaced => \A v \in Worker \ {w} : task[v].op # "create"
    PROVE  PostInv'
<1>1. NoTask.pc = "idle" /\ NoTask.op = "none" /\ NoTask.contact = None
  BY DEF NoTask
<1>2. ~Writing(task'[w]) /\ task'[w].op \notin Handling /\ task'[w].op # "create"
  BY <1>1 DEF Writing, Handling
<1>3. RowsHeld'
  <2> SUFFICES ASSUME NEW v \in Worker, task'[v].op \in Handling, Writing(task'[v])
               PROVE  reviewLock'[task'[v].review] = v /\ task'[v].review \in Posted'
    BY DEF RowsHeld, Writing
  <2>1. v # w
    BY <1>2
  <2> QED
    BY <2>1
<1>4. OneInsertion'
  <2> SUFFICES ASSUME NEW v \in Worker, task'[v].op = "create", Writing(task'[v]),
                      task'[v].contact \in Account
               PROVE  /\ \A q \in Posted' : review'[q].contact # task'[v].contact
                      /\ \A u \in Worker \ {v} :
                            task'[u].contact = task'[v].contact => task'[u].pc = "checked"
    BY DEF OneInsertion, Unreviewed, Writing
  <2>1. v # w /\ task'[v] = task[v]
    BY <1>2
  <2>2. \A u \in Worker \ {v} : task[u].contact = task[v].contact => task[u].pc = "checked"
    BY <2>1 DEF PostInv, OneInsertion
  <2>3. task'[w].contact # task'[v].contact
    BY <1>1, ReviewsAssumption
  <2>4. ASSUME NEW u \in Worker \ {v}, task'[u].contact = task'[v].contact
        PROVE  task'[u].pc = "checked"
    <3>1. u # w /\ task'[u] = task[u]
      BY <2>3, <2>4
    <3> QED
      BY <2>1, <2>2, <2>4, <3>1
  <2> QED
    BY <2>1, <2>4
<1>5. Posting'
  <2> SUFFICES ASSUME NEW v \in Worker
               PROVE  /\ task'[v].op # "create" => task'[v].contact = None
                      /\ task'[v].pc = "checked" => task'[v].op = "create"
                      /\ task'[v].pc = "loaded" => task'[v].op # "create"
    BY DEF Posting
  <2>1. CASE v = w
    BY <1>1, <2>1
  <2>2. CASE v # w
    BY <2>2 DEF PostInv, Posting
  <2> QED
    BY <2>1, <2>2
<1>6. Undisturbed'
  BY <1>2 DEF Undisturbed
<1> QED
  BY <1>3, <1>4, <1>5, <1>6 DEF PostInv

\* A write commits: a post is a new review, and what handles one leaves whose it
\* is, or ends it.
LEMMA CommitKeepsPosts ==
    ASSUME ReviewInv, PostInv, NEW w \in Worker, CommitReview(w)
    PROVE  PostInv'
<1>0. /\ review \in [ReviewId -> ReviewRow] /\ task \in [Worker -> Task]
      /\ reviewLock \in [ReviewId -> Worker \cup {None}]
      /\ \A v \in Worker : Sane(task[v]) /\ Fresh(v)
  BY ReviewShapes DEF ReviewInv
<1> DEFINE c == task[w].contact
<1>1. PICK r \in ReviewId : r = task[w].review
  BY <1>0 DEF CommitReview, Sane
<1>2. /\ task[w].pc = "counted" /\ task[w].op \in Writes /\ task[w] # NoTask
      /\ review' = [review EXCEPT ![r] = Written(task[w])]
      /\ EndTask(w) /\ postRaced' = postRaced /\ Writing(task[w])
  BY <1>0, <1>1, IdleTask DEF CommitReview, Sane, Writing
<1>3. /\ task'[w] = NoTask /\ \A v \in Worker \ {w} : task'[v] = task[v]
      /\ review'[r] = Written(task[w]) /\ \A q \in ReviewId \ {r} : review'[q] = review[q]
      /\ \A v \in Worker \ {w}, q \in ReviewId : reviewLock[q] = v => reviewLock'[q] = v
  BY <1>0, <1>2 DEF EndTask
<1>4. CASE task[w].op = "create"
  <2>1. /\ review'[r].state = "hidden" /\ review'[r].contact = c
        /\ review'[r].purchase = task[w].purchase
        /\ r \notin Posted /\ Posted' = Posted \cup {r}
    <3>1. Written(task[w]) = [state |-> "hidden", contact |-> c, purchase |-> task[w].purchase]
      BY <1>4 DEF Written
    <3>2. r \notin Posted
      BY <1>0, <1>1, <1>4 DEF Fresh, Posted
    <3>3. Posted' = Posted \cup {r}
      BY <1>3, <3>1 DEF Posted
    <3> QED
      BY <1>3, <3>1, <3>2, <3>3
  <2>2. c \in Account => \A q \in Posted : review[q].contact # c
    BY <1>2, <1>4 DEF PostInv, OneInsertion, Unreviewed
  <2>3. ~postRaced => /\ \A q \in Posted : review[q].contact # c
                      /\ \A q \in Posted : review[q].purchase # task[w].purchase
                                           \/ task[w].purchase = None
    BY <1>2, <1>4 DEF PostInv, Undisturbed, Unreviewed, Verifies
  <2>4. PostingExclusive'
    <3> SUFFICES ASSUME NEW a \in Posted', NEW b \in Posted', a # b
                 PROVE  /\ review'[a].contact = review'[b].contact
                              => postRaced /\ review'[a].contact \notin Account
                        /\ review'[a].purchase = review'[b].purchase
                              => postRaced \/ review'[a].purchase = None
      BY <1>2 DEF PostingExclusive
    <3>1. \A q \in Posted : q \in ReviewId \ {r} /\ review'[q] = review[q]
      BY <1>3, <2>1 DEF Posted
    <3>2. CASE a # r /\ b # r
      <4>1. a \in Posted /\ b \in Posted
        BY <2>1, <3>2
      <4> QED
        BY <3>1, <4>1 DEF PostInv, PostingExclusive
    <3>3. CASE a = r
      <4>1. b \in Posted /\ review'[b] = review[b]
        BY <2>1, <3>1, <3>3
      <4> QED
        BY <2>1, <2>2, <2>3, <3>3, <4>1
    <3>4. CASE b = r
      <4>1. a \in Posted /\ review'[a] = review[a]
        BY <2>1, <3>1, <3>4
      <4> QED
        BY <2>1, <2>2, <2>3, <3>4, <4>1
    <3> QED
      BY <3>2, <3>3, <3>4
  <2>5. \A k : Unreviewed(k) /\ k # c => \A q \in Posted' : review'[q].contact # k
    BY <1>3, <2>1 DEF Unreviewed, Posted
  <2>6. \A v \in Worker \ {w} :
           task[v].op = "create" /\ Writing(task[v]) /\ task[v].contact \in Account
              => task[v].contact # c
    BY <1>2 DEF PostInv, OneInsertion
  <2>7. ~postRaced => \A v \in Worker \ {w} : task[v].op # "create"
    BY <1>2 DEF PostInv, Undisturbed
  <2>9. \A v \in Worker \ {w} :
           task[v].op = "create" /\ Writing(task[v]) /\ task[v].contact \in Account
              => \A q \in Posted' : review'[q].contact # task[v].contact
    BY <2>5, <2>6 DEF PostInv, OneInsertion
  <2>8. \A v \in Worker \ {w} : task[v].op \in Handling /\ Writing(task[v]) =>
            reviewLock'[task[v].review] = v /\ task[v].review \in Posted'
    <3> SUFFICES ASSUME NEW v \in Worker \ {w}, task[v].op \in Handling, Writing(task[v])
                 PROVE  reviewLock'[task[v].review] = v /\ task[v].review \in Posted'
      OBVIOUS
    <3>1. reviewLock[task[v].review] = v /\ task[v].review \in Posted
      BY DEF PostInv, RowsHeld
    <3>2. task[v].review \in ReviewId
      BY <3>1 DEF Posted
    <3> QED
      BY <1>3, <2>1, <3>1, <3>2
  <2> QED
    BY <1>2, <1>3, <2>4, <2>9, <2>7, <2>8, CommitFrame
<1>5. CASE task[w].op # "create"
  <2>0. task[w].op \in Handling /\ r \in Posted /\ reviewLock[r] = w
    BY <1>1, <1>2, <1>5 DEF Handling, Writes, PostInv, RowsHeld
  <2>1. \/ review'[r].contact = review[r].contact /\ review'[r].purchase = review[r].purchase
           /\ Posted' = Posted
        \/ Posted' = Posted \ {r}
    <3>1. CASE task[w].op = "delete"
      BY <1>0, <1>1, <1>3, <3>1 DEF Written, Posted
    <3>2. CASE task[w].op \in {"approve", "hide"}
      <4>1. /\ Written(task[w]).state \in {"approved", "hidden"}
            /\ Written(task[w]).contact = review[r].contact
            /\ Written(task[w]).purchase = review[r].purchase
        BY <1>0, <1>1, <3>2 DEF Written, ReviewRow
      <4> QED
        BY <1>3, <2>0, <4>1 DEF Posted
    <3> QED
      BY <2>0, <3>1, <3>2 DEF Handling
  <2>2. /\ Posted' \subseteq Posted /\ Posted \ {r} \subseteq Posted'
        /\ \A q \in Posted' : /\ review'[q].contact = review[q].contact
                              /\ review'[q].purchase = review[q].purchase
    BY <1>3, <2>1 DEF Posted
  <2>3. PostingExclusive'
    BY <1>2, <2>2 DEF PostInv, PostingExclusive
  <2>4. \A k : Unreviewed(k) => \A q \in Posted' : review'[q].contact # k
    BY <2>2 DEF Unreviewed
  <2>5. \A v \in Worker \ {w} : task[v].op \in Handling /\ Writing(task[v]) =>
            reviewLock'[task[v].review] = v /\ task[v].review \in Posted'
    <3> SUFFICES ASSUME NEW v \in Worker \ {w}, task[v].op \in Handling, Writing(task[v])
                 PROVE  reviewLock'[task[v].review] = v /\ task[v].review \in Posted'
      OBVIOUS
    <3>1. reviewLock[task[v].review] = v /\ task[v].review \in Posted
      BY DEF PostInv, RowsHeld
    <3>2. task[v].review # r /\ task[v].review \in ReviewId
      BY <2>0, <3>1 DEF Posted
    <3> QED
      BY <1>3, <2>2, <3>1, <3>2
  <2>6. ~postRaced => \A v \in Worker \ {w} : task[v].op # "create"
    BY <1>2 DEF PostInv, Undisturbed
  <2>7. \A v \in Worker \ {w} :
           task[v].op = "create" /\ Writing(task[v]) /\ task[v].contact \in Account
              => \A q \in Posted' : review'[q].contact # task[v].contact
    BY <2>4 DEF PostInv, OneInsertion
  <2> QED
    BY <1>2, <1>3, <2>3, <2>5, <2>6, <2>7, CommitFrame
<1> QED
  BY <1>4, <1>5

\* Every step keeps posts apart.
LEMMA PostStepKeeps == ReviewInv /\ PostInv /\ [ReviewsNext]_reviewVars => PostInv'
<1> SUFFICES ASSUME ReviewInv, PostInv, [ReviewsNext]_reviewVars PROVE PostInv'
  OBVIOUS
<1>0. /\ task \in [Worker -> Task] /\ reviewLock \in [ReviewId -> Worker \cup {None}]
      /\ \A v \in Worker : Sane(task[v])
  BY ReviewShapes DEF ReviewInv
<1>1. ASSUME NEW w \in Worker, CheckPost(w) PROVE PostInv'
  <2>1. PICK c \in Contact, o \in Purchase \cup {None}, r \in ReviewId :
          /\ Unreviewed(c)
          /\ Begin(w, [NoTask EXCEPT !.pc = "checked", !.op = "create", !.contact = c,
                                     !.review = r, !.purchase = o])
          /\ UNCHANGED <<review, rating, productLock, reviewLock>>
    BY <1>1, NotReviewed DEF CheckPost
  <2>2. PICK t \in Task : t = [NoTask EXCEPT !.pc = "checked", !.op = "create", !.contact = c,
                                             !.review = r, !.purchase = o]
    BY IdleTask DEF Task
  <2>3. t.pc = "checked" /\ t.op = "create" /\ t.contact = c
    BY <2>2, IdleTask DEF Task
  <2>4. Begin(w, t) /\ Unreviewed(t.contact)
    BY <2>1, <2>2, <2>3
  <2>5. UNCHANGED <<review, rating, productLock, reviewLock>>
    BY <2>1
  <2> QED
    BY <2>3, <2>4, <2>5, BeginKeepsPosts
<1>2. ASSUME NEW w \in Worker, LoadReview(w) PROVE PostInv'
  <2>1. PICK r \in Posted, op \in {"approve", "hide", "delete"} :
          /\ Begin(w, [NoTask EXCEPT !.pc = "loaded", !.op = op, !.review = r])
          /\ UNCHANGED <<review, rating, productLock, reviewLock>>
    BY <1>2 DEF LoadReview
  <2>2. PICK t \in Task : t = [NoTask EXCEPT !.pc = "loaded", !.op = op, !.review = r]
    BY <2>1, IdleTask DEF Task, Posted
  <2>3. t.pc = "loaded" /\ t.op # "create" /\ t.contact = None
    BY <2>2, IdleTask DEF Task, NoTask
  <2> QED
    BY <2>1, <2>2, <2>3, BeginKeepsPosts
<1>3. ASSUME NEW w \in Worker, LoadProduct(w) PROVE PostInv'
  <2>1. PICK t \in Task : t = [NoTask EXCEPT !.pc = "loaded", !.op = "edit", !.rating = rating]
    BY IdleTask DEF Task, ReviewInv, ReviewsTypeOK
  <2>2. t.pc = "loaded" /\ t.op # "create" /\ t.contact = None
    BY <2>1, IdleTask DEF Task, NoTask
  <2>3. Begin(w, t) /\ UNCHANGED <<review, rating, productLock, reviewLock>>
    BY <1>3, <2>1 DEF LoadProduct
  <2> QED
    BY <2>2, <2>3, BeginKeepsPosts
<1>4. ASSUME NEW w \in Worker, InsertReview(w) PROVE PostInv'
  <2>1. task[w].pc = "checked" /\ task[w] # NoTask /\ UNCHANGED <<review, reviewLock, postRaced>>
    BY <1>4, IdleTask DEF InsertReview
  <2>2. CASE task' = [task EXCEPT ![w] = NoTask]
    BY <2>1, <2>2, IdleTask, ContinueKeepsPosts DEF Handling
  <2>3. CASE task' # [task EXCEPT ![w] = NoTask]
    <3>1. PICK t \in Task : t = [task[w] EXCEPT !.pc = "written"]
      BY <1>0 DEF Task
    <3>2. /\ task' = [task EXCEPT ![w] = t] /\ Verifies(task[w])
          /\ task[w].contact \in Account =>
                /\ Unreviewed(task[w].contact)
                /\ \A v \in Worker \ {w} :
                      task[v].contact = task[w].contact => task[v].pc = "checked"
      BY <1>4, <2>3, <3>1, NotReviewed DEF InsertReview
    <3>3. /\ t.pc = "written" /\ t.op = task[w].op /\ t.contact = task[w].contact
          /\ t.purchase = task[w].purchase /\ t.review = task[w].review
      BY <1>0, <3>1 DEF Task
    <3>4. Verifies(t) /\ t.op = "create" /\ Writing(t)
      <4>1. task[w].op = "create"
        BY <2>1 DEF PostInv, Posting
      <4> QED
        BY <3>2, <3>3, <4>1 DEF Verifies, Writing
    <3> QED
      BY <2>1, <3>2, <3>3, <3>4, ContinueKeepsPosts DEF Handling
  <2> QED
    BY <2>2, <2>3
<1>5. ASSUME NEW w \in Worker, WriteReview(w) PROVE PostInv'
  <2>1. /\ task[w].pc = "loaded" /\ task[w] # NoTask /\ UNCHANGED <<review, postRaced>>
        /\ reviewLock[task[w].review] = None
    BY <1>5, IdleTask DEF WriteReview
  <2>2. CASE task[w].review \in Posted
    <3>1. PICK t \in Task : t = [task[w] EXCEPT !.pc = "written"]
      BY <1>0 DEF Task
    <3>2. /\ task' = [task EXCEPT ![w] = t]
          /\ reviewLock' = [reviewLock EXCEPT ![task[w].review] = w]
          /\ t.pc = "written" /\ t.op = task[w].op /\ t.review = task[w].review
          /\ t.contact = task[w].contact /\ t.purchase = task[w].purchase
      BY <1>0, <1>5, <2>2, <3>1 DEF WriteReview, Task
    <3>3. task[w].review \in ReviewId /\ t.op # "create"
      BY <2>1, <2>2, <3>2 DEF PostInv, Posting, Posted
    <3>4. /\ reviewLock'[t.review] = w
          /\ \A v \in Worker \ {w}, r \in ReviewId : reviewLock[r] = v => reviewLock'[r] = v
      BY <1>0, <2>1, <3>2, <3>3, WorkersAssumption
    <3> QED
      BY <2>1, <2>2, <3>2, <3>3, <3>4, ContinueKeepsPosts DEF Writing
  <2>3. CASE task[w].review \notin Posted
    <3>1. task' = [task EXCEPT ![w] = NoTask] /\ UNCHANGED reviewLock
      BY <1>5, <2>3 DEF WriteReview
    <3> QED
      BY <2>1, <3>1, IdleTask, ContinueKeepsPosts DEF Handling
  <2> QED
    BY <2>2, <2>3
<1>6. ASSUME NEW w \in Worker, RecomputeRating(w) PROVE PostInv'
  <2>1. /\ task[w].pc = "written" /\ task[w] # NoTask
        /\ UNCHANGED <<review, reviewLock, postRaced>> /\ Writing(task[w])
    BY <1>6, IdleTask DEF RecomputeRating, Writing
  <2>2. ApprovedIn(w) \subseteq ReviewId
    BY <1>0, <2>1 DEF ApprovedIn, Approved, Sane, Writes
  <2>3. PICK t \in Task : t = [task[w] EXCEPT !.pc = "counted", !.rating = ApprovedIn(w)]
    BY <1>0, <2>2 DEF Task
  <2>4. /\ task' = [task EXCEPT ![w] = t] /\ t.pc = "counted" /\ t.op = task[w].op
        /\ t.review = task[w].review /\ t.contact = task[w].contact
        /\ t.purchase = task[w].purchase
    BY <1>0, <1>6, <2>3 DEF RecomputeRating, Task
  <2>5. Writing(t) /\ (t.op \in Handling => reviewLock'[t.review] = w /\ t.review \in Posted)
    BY <2>1, <2>4 DEF Writing, PostInv, RowsHeld
  <2> QED
    BY <2>1, <2>4, <2>5, ContinueKeepsPosts
<1>7. ASSUME NEW w \in Worker, SaveProduct(w) \/ ReviewCrash(w) PROVE PostInv'
  <2>1. /\ task[w] # NoTask /\ EndTask(w) /\ UNCHANGED <<review, postRaced>>
    BY <1>7, IdleTask DEF SaveProduct, ReviewCrash
  <2>2. /\ task' = [task EXCEPT ![w] = NoTask]
        /\ \A v \in Worker \ {w}, r \in ReviewId : reviewLock[r] = v => reviewLock'[r] = v
    BY <1>0, <2>1 DEF EndTask
  <2> QED
    BY <2>1, <2>2, IdleTask, ContinueKeepsPosts DEF Handling
<1>8. CASE UNCHANGED reviewVars
  BY <1>8 DEF reviewVars, PostInv, PostingExclusive, Posted, Unreviewed, Verifies, Posting,
              RowsHeld, OneInsertion, Undisturbed
<1> QED
  BY <1>1, <1>2, <1>3, <1>4, <1>5, <1>6, <1>7, <1>8, CommitKeepsPosts
     DEF ReviewsNext, ReviewContinues

\* An account never has two reviews of a product, whatever overlaps; and where no
\* two requests ever overlapped neither has a guest, and no purchase verifies two
\* (create_review and the constraint on user and product).
THEOREM PostsExclude == ReviewsSpec => []PostingExclusive
<1>1. PostInv => PostingExclusive
  BY DEF PostInv
<1> QED
  BY <1>1, ReviewInvStarts, ReviewStepKeeps, PostStarts, PostStepKeeps, PTL DEF ReviewsSpec

-----------------------------------------------------------------------------
(***************************************************************************)
(* The photos of reviews, their rows and their files.                      *)
(***************************************************************************)
PhotoTask == [pc : {"idle", "saved", "resolved", "claimed", "loaded", "dropped"},
              op : {"none", "upload", "post", "remove"},
              review : PhotoReview \cup {None}, photos : SUBSET Photo]

\* What a task knows of its photos: an upload's file is there and its row is not,
\* no other upload has it; every other task works on rows that were written; and
\* what a removal has dropped has no file.
Storage ==
    /\ \A w \in Slot : photoTask[w].pc = "saved" =>
          \A p \in photoTask[w].photos :
              /\ photo[p] = "absent" /\ p \in files
              /\ \A v \in Slot \ {w} : photoTask[v].pc = "saved" => p \notin photoTask[v].photos
    /\ \A w \in Slot : photoTask[w].pc \in {"resolved", "claimed", "loaded", "dropped"} =>
          \A p \in photoTask[w].photos : photo[p] # "absent"
    /\ \A w \in Slot : photoTask[w].pc = "dropped" => photoTask[w].photos \cap files = {}
    /\ \A w \in Slot : photoTask[w].pc \in {"resolved", "claimed"} =>
          photoTask[w].review \in PhotoReview

StorageInv == PhotosTypeOK /\ Storage /\ FilesFollowRows
-----------------------------------------------------------------------------
\* The type invariant, with the records named.
LEMMA PhotoShapes ==
    PhotosTypeOK <=>
        /\ photo \in [Photo -> {"absent", "free", "gone"} \cup PhotoReview]
        /\ old \subseteq Photo /\ files \subseteq Photo /\ posted \subseteq PhotoReview
        /\ photoLock \in [Photo -> Slot \cup {None}]
        /\ photoTask \in [Slot -> PhotoTask]
        /\ claimsRaced \in BOOLEAN /\ photoCrashes \in Nat
        /\ \A p \in Photo : photoLock[p] # None => p \in photoTask[photoLock[p]].photos
  BY Zenon DEF PhotosTypeOK, PhotoTask

\* An idle slot is one of the tasks and works on no photo.
LEMMA IdlePhotoTask ==
    /\ NoPhotoTask \in PhotoTask /\ NoPhotoTask.pc = "idle" /\ NoPhotoTask.photos = {}
    /\ None \notin Slot
  BY WorkersAssumption DEF NoPhotoTask, PhotoTask, Slot

\* No photo is stored at the start.
LEMMA StorageStarts == PhotosInit => StorageInv
<1> SUFFICES ASSUME PhotosInit PROVE StorageInv
  OBVIOUS
<1>1. \A w \in Slot : photoTask[w] = NoPhotoTask
  BY DEF PhotosInit
<1>2. PhotosTypeOK
  BY IdlePhotoTask, PhotoShapes DEF PhotosInit
<1>3. Storage /\ FilesFollowRows
  BY <1>1, IdlePhotoTask DEF PhotosInit, Storage, FilesFollowRows
<1> QED
  BY <1>2, <1>3 DEF StorageInv

\* A task begins: it takes no lock.
LEMMA StartKeepsPhotos ==
    ASSUME StorageInv, NEW w \in Slot, NEW t \in PhotoTask, StartPhotoTask(w, t),
           UNCHANGED <<photo, old, posted, photoLock>>, files' \subseteq Photo,
           \/ /\ t.pc = "saved" /\ files' = files \cup t.photos
              /\ \A p \in t.photos : photo[p] = "absent" /\ p \notin files
           \/ /\ t.pc \in {"resolved", "loaded"} /\ files' = files
              /\ \A p \in t.photos : photo[p] # "absent"
              /\ t.pc = "resolved" => t.review \in PhotoReview
    PROVE  StorageInv'
<1>0. /\ photoTask \in [Slot -> PhotoTask] /\ photoTask[w] = NoPhotoTask
      /\ photoTask' = [photoTask EXCEPT ![w] = t] /\ photoCrashes' = photoCrashes
      /\ photoLock \in [Photo -> Slot \cup {None}]
  BY PhotoShapes DEF StorageInv, StartPhotoTask
<1>1. photoTask'[w] = t /\ \A v \in Slot \ {w} : photoTask'[v] = photoTask[v]
  BY <1>0
<1>2. claimsRaced' \in BOOLEAN
  BY PhotoShapes, Zenon DEF StorageInv, StartPhotoTask
<1>3. \A p \in Photo : photoLock[p] # None => p \in photoTask'[photoLock[p]].photos
  <2> SUFFICES ASSUME NEW p \in Photo, photoLock[p] # None
               PROVE  p \in photoTask'[photoLock[p]].photos
    OBVIOUS
  <2>1. p \in photoTask[photoLock[p]].photos /\ photoLock[p] \in Slot
    BY <1>0, PhotoShapes DEF StorageInv
  <2>2. photoLock[p] # w
    BY <1>0, <2>1, IdlePhotoTask
  <2> QED
    BY <1>1, <2>1, <2>2
<1>4. PhotosTypeOK'
  BY <1>0, <1>2, <1>3, PhotoShapes DEF StorageInv, PhotosTypeOK, PhotoTask
<1>5. Storage'
  BY <1>0, <1>1 DEF StorageInv, Storage
<1>6. FilesFollowRows'
  <2> SUFFICES ASSUME photoCrashes = 0, NEW p \in Photo
               PROVE  \/ p \in files' <=> photo[p] \notin {"absent", "gone"}
                      \/ \E v \in Slot : /\ p \in photoTask'[v].photos
                                         /\ photoTask'[v].pc \in {"saved", "dropped"}
    BY <1>0 DEF FilesFollowRows
  <2>1. \/ p \in files <=> photo[p] \notin {"absent", "gone"}
        \/ \E v \in Slot : /\ p \in photoTask[v].photos
                           /\ photoTask[v].pc \in {"saved", "dropped"}
    BY DEF StorageInv, FilesFollowRows
  <2>2. CASE \E v \in Slot : p \in photoTask[v].photos /\ photoTask[v].pc \in {"saved", "dropped"}
    BY <1>0, <1>1, <2>2, IdlePhotoTask
  <2>3. CASE p \in files <=> photo[p] \notin {"absent", "gone"}
    BY <1>1, <2>3
  <2> QED
    BY <2>1, <2>2, <2>3
<1> QED
  BY <1>4, <1>5, <1>6 DEF StorageInv

\* A task takes its photos' locks and goes on.
LEMMA TakeKeepsPhotos ==
    ASSUME StorageInv, NEW w \in Slot, NEW t \in PhotoTask,
           TakePhotos(w, photoTask[w].photos), photoTask' = [photoTask EXCEPT ![w] = t],
           t.photos = photoTask[w].photos, t.review = photoTask[w].review,
           UNCHANGED <<photo, old, posted, claimsRaced, photoCrashes>>,
           \/ photoTask[w].pc = "resolved" /\ t.pc = "claimed" /\ files' = files
           \/ photoTask[w].pc = "loaded" /\ t.pc = "dropped" /\ files' = files \ t.photos
    PROVE  StorageInv'
<1>0. /\ photoTask \in [Slot -> PhotoTask] /\ files \subseteq Photo
      /\ photoLock \in [Photo -> Slot \cup {None}]
      /\ photoLock' = [p \in Photo |-> IF p \in photoTask[w].photos THEN w ELSE photoLock[p]]
  BY PhotoShapes DEF StorageInv, TakePhotos
<1>1. photoTask'[w] = t /\ \A v \in Slot \ {w} : photoTask'[v] = photoTask[v]
  BY <1>0
<1>2. \A p \in Photo : photoLock'[p] # None => p \in photoTask'[photoLock'[p]].photos
  <2> SUFFICES ASSUME NEW p \in Photo, photoLock'[p] # None
               PROVE  p \in photoTask'[photoLock'[p]].photos
    OBVIOUS
  <2>1. photoLock'[p] = IF p \in photoTask[w].photos THEN w ELSE photoLock[p]
    BY <1>0
  <2>2. photoLock[p] # None => p \in photoTask[photoLock[p]].photos /\ photoLock[p] \in Slot
    BY <1>0, PhotoShapes DEF StorageInv
  <2> QED
    BY <1>1, <2>1, <2>2
<1>3. photoLock' \in [Photo -> Slot \cup {None}] /\ files' \subseteq Photo
  BY <1>0
<1>4. PhotosTypeOK'
  BY <1>0, <1>2, <1>3, PhotoShapes DEF StorageInv, PhotosTypeOK, PhotoTask
<1>5. Storage'
  <2>1. ASSUME NEW v \in Slot, photoTask'[v].pc = "saved", NEW p \in photoTask'[v].photos
        PROVE  /\ photo[p] = "absent" /\ p \in files'
               /\ \A u \in Slot \ {v} : photoTask'[u].pc = "saved" => p \notin photoTask'[u].photos
    <3>1. v # w /\ photoTask'[v] = photoTask[v]
      BY <1>1, <2>1
    <3>2. /\ photo[p] = "absent" /\ p \in files
          /\ \A u \in Slot \ {v} : photoTask[u].pc = "saved" => p \notin photoTask[u].photos
      BY <2>1, <3>1 DEF StorageInv, Storage
    <3>3. p \notin t.photos
      BY <3>2 DEF StorageInv, Storage
    <3> QED
      BY <1>1, <3>1, <3>2, <3>3
  <2>2. ASSUME NEW v \in Slot, photoTask'[v].pc \in {"resolved", "claimed", "loaded", "dropped"}
        PROVE  \A p \in photoTask'[v].photos : photo[p] # "absent"
    BY <1>1, <2>2 DEF StorageInv, Storage
  <2>3. ASSUME NEW v \in Slot, photoTask'[v].pc = "dropped"
        PROVE  photoTask'[v].photos \cap files' = {}
    BY <1>1, <2>3 DEF StorageInv, Storage
  <2>4. \A v \in Slot : photoTask'[v].pc \in {"resolved", "claimed"} =>
            photoTask'[v].review \in PhotoReview
    BY <1>1 DEF StorageInv, Storage
  <2> QED
    BY <2>1, <2>2, <2>3, <2>4 DEF Storage
<1>6. FilesFollowRows'
  <2> SUFFICES ASSUME photoCrashes = 0, NEW p \in Photo
               PROVE  \/ p \in files' <=> photo[p] \notin {"absent", "gone"}
                      \/ \E v \in Slot : /\ p \in photoTask'[v].photos
                                         /\ photoTask'[v].pc \in {"saved", "dropped"}
    BY DEF FilesFollowRows
  <2>1. \/ p \in files <=> photo[p] \notin {"absent", "gone"}
        \/ \E v \in Slot : /\ p \in photoTask[v].photos
                           /\ photoTask[v].pc \in {"saved", "dropped"}
    BY DEF StorageInv, FilesFollowRows
  <2>2. CASE \E v \in Slot : p \in photoTask[v].photos /\ photoTask[v].pc \in {"saved", "dropped"}
    <3>1. PICK v \in Slot : p \in photoTask[v].photos /\ photoTask[v].pc \in {"saved", "dropped"}
      BY <2>2
    <3>2. v # w
      BY <3>1
    <3> QED
      BY <1>1, <3>1, <3>2
  <2>3. CASE p \in files <=> photo[p] \notin {"absent", "gone"}
    BY <1>1, <2>3
  <2> QED
    BY <2>1, <2>2, <2>3
<1> QED
  BY <1>4, <1>5, <1>6 DEF StorageInv

\* A task ends: it commits, fails or dies.
LEMMA EndKeepsPhotos ==
    ASSUME StorageInv, NEW w \in Slot, EndPhotoTask(w), UNCHANGED claimsRaced,
           photo' \in [Photo -> {"absent", "free", "gone"} \cup PhotoReview],
           old' \subseteq Photo, files' \subseteq files, posted' \subseteq PhotoReview,
           photoCrashes' \in Nat,
           \A p \in Photo \ photoTask[w].photos : photo'[p] = photo[p],
           \A p \in Photo : p \in files \ files' =>
               photoTask[w].pc = "saved" /\ p \in photoTask[w].photos,
           \A p \in Photo : photo[p] # "absent" => photo'[p] # "absent",
           \A p \in photoTask[w].photos :
               photo'[p] # photo[p] /\ photo[p] = "absent" => photoTask[w].pc = "saved",
           photoCrashes' = 0 =>
               /\ photoCrashes = 0
               /\ \A p \in photoTask[w].photos :
                     \/ p \in files' <=> photo'[p] \notin {"absent", "gone"}
                     \/ /\ photoTask[w].pc \notin {"saved", "dropped"}
                        /\ p \in files <=> p \in files'
                        /\ photo'[p] \in {"absent", "gone"} <=> photo[p] \in {"absent", "gone"}
    PROVE  StorageInv'
<1>0. /\ photoTask \in [Slot -> PhotoTask] /\ files \subseteq Photo
      /\ photoLock \in [Photo -> Slot \cup {None}]
      /\ photoTask' = [photoTask EXCEPT ![w] = NoPhotoTask]
      /\ photoLock' = [p \in Photo |-> IF photoLock[p] = w THEN None ELSE photoLock[p]]
  BY PhotoShapes DEF StorageInv, EndPhotoTask
<1>1. photoTask'[w] = NoPhotoTask /\ \A v \in Slot \ {w} : photoTask'[v] = photoTask[v]
  BY <1>0
<1>2. \A p \in Photo : photoLock'[p] # None => p \in photoTask'[photoLock'[p]].photos
  <2> SUFFICES ASSUME NEW p \in Photo, photoLock'[p] # None
               PROVE  p \in photoTask'[photoLock'[p]].photos
    OBVIOUS
  <2>1. photoLock'[p] = photoLock[p] /\ photoLock[p] # w
    BY <1>0
  <2>2. p \in photoTask[photoLock[p]].photos /\ photoLock[p] \in Slot
    BY <1>0, <2>1, PhotoShapes DEF StorageInv
  <2> QED
    BY <1>1, <2>1, <2>2
<1>3. photoLock' \in [Photo -> Slot \cup {None}] /\ photoTask' \in [Slot -> PhotoTask]
  BY <1>0, IdlePhotoTask
<1>4. PhotosTypeOK'
  <2>1. claimsRaced \in BOOLEAN
    BY PhotoShapes DEF StorageInv
  <2> QED
    BY <1>0, <1>2, <1>3, <2>1 DEF PhotosTypeOK, PhotoTask
<1>5. Storage'
  <2>1. ASSUME NEW v \in Slot, photoTask'[v].pc = "saved", NEW p \in photoTask'[v].photos
        PROVE  /\ photo'[p] = "absent" /\ p \in files'
               /\ \A u \in Slot \ {v} : photoTask'[u].pc = "saved" => p \notin photoTask'[u].photos
    <3>1. v # w /\ photoTask'[v] = photoTask[v]
      BY <1>1, <2>1, IdlePhotoTask
    <3>2. /\ photo[p] = "absent" /\ p \in files /\ p \in Photo
          /\ \A u \in Slot \ {v} : photoTask[u].pc = "saved" => p \notin photoTask[u].photos
      BY <1>0, <2>1, <3>1 DEF StorageInv, Storage
    <3>3. photoTask[w].pc = "saved" => p \notin photoTask[w].photos
      BY <3>1, <3>2
    <3>4. photo'[p] = photo[p] /\ p \in files'
      BY <3>2, <3>3
    <3> QED
      BY <1>1, <3>1, <3>2, <3>4, IdlePhotoTask
  <2>2. ASSUME NEW v \in Slot, photoTask'[v].pc \in {"resolved", "claimed", "loaded", "dropped"},
               NEW p \in photoTask'[v].photos
        PROVE  photo'[p] # "absent"
    <3>1. v # w /\ photoTask'[v] = photoTask[v] /\ p \in Photo
      BY <1>0, <1>1, <2>2, IdlePhotoTask DEF PhotoTask
    <3> QED
      BY <2>2, <3>1 DEF StorageInv, Storage
  <2>3. ASSUME NEW v \in Slot, photoTask'[v].pc = "dropped"
        PROVE  photoTask'[v].photos \cap files' = {}
    <3>1. v # w /\ photoTask'[v] = photoTask[v]
      BY <1>1, <2>3, IdlePhotoTask
    <3> QED
      BY <2>3, <3>1 DEF StorageInv, Storage
  <2>4. \A v \in Slot : photoTask'[v].pc \in {"resolved", "claimed"} =>
            photoTask'[v].review \in PhotoReview
    BY <1>1, IdlePhotoTask DEF StorageInv, Storage
  <2> QED
    BY <2>1, <2>2, <2>3, <2>4 DEF Storage
<1>6. FilesFollowRows'
  <2> SUFFICES ASSUME photoCrashes' = 0, NEW p \in Photo
               PROVE  \/ p \in files' <=> photo'[p] \notin {"absent", "gone"}
                      \/ \E v \in Slot : /\ p \in photoTask'[v].photos
                                         /\ photoTask'[v].pc \in {"saved", "dropped"}
    BY DEF FilesFollowRows
  <2>1. \/ p \in files <=> photo[p] \notin {"absent", "gone"}
        \/ \E v \in Slot : /\ p \in photoTask[v].photos
                           /\ photoTask[v].pc \in {"saved", "dropped"}
    BY DEF StorageInv, FilesFollowRows
  <2>2. ASSUME NEW v \in Slot \ {w}, p \in photoTask[v].photos,
               photoTask[v].pc \in {"saved", "dropped"}
        PROVE  \E u \in Slot : /\ p \in photoTask'[u].photos
                               /\ photoTask'[u].pc \in {"saved", "dropped"}
    BY <1>1, <2>2
  <2>3. CASE p \in photoTask[w].photos
    BY <2>1, <2>2, <2>3
  <2>4. CASE p \notin photoTask[w].photos
    <3>1. photo'[p] = photo[p] /\ (p \in files <=> p \in files')
      BY <2>4
    <3> QED
      BY <2>1, <2>2, <2>4, <3>1
  <2> QED
    BY <2>3, <2>4
<1> QED
  BY <1>4, <1>5, <1>6 DEF StorageInv

\* Every step keeps rows and files together.
LEMMA StorageStepKeeps == StorageInv /\ [PhotosNext]_photoVars => StorageInv'
<1> SUFFICES ASSUME StorageInv, [PhotosNext]_photoVars PROVE StorageInv'
  OBVIOUS
<1>0. /\ photoTask \in [Slot -> PhotoTask] /\ files \subseteq Photo /\ old \subseteq Photo
      /\ posted \subseteq PhotoReview /\ photoCrashes \in Nat /\ Worker \subseteq Slot
      /\ photo \in [Photo -> {"absent", "free", "gone"} \cup PhotoReview]
  BY PhotoShapes DEF StorageInv, Slot
<1>1. ASSUME NEW w \in Worker, SaveFile(w) PROVE StorageInv'
  <2>1. PICK p \in Photo :
          /\ photo[p] = "absent" /\ p \notin files /\ files' = files \cup {p}
          /\ StartPhotoTask(w, [NoPhotoTask EXCEPT !.pc = "saved", !.op = "upload", !.photos = {p}])
          /\ UNCHANGED <<photo, old, posted, photoLock>>
    BY <1>1 DEF SaveFile
  <2>2. PICK t \in PhotoTask :
            t = [NoPhotoTask EXCEPT !.pc = "saved", !.op = "upload", !.photos = {p}]
    BY IdlePhotoTask DEF PhotoTask
  <2>3. t.pc = "saved" /\ t.photos = {p} /\ StartPhotoTask(w, t)
    BY <2>1, <2>2, IdlePhotoTask DEF PhotoTask
  <2> QED
    BY <1>0, <2>1, <2>3, StartKeepsPhotos
<1>2. ASSUME NEW w \in Worker, ResolvePhotos(w) PROVE StorageInv'
  <2>1. PICK o \in Owner, ps \in SUBSET Photo, r \in PhotoReview \ posted :
          /\ Claimable(ps, o)
          /\ StartPhotoTask(w, [pc |-> "resolved", op |-> "post", review |-> r, photos |-> ps])
          /\ UNCHANGED <<photo, old, files, posted, photoLock>>
    BY <1>2 DEF ResolvePhotos
  <2>2. PICK t \in PhotoTask : t = [pc |-> "resolved", op |-> "post", review |-> r, photos |-> ps]
    BY DEF PhotoTask
  <2>3. \A p \in t.photos : photo[p] # "absent"
    BY <2>1, <2>2 DEF Claimable, Free
  <2>4. t.pc = "resolved" /\ StartPhotoTask(w, t) /\ t.review \in PhotoReview
    BY <2>1, <2>2
  <2> QED
    BY <1>0, <2>1, <2>3, <2>4, StartKeepsPhotos
<1>3. ASSUME NEW w \in Slot, LoadPhotos(w) PROVE StorageInv'
  <2>1. PICK ps \in SUBSET Photo, r \in posted \cup {None} :
          /\ \/ w = Celery /\ r = None /\ ps = {p \in old : photo[p] = "free"}
             \/ w # Celery /\ r # None /\ ps = {p \in Photo : photo[p] = r}
             \/ w # Celery /\ r = None /\ \E p \in Photo : ps = {p} /\ photo[p] = "free"
          /\ StartPhotoTask(w, [pc |-> "loaded", op |-> "remove", review |-> r, photos |-> ps])
          /\ UNCHANGED <<photo, old, files, posted, photoLock>>
    BY <1>3 DEF LoadPhotos
  <2>2. PICK t \in PhotoTask : t = [pc |-> "loaded", op |-> "remove", review |-> r, photos |-> ps]
    BY <1>0 DEF PhotoTask
  <2>3. \A p \in ps : photo[p] # "absent"
    <3>1. CASE w = Celery
      BY <2>1, <3>1
    <3>2. CASE w # Celery /\ r # None
      <4>1. r # "absent"
        BY <1>0, <3>2, ReviewPhotosAssumption
      <4> QED
        BY <2>1, <3>2, <4>1
    <3>3. CASE w # Celery /\ r = None
      BY <2>1, <3>3
    <3> QED
      BY <3>1, <3>2, <3>3
  <2>4. t.pc = "loaded" /\ StartPhotoTask(w, t) /\ t.photos = ps
    BY <2>1, <2>2
  <2> QED
    BY <1>0, <2>1, <2>3, <2>4, StartKeepsPhotos
<1>4. ASSUME NEW w \in Slot, CreatePhoto(w) PROVE StorageInv'
  <2>1. /\ photoTask[w].pc = "saved" /\ EndPhotoTask(w)
        /\ photo' = [p \in Photo |-> IF p \in photoTask[w].photos THEN "free" ELSE photo[p]]
        /\ UNCHANGED <<old, files, posted, claimsRaced, photoCrashes>>
    BY <1>4 DEF CreatePhoto
  <2>2. photoTask[w].photos \subseteq files
    BY <2>1 DEF StorageInv, Storage
  <2>3. /\ photo' \in [Photo -> {"absent", "free", "gone"} \cup PhotoReview]
        /\ \A p \in photoTask[w].photos : photo'[p] = "free"
        /\ \A p \in Photo \ photoTask[w].photos : photo'[p] = photo[p]
    BY <1>0, <2>1 DEF PhotoTask
  <2> QED
    BY <1>0, <2>1, <2>2, <2>3, EndKeepsPhotos
<1>5. ASSUME NEW w \in Slot, UploadFails(w) PROVE StorageInv'
  <2>1. /\ photoTask[w].pc = "saved" /\ EndPhotoTask(w) /\ files' = files \ photoTask[w].photos
        /\ UNCHANGED <<photo, old, posted, claimsRaced, photoCrashes>>
    BY <1>5 DEF UploadFails
  <2>2. \A p \in photoTask[w].photos : photo[p] = "absent"
    BY <2>1 DEF StorageInv, Storage
  <2> QED
    BY <1>0, <2>1, <2>2, EndKeepsPhotos
<1>6. ASSUME NEW w \in Slot, ClaimPhotos(w) PROVE StorageInv'
  <2>1. PICK t \in PhotoTask : t = [photoTask[w] EXCEPT !.pc = "claimed"]
    BY <1>0 DEF PhotoTask
  <2>2. t.pc = "claimed" /\ t.photos = photoTask[w].photos /\ t.review = photoTask[w].review
        /\ photoTask' = [photoTask EXCEPT ![w] = t]
    BY <1>0, <1>6, <2>1 DEF ClaimPhotos, PhotoTask
  <2> QED
    BY <1>6, <2>2, TakeKeepsPhotos DEF ClaimPhotos
<1>7. ASSUME NEW w \in Slot, DropPhotos(w) PROVE StorageInv'
  <2>1. PICK t \in PhotoTask : t = [photoTask[w] EXCEPT !.pc = "dropped"]
    BY <1>0 DEF PhotoTask
  <2>2. t.pc = "dropped" /\ t.photos = photoTask[w].photos /\ t.review = photoTask[w].review
        /\ photoTask' = [photoTask EXCEPT ![w] = t]
    BY <1>0, <1>7, <2>1 DEF DropPhotos, PhotoTask
  <2> QED
    BY <1>7, <2>2, TakeKeepsPhotos DEF DropPhotos
<1>8. ASSUME NEW w \in Slot, CommitClaim(w) PROVE StorageInv'
  <2> DEFINE t == photoTask[w]
  <2>1. /\ t.pc = "claimed" /\ EndPhotoTask(w) /\ old' = old \ t.photos
        /\ posted' = posted \cup {t.review}
        /\ photo' = [p \in Photo |-> IF p \in t.photos /\ photo[p] # "gone" THEN t.review
                                     ELSE photo[p]]
        /\ UNCHANGED <<files, claimsRaced, photoCrashes>>
    BY <1>8 DEF CommitClaim
  <2>2. \A p \in t.photos : photo[p] # "absent"
    BY <2>1 DEF StorageInv, Storage
  <2>3. t.review \in PhotoReview /\ t.review \notin {"absent", "free", "gone"}
    BY <2>1, ReviewPhotosAssumption DEF StorageInv, Storage
  <2>4. /\ photo' \in [Photo -> {"absent", "free", "gone"} \cup PhotoReview]
        /\ posted' \subseteq PhotoReview /\ old' \subseteq Photo
        /\ \A p \in Photo \ t.photos : photo'[p] = photo[p]
        /\ \A p \in t.photos : p \in Photo /\ photo'[p] # "absent"
                               /\ (photo'[p] = "gone" <=> photo[p] = "gone")
    BY <1>0, <2>1, <2>2, <2>3 DEF PhotoTask
  <2> QED
    BY <1>0, <2>1, <2>2, <2>4, EndKeepsPhotos
<1>9. ASSUME NEW w \in Slot, CommitRemoval(w) PROVE StorageInv'
  <2> DEFINE t == photoTask[w]
  <2>1. /\ t.pc = "dropped" /\ EndPhotoTask(w) /\ old' = old \ t.photos
        /\ posted' = posted \ {t.review}
        /\ photo' = [p \in Photo |-> IF p \in t.photos THEN "gone" ELSE photo[p]]
        /\ UNCHANGED <<files, claimsRaced, photoCrashes>>
    BY <1>9 DEF CommitRemoval
  <2>2. t.photos \cap files = {} /\ \A p \in t.photos : photo[p] # "absent"
    BY <2>1 DEF StorageInv, Storage
  <2>4. /\ photo' \in [Photo -> {"absent", "free", "gone"} \cup PhotoReview]
        /\ \A p \in Photo \ t.photos : photo'[p] = photo[p]
        /\ \A p \in t.photos : photo'[p] = "gone"
        /\ posted' \subseteq PhotoReview /\ old' \subseteq Photo
    BY <1>0, <2>1 DEF PhotoTask
  <2> QED
    BY <1>0, <2>1, <2>2, <2>4, EndKeepsPhotos
<1>10. ASSUME NEW w \in Slot, PhotoCrash(w) PROVE StorageInv'
  <2>1. /\ EndPhotoTask(w) /\ photoCrashes' = photoCrashes + 1
        /\ UNCHANGED <<photo, old, files, posted, claimsRaced>>
    BY <1>10 DEF PhotoCrash
  <2>2. photoCrashes' \in Nat /\ photoCrashes' # 0
    BY <1>0, <2>1
  <2> QED
    BY <1>0, <2>1, <2>2, EndKeepsPhotos
<1>11. CASE GrowOld
  <2>1. /\ old' \subseteq Photo
        /\ UNCHANGED <<photo, files, posted, photoLock, photoTask, claimsRaced, photoCrashes>>
    BY <1>0, <1>11 DEF GrowOld
  <2> QED
    BY <2>1 DEF StorageInv, PhotosTypeOK, Storage, FilesFollowRows
<1>12. CASE UNCHANGED photoVars
  BY <1>12 DEF photoVars, StorageInv, PhotosTypeOK, Storage, FilesFollowRows
<1> QED
  BY <1>1, <1>2, <1>3, <1>4, <1>5, <1>6, <1>7, <1>8, <1>9, <1>10, <1>11, <1>12
     DEF PhotosNext, PhotoContinues

\* Rows, files and locks keep their types, and whoever holds a lock is at work on it.
THEOREM PhotoTypes == PhotosSpec => []PhotosTypeOK
<1>1. StorageInv => PhotosTypeOK
  BY DEF StorageInv
<1> QED
  BY <1>1, StorageStarts, StorageStepKeeps, PTL DEF PhotosSpec

\* Until a process dies half-way a photo has a row exactly when it has a file, or an
\* upload or a removal is about to make it so, however tasks overlap.
THEOREM FilesFollowTheirRows == PhotosSpec => []FilesFollowRows
<1>1. StorageInv => FilesFollowRows
  BY DEF StorageInv
<1> QED
  BY <1>1, StorageStarts, StorageStepKeeps, PTL DEF PhotosSpec
-----------------------------------------------------------------------------
\* What holds as long as no two tasks were ever under way at once: an upload still
\* has the room that it counted, a claim's photos are still free, and a removal's
\* are as they were found.
OneBusy == \A v, w \in Slot : photoTask[v] # NoPhotoTask /\ photoTask[w] # NoPhotoTask => v = w

StillRoom(w) ==
    photoTask[w].pc = "saved" =>
        \E p \in Photo : /\ photoTask[w].photos = {p}
                         /\ Cardinality(Free(PhotoOwner[p])) < MaxUnattached

StillFree(w) ==
    photoTask[w].pc \in {"resolved", "claimed"} =>
        \A p \in photoTask[w].photos : photo[p] = "free"

StillFound(w) ==
    photoTask[w].pc \in {"loaded", "dropped"} =>
        \A p \in photoTask[w].photos :
            \/ photo[p] = "free"
            \/ photo[p] = photoTask[w].review

UnderCap(o) == IsFiniteSet(Free(o)) /\ Cardinality(Free(o)) <= MaxUnattached

Sights == \A w \in Slot : StillRoom(w) /\ StillFree(w) /\ StillFound(w)

Quiet == OneBusy /\ Sights /\ \A o \in Owner : UnderCap(o)

QuietInv == StorageInv /\ (~claimsRaced => Quiet)

\* What PhotosStay says of one step that comes before any two tasks overlapped.
Stays(p) == photo[p] \in PhotoReview /\ photo'[p] # photo[p] =>
                photo'[p] = "gone" /\ photo[p] \notin posted'

\* Nothing is attached and no upload counted at the start.
LEMMA QuietStarts == PhotosInit => QuietInv
<1> SUFFICES ASSUME PhotosInit PROVE QuietInv
  OBVIOUS
<1>1. \A w \in Slot : photoTask[w] = NoPhotoTask
  BY DEF PhotosInit
<1>2. OneBusy /\ Sights
  BY <1>1, IdlePhotoTask DEF OneBusy, Sights, StillRoom, StillFree, StillFound
<1>3. ASSUME NEW o \in Owner PROVE UnderCap(o)
  <2>1. Free(o) = {}
    BY DEF PhotosInit, Free
  <2> QED
    BY <2>1, FS_EmptySet, ReviewPhotosAssumption DEF UnderCap
<1> QED
  BY <1>2, <1>3, StorageStarts DEF QuietInv, Quiet

\* A task that begins while nothing else is under way keeps what the others know:
\* there are no others.
LEMMA StartKeepsQuiet ==
    ASSUME StorageInv, ~claimsRaced => Quiet, NEW w \in Slot, NEW t \in PhotoTask,
           StartPhotoTask(w, t), photo' = photo,
           \/ /\ t.pc = "saved"
              /\ \E p \in Photo : /\ t.photos = {p}
                                  /\ Cardinality(Free(PhotoOwner[p])) < MaxUnattached
           \/ /\ t.pc = "resolved"
              /\ \A p \in t.photos : photo[p] = "free"
           \/ /\ t.pc = "loaded"
              /\ \A p \in t.photos : photo[p] = "free" \/ photo[p] = t.review
    PROVE  ~claimsRaced' => Quiet'
<1> SUFFICES ASSUME ~claimsRaced' PROVE Quiet'
  OBVIOUS
<1>0. /\ photoTask \in [Slot -> PhotoTask] /\ photoTask[w] = NoPhotoTask
      /\ photoTask' = [photoTask EXCEPT ![w] = t]
      /\ claimsRaced' = (claimsRaced \/ \E v \in Slot : photoTask[v] # NoPhotoTask)
  BY PhotoShapes DEF StorageInv, StartPhotoTask
<1>1. ~claimsRaced /\ \A v \in Slot : photoTask[v] = NoPhotoTask
  BY <1>0, Zenon
<1>2. photoTask'[w] = t /\ \A v \in Slot \ {w} : photoTask'[v] = NoPhotoTask
  BY <1>0, <1>1
<1>3. OneBusy'
  BY <1>2 DEF OneBusy
<1>4. \A o \in Owner : Free(o)' = Free(o)
  BY DEF Free
<1>5. ASSUME NEW v \in Slot PROVE (StillRoom(v) /\ StillFree(v) /\ StillFound(v))'
  <2>1. CASE v # w
    BY <1>2, <2>1, IdlePhotoTask DEF StillRoom, StillFree, StillFound
  <2>2. CASE v = w
    <3>1. StillRoom(w)'
      BY <1>2, <1>4, ReviewPhotosAssumption DEF StillRoom
    <3>2. StillFree(w)' /\ StillFound(w)'
      BY <1>2 DEF StillFree, StillFound
    <3> QED
      BY <2>2, <3>1, <3>2
  <2> QED
    BY <2>1, <2>2
<1>6. \A o \in Owner : UnderCap(o)'
  BY <1>1, <1>4 DEF Quiet, UnderCap
<1> QED
  BY <1>3, <1>5, <1>6 DEF Quiet, Sights

\* The only task under way takes its locks and goes on.
LEMMA TakeKeepsQuiet ==
    ASSUME StorageInv, ~claimsRaced => Quiet, NEW w \in Slot, NEW t \in PhotoTask,
           photoTask' = [photoTask EXCEPT ![w] = t],
           t.photos = photoTask[w].photos, t.review = photoTask[w].review,
           UNCHANGED <<photo, claimsRaced>>,
           \/ photoTask[w].pc = "resolved" /\ t.pc = "claimed"
           \/ photoTask[w].pc = "loaded" /\ t.pc = "dropped"
    PROVE  ~claimsRaced' => Quiet'
<1> SUFFICES ASSUME ~claimsRaced PROVE Quiet'
  OBVIOUS
<1>0. photoTask \in [Slot -> PhotoTask] /\ Quiet
  BY PhotoShapes DEF StorageInv
<1>1. photoTask'[w] = t /\ \A v \in Slot \ {w} : photoTask'[v] = photoTask[v]
  BY <1>0
<1>2. photoTask[w] # NoPhotoTask
  BY IdlePhotoTask
<1>3. OneBusy'
  BY <1>0, <1>1, <1>2 DEF Quiet, OneBusy
<1>4. \A o \in Owner : Free(o)' = Free(o)
  BY DEF Free
<1>5. ASSUME NEW v \in Slot PROVE (StillRoom(v) /\ StillFree(v) /\ StillFound(v))'
  <2>1. StillRoom(v) /\ StillFree(v) /\ StillFound(v)
    BY <1>0 DEF Quiet, Sights
  <2>2. CASE v # w
    BY <1>1, <1>4, <2>1, <2>2, ReviewPhotosAssumption DEF StillRoom, StillFree, StillFound
  <2>3. CASE v = w
    BY <1>1, <2>1, <2>3 DEF StillRoom, StillFree, StillFound
  <2> QED
    BY <2>2, <2>3
<1>6. \A o \in Owner : UnderCap(o)'
  BY <1>0, <1>4 DEF Quiet, UnderCap
<1> QED
  BY <1>3, <1>5, <1>6 DEF Quiet, Sights

\* When the only task under way has ended, nobody is at work.
LEMMA EndKeepsQuiet ==
    ASSUME StorageInv, ~claimsRaced => Quiet, NEW w \in Slot, photoTask[w] # NoPhotoTask,
           EndPhotoTask(w), claimsRaced' = claimsRaced,
           Quiet => \A o \in Owner : UnderCap(o)'
    PROVE  ~claimsRaced' => Quiet'
<1> SUFFICES ASSUME ~claimsRaced PROVE Quiet'
  OBVIOUS
<1>0. photoTask \in [Slot -> PhotoTask] /\ Quiet
  BY PhotoShapes DEF StorageInv
<1>1. \A v \in Slot : photoTask'[v] = NoPhotoTask
  BY <1>0 DEF EndPhotoTask, Quiet, OneBusy
<1>2. OneBusy' /\ Sights'
  BY <1>1, IdlePhotoTask DEF OneBusy, Sights, StillRoom, StillFree, StillFound
<1> QED
  BY <1>0, <1>2 DEF Quiet

\* Whoever claims or removes photos frees none.
LEMMA FewerFree ==
    ASSUME Quiet, \A p \in Photo : photo'[p] = "free" => photo[p] = "free"
    PROVE  \A o \in Owner : UnderCap(o)'
<1> SUFFICES ASSUME NEW o \in Owner PROVE UnderCap(o)'
  OBVIOUS
<1>1. UnderCap(o)
  BY DEF Quiet
<1>2. Free(o)' \in SUBSET Free(o)
  BY DEF Free
<1>3. IsFiniteSet(Free(o)') /\ Cardinality(Free(o)') <= Cardinality(Free(o))
  BY <1>1, <1>2, FS_Subset DEF UnderCap
<1>4. Cardinality(Free(o)) \in Nat /\ Cardinality(Free(o)') \in Nat
  BY <1>1, <1>3, FS_CardinalityType DEF UnderCap
<1> QED
  BY <1>1, <1>3, <1>4, ReviewPhotosAssumption DEF UnderCap

\* Every step keeps it, and attaches or removes what it found.
LEMMA QuietStepKeeps ==
    QuietInv /\ [PhotosNext]_photoVars =>
        /\ QuietInv'
        /\ ~claimsRaced => \A p \in Photo : Stays(p)
<1> SUFFICES ASSUME QuietInv, [PhotosNext]_photoVars
             PROVE  /\ ~claimsRaced' => Quiet'
                    /\ ~claimsRaced => \A p \in Photo : Stays(p)
  BY StorageStepKeeps DEF QuietInv
<1>0. /\ StorageInv /\ (~claimsRaced => Quiet) /\ photoTask \in [Slot -> PhotoTask]
      /\ photo \in [Photo -> {"absent", "free", "gone"} \cup PhotoReview]
      /\ Worker \subseteq Slot /\ Celery \in Slot /\ old \subseteq Photo
      /\ posted \subseteq PhotoReview
  BY PhotoShapes DEF QuietInv, StorageInv, Slot
<1>a. photo' = photo => \A p \in Photo : Stays(p)
  BY DEF Stays
<1>1. ASSUME NEW w \in Worker, SaveFile(w)
      PROVE  photo' = photo /\ (~claimsRaced' => Quiet')
  <2>1. PICK p \in Photo :
          /\ Cardinality(Free(PhotoOwner[p])) < MaxUnattached /\ photo' = photo
          /\ StartPhotoTask(w, [NoPhotoTask EXCEPT !.pc = "saved", !.op = "upload",
                                                   !.photos = {p}])
    BY <1>1 DEF SaveFile
  <2>2. PICK t \in PhotoTask :
          t = [NoPhotoTask EXCEPT !.pc = "saved", !.op = "upload", !.photos = {p}]
    BY IdlePhotoTask DEF PhotoTask
  <2>3. t.pc = "saved" /\ t.photos = {p} /\ StartPhotoTask(w, t)
    BY <2>1, <2>2, IdlePhotoTask DEF PhotoTask
  <2> QED
    BY <1>0, <2>1, <2>3, StartKeepsQuiet
<1>2. ASSUME NEW w \in Worker, ResolvePhotos(w)
      PROVE  photo' = photo /\ (~claimsRaced' => Quiet')
  <2>1. PICK o \in Owner, ps \in SUBSET Photo, r \in PhotoReview \ posted :
          /\ Claimable(ps, o) /\ photo' = photo
          /\ StartPhotoTask(w, [pc |-> "resolved", op |-> "post", review |-> r, photos |-> ps])
    BY <1>2 DEF ResolvePhotos
  <2>2. PICK t \in PhotoTask : t = [pc |-> "resolved", op |-> "post", review |-> r, photos |-> ps]
    BY DEF PhotoTask
  <2>3. \A p \in t.photos : photo[p] = "free"
    BY <2>1, <2>2 DEF Claimable, Free
  <2>4. t.pc = "resolved" /\ StartPhotoTask(w, t)
    BY <2>1, <2>2
  <2> QED
    BY <1>0, <2>1, <2>3, <2>4, StartKeepsQuiet
<1>3. ASSUME NEW w \in Slot, LoadPhotos(w)
      PROVE  photo' = photo /\ (~claimsRaced' => Quiet')
  <2>1. PICK ps \in SUBSET Photo, r \in posted \cup {None} :
          /\ \/ w = Celery /\ r = None /\ ps = {p \in old : photo[p] = "free"}
             \/ w # Celery /\ r # None /\ ps = {p \in Photo : photo[p] = r}
             \/ w # Celery /\ r = None /\ \E p \in Photo : ps = {p} /\ photo[p] = "free"
          /\ StartPhotoTask(w, [pc |-> "loaded", op |-> "remove", review |-> r, photos |-> ps])
          /\ photo' = photo
    BY <1>3 DEF LoadPhotos
  <2>2. PICK t \in PhotoTask : t = [pc |-> "loaded", op |-> "remove", review |-> r, photos |-> ps]
    BY <1>0 DEF PhotoTask
  <2>3. \A p \in ps : photo[p] = "free" \/ photo[p] = r
    BY <2>1
  <2>4. t.pc = "loaded" /\ StartPhotoTask(w, t) /\ t.photos = ps /\ t.review = r
    BY <2>1, <2>2
  <2> QED
    BY <1>0, <2>1, <2>3, <2>4, StartKeepsQuiet
<1>4. ASSUME NEW w \in Slot, CreatePhoto(w)
      PROVE  (~claimsRaced' => Quiet') /\ (~claimsRaced => \A p \in Photo : Stays(p))
  <2>1. /\ photoTask[w].pc = "saved" /\ EndPhotoTask(w) /\ claimsRaced' = claimsRaced
        /\ photo' = [p \in Photo |-> IF p \in photoTask[w].photos THEN "free" ELSE photo[p]]
    BY <1>4 DEF CreatePhoto
  <2>2. \A p \in Photo : Stays(p)
    <3>1. \A p \in photoTask[w].photos : photo[p] = "absent"
      BY <1>0, <2>1 DEF StorageInv, Storage
    <3> QED
      BY <2>1, <3>1, ReviewPhotosAssumption DEF Stays
  <2>3. ASSUME Quiet, NEW o \in Owner PROVE UnderCap(o)'
    <3>1. PICK p \in Photo : /\ photoTask[w].photos = {p}
                             /\ Cardinality(Free(PhotoOwner[p])) < MaxUnattached
      BY <2>1, <2>3 DEF Quiet, Sights, StillRoom
    <3>2. UnderCap(o)
      BY <2>3 DEF Quiet
    <3>3. CASE PhotoOwner[p] # o
      <4>2. \A q \in Photo : photo'[q] = "free" /\ PhotoOwner[q] = o => photo[q] = "free"
        BY <2>1, <3>1, <3>3
      <4>3. Free(o)' \in SUBSET Free(o)
        BY <4>2 DEF Free
      <4>4. IsFiniteSet(Free(o)') /\ Cardinality(Free(o)') <= Cardinality(Free(o))
        BY <3>2, <4>3, FS_Subset DEF UnderCap
      <4>5. Cardinality(Free(o)) \in Nat /\ Cardinality(Free(o)') \in Nat
        BY <3>2, <4>4, FS_CardinalityType DEF UnderCap
      <4> QED
        BY <3>2, <4>4, <4>5, ReviewPhotosAssumption DEF UnderCap
    <3>4. CASE PhotoOwner[p] = o
      <4>1. Free(o)' = Free(o) \cup {p}
        BY <2>1, <3>1, <3>4 DEF Free
      <4>2. /\ IsFiniteSet(Free(o) \cup {p})
            /\ Cardinality(Free(o) \cup {p}) =
                  IF p \in Free(o) THEN Cardinality(Free(o)) ELSE Cardinality(Free(o)) + 1
        BY <3>2, FS_AddElement DEF UnderCap
      <4>3. Cardinality(Free(o)) \in Nat
        BY <3>2, FS_CardinalityType DEF UnderCap
      <4>4. Cardinality(Free(o)) < MaxUnattached /\ MaxUnattached \in Nat
        BY <3>1, <3>4, ReviewPhotosAssumption
      <4>5. Cardinality(Free(o) \cup {p}) <= MaxUnattached
        BY <4>2, <4>3, <4>4
      <4> QED
        BY <4>1, <4>2, <4>5 DEF UnderCap
    <3> QED
      BY <3>3, <3>4
  <2>4. photoTask[w] # NoPhotoTask
    BY <2>1, IdlePhotoTask
  <2> QED
    BY <1>0, <2>1, <2>2, <2>3, <2>4, EndKeepsQuiet
<1>5. ASSUME NEW w \in Slot, UploadFails(w)
      PROVE  photo' = photo /\ (~claimsRaced' => Quiet')
  <2>1. photoTask[w].pc = "saved" /\ EndPhotoTask(w) /\ UNCHANGED <<photo, claimsRaced>>
    BY <1>5 DEF UploadFails
  <2>2. photoTask[w] # NoPhotoTask
    BY <2>1, IdlePhotoTask
  <2>3. Quiet => \A o \in Owner : UnderCap(o)'
    BY <2>1, FewerFree
  <2> QED
    BY <1>0, <2>1, <2>2, <2>3, EndKeepsQuiet
<1>6. ASSUME NEW w \in Slot, ClaimPhotos(w)
      PROVE  photo' = photo /\ (~claimsRaced' => Quiet')
  <2>1. /\ photoTask[w].pc = "resolved"
        /\ photoTask' = [photoTask EXCEPT ![w].pc = "claimed"]
        /\ UNCHANGED <<photo, claimsRaced>>
    BY <1>6 DEF ClaimPhotos
  <2>2. PICK t \in PhotoTask : t = [photoTask[w] EXCEPT !.pc = "claimed"]
    BY <1>0 DEF PhotoTask
  <2>3. /\ t.photos = photoTask[w].photos /\ t.review = photoTask[w].review
        /\ t.pc = "claimed" /\ photoTask' = [photoTask EXCEPT ![w] = t]
    BY <1>0, <2>1, <2>2 DEF PhotoTask
  <2> QED
    BY <1>0, <2>1, <2>3, TakeKeepsQuiet
<1>7. ASSUME NEW w \in Slot, DropPhotos(w)
      PROVE  photo' = photo /\ (~claimsRaced' => Quiet')
  <2>1. /\ photoTask[w].pc = "loaded"
        /\ photoTask' = [photoTask EXCEPT ![w].pc = "dropped"]
        /\ UNCHANGED <<photo, claimsRaced>>
    BY <1>7 DEF DropPhotos
  <2>2. PICK t \in PhotoTask : t = [photoTask[w] EXCEPT !.pc = "dropped"]
    BY <1>0 DEF PhotoTask
  <2>3. /\ t.photos = photoTask[w].photos /\ t.review = photoTask[w].review
        /\ t.pc = "dropped" /\ photoTask' = [photoTask EXCEPT ![w] = t]
    BY <1>0, <2>1, <2>2 DEF PhotoTask
  <2> QED
    BY <1>0, <2>1, <2>3, TakeKeepsQuiet
<1>8. ASSUME NEW w \in Slot, CommitClaim(w)
      PROVE  (~claimsRaced' => Quiet') /\ (~claimsRaced => \A p \in Photo : Stays(p))
  <2> DEFINE t == photoTask[w]
  <2>1. /\ t.pc = "claimed" /\ EndPhotoTask(w) /\ claimsRaced' = claimsRaced
        /\ photo' = [p \in Photo |-> IF p \in t.photos /\ photo[p] # "gone" THEN t.review
                                     ELSE photo[p]]
    BY <1>8 DEF CommitClaim
  <2>2. ASSUME ~claimsRaced PROVE \A p \in Photo : Stays(p)
    <3>1. \A p \in t.photos : photo[p] = "free"
      BY <1>0, <2>1, <2>2 DEF Quiet, Sights, StillFree
    <3> QED
      BY <2>1, <3>1, ReviewPhotosAssumption DEF Stays
  <2>3. t.review \in PhotoReview
    BY <2>1, <1>0 DEF StorageInv, Storage
  <2>4. \A p \in Photo : photo'[p] = "free" => photo[p] = "free"
    BY <2>1, <2>3, ReviewPhotosAssumption
  <2>5. t # NoPhotoTask
    BY <2>1, IdlePhotoTask
  <2>6. Quiet => \A o \in Owner : UnderCap(o)'
    BY <2>4, FewerFree
  <2> QED
    BY <1>0, <2>1, <2>2, <2>5, <2>6, EndKeepsQuiet
<1>9. ASSUME NEW w \in Slot, CommitRemoval(w)
      PROVE  (~claimsRaced' => Quiet') /\ (~claimsRaced => \A p \in Photo : Stays(p))
  <2> DEFINE t == photoTask[w]
  <2>1. /\ t.pc = "dropped" /\ EndPhotoTask(w) /\ claimsRaced' = claimsRaced
        /\ posted' = posted \ {t.review}
        /\ photo' = [p \in Photo |-> IF p \in t.photos THEN "gone" ELSE photo[p]]
    BY <1>9 DEF CommitRemoval
  <2>2. ASSUME ~claimsRaced PROVE \A p \in Photo : Stays(p)
    <3>1. \A p \in t.photos : photo[p] = "free" \/ photo[p] = t.review
      BY <1>0, <2>1, <2>2 DEF Quiet, Sights, StillFound
    <3> QED
      BY <2>1, <3>1, ReviewPhotosAssumption DEF Stays
  <2>4. \A p \in Photo : photo'[p] = "free" => photo[p] = "free"
    BY <2>1
  <2>5. t # NoPhotoTask
    BY <2>1, IdlePhotoTask
  <2>6. Quiet => \A o \in Owner : UnderCap(o)'
    BY <2>4, FewerFree
  <2> QED
    BY <1>0, <2>1, <2>2, <2>5, <2>6, EndKeepsQuiet
<1>10. ASSUME NEW w \in Slot, PhotoCrash(w)
       PROVE  photo' = photo /\ (~claimsRaced' => Quiet')
  <2>1. photoTask[w] # NoPhotoTask /\ EndPhotoTask(w) /\ UNCHANGED <<photo, claimsRaced>>
    BY <1>10 DEF PhotoCrash
  <2>3. Quiet => \A o \in Owner : UnderCap(o)'
    BY <2>1, FewerFree
  <2> QED
    BY <1>0, <2>1, <2>3, EndKeepsQuiet
<1>11. CASE GrowOld \/ UNCHANGED photoVars
  <2>1. UNCHANGED <<photo, photoTask, claimsRaced>>
    BY <1>11 DEF GrowOld, photoVars
  <2>2. Quiet' <=> Quiet
    BY <2>1 DEF Quiet, OneBusy, Sights, StillRoom, StillFree, StillFound, UnderCap, Free
  <2> QED
    BY <1>0, <1>a, <2>1, <2>2
<1> QED
  BY <1>a, <1>1, <1>2, <1>3, <1>4, <1>5, <1>6, <1>7, <1>8, <1>9, <1>10, <1>11
     DEF PhotosNext, PhotoContinues

\* As long as no two tasks overlap, a photo leaves its review only with that review
\* and no owner has more unattached uploads than the cap allows, for every number of
\* photos, reviews and accounts.
THEOREM PhotosStayWithReviews == PhotosSpec => PhotosStay
<1>1. QuietInv /\ [PhotosNext]_photoVars =>
          [~claimsRaced =>
              /\ \A p \in Photo : photo[p] \in PhotoReview /\ photo'[p] # photo[p] =>
                                      photo'[p] = "gone" /\ photo[p] \notin posted'
              /\ \A o \in Owner : Cardinality(Free(o)) <= MaxUnattached]_photoVars
  BY QuietStepKeeps DEF QuietInv, Quiet, UnderCap, Stays
<1>2. QuietInv /\ [PhotosNext]_photoVars => QuietInv'
  BY QuietStepKeeps
<1> QED
  BY <1>1, <1>2, QuietStarts, PTL DEF PhotosSpec, PhotosStay

===============================================================================
