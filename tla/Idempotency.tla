---------------------------- MODULE Idempotency ----------------------------
(***************************************************************************)
(* One Idempotency-Key of one caller (apps/core/idempotency.py), as the    *)
(* mutating views use it: read the stored result, take the processing      *)
(* lock, run the mutation, store the result, release the lock.  Keys do    *)
(* not interact.  The result and the lock are two entries of the Redis     *)
(* cache, each with its own time to live; the mutation commits in          *)
(* PostgreSQL, so a worker can die between the commit and the store.       *)
(***************************************************************************)
EXTENDS Naturals, FiniteSets, Sequences

CONSTANTS
    Requests,      \* attempts in flight at once with this key
    Payloads,      \* the request fingerprints sent with it
    MaxAttempts,   \* bound: attempts made with the key
    MaxCrashes,    \* bound: workers killed half-way
    MaxExpiries,   \* bound: stored results that reach their 24 hours
    MaxLate        \* bound: locks that expire under a request still running

ASSUME PayloadsAssumption == Payloads # {}
ASSUME AttemptsAssumption ==
    /\ MaxAttempts \in Nat /\ MaxCrashes \in Nat
    /\ MaxExpiries \in Nat /\ MaxLate \in Nat

VARIABLES
    stored,     \* the result under the key: the run that produced it, 0 for none
    procLock,   \* whether the ":lock" entry exists
    runs,       \* the payload of each committed mutation, numbered from 1
    req,        \* what each attempt is doing
    answers,    \* the successful answers given, [payload asked, run answered]
    attempts, crashes, expiries, late

vars == <<stored, procLock, runs, req, answers, attempts, crashes, expiries, late>>
-----------------------------------------------------------------------------
Phases == {"idle", "missed", "locked", "failed", "ran", "stored"}

Idle == [pc |-> "idle", payload |-> CHOOSE p \in Payloads : TRUE, run |-> 0]

\* Attempts between acquire_processing_lock and release_processing_lock.
Processing == {r \in Requests : req[r].pc \in {"locked", "failed", "ran", "stored"}}

\* Mutant of PayloadConflict: the key is not bound to a payload.
NeverConflicts(payload) == FALSE

\* payload_conflict, for a result that is there.
PayloadConflict(payload) == runs[stored] # payload

Goto(r, pc) == req' = [req EXCEPT ![r].pc = pc]
-----------------------------------------------------------------------------
Init ==
    /\ stored = 0
    /\ procLock = FALSE
    /\ runs = <<>>
    /\ req = [r \in Requests |-> Idle]
    /\ answers = {}
    /\ attempts = 0 /\ crashes = 0 /\ expiries = 0 /\ late = 0

\* read_cached_result: a hit is replayed, or refused with 409 when it belongs
\* to another payload; after a miss the attempt goes on.
ReadResult(r) ==
    /\ req[r].pc = "idle"
    /\ attempts < MaxAttempts
    /\ attempts' = attempts + 1
    /\ \E payload \in Payloads :
          \/ /\ stored = 0
             /\ req' = [req EXCEPT ![r] = [pc |-> "missed", payload |-> payload, run |-> 0]]
             /\ UNCHANGED answers
          \/ /\ stored # 0
             /\ answers' = IF PayloadConflict(payload) THEN answers
                           ELSE answers \cup {[payload |-> payload, run |-> stored]}
             /\ UNCHANGED req
    /\ UNCHANGED <<stored, procLock, runs, crashes, expiries, late>>

\* Mutant of AcquireLock: the entry is set, not added.
SetLock(r) ==
    /\ req[r].pc = "missed"
    /\ procLock' = TRUE
    /\ Goto(r, "locked")
    /\ UNCHANGED <<stored, runs, answers, attempts, crashes, expiries, late>>

\* acquire_processing_lock, an atomic cache.add; the loser is answered 409.
AcquireLock(r) ==
    /\ req[r].pc = "missed"
    /\ procLock' = TRUE
    /\ IF procLock THEN req' = [req EXCEPT ![r] = Idle] ELSE Goto(r, "locked")
    /\ UNCHANGED <<stored, runs, answers, attempts, crashes, expiries, late>>

\* The mutation's transaction commits.
Run(r) ==
    /\ req[r].pc = "locked"
    /\ runs' = Append(runs, req[r].payload)
    /\ req' = [req EXCEPT ![r].pc = "ran", ![r].run = Len(runs')]
    /\ UNCHANGED <<stored, procLock, answers, attempts, crashes, expiries, late>>

\* The mutation is refused (400) and writes nothing; nothing is stored either.
Refuse(r) ==
    /\ req[r].pc = "locked"
    /\ Goto(r, "failed")
    /\ UNCHANGED <<stored, procLock, runs, answers, attempts, crashes, expiries, late>>

\* Mutant of StoreResult: the status code is not one that is stored.
StoreNothing(r) ==
    /\ req[r].pc = "ran"
    /\ Goto(r, "stored")
    /\ UNCHANGED <<stored, procLock, runs, answers, attempts, crashes, expiries, late>>

\* store_result: cache.set, whatever is there.
StoreResult(r) ==
    /\ req[r].pc = "ran"
    /\ stored' = req[r].run
    /\ Goto(r, "stored")
    /\ UNCHANGED <<procLock, runs, answers, attempts, crashes, expiries, late>>

\* Mutant of ReleaseLock: a refused mutation is answered as a success.
ReleaseAnswering(r) ==
    /\ req[r].pc \in {"failed", "stored"}
    /\ procLock' = FALSE
    /\ answers' = answers \cup {[payload |-> req[r].payload, run |-> req[r].run]}
    /\ req' = [req EXCEPT ![r] = Idle]
    /\ UNCHANGED <<stored, runs, attempts, crashes, expiries, late>>

\* release_processing_lock in the finally clause: cache.delete, whoever's lock
\* it is.  The attempt is answered afterwards.
ReleaseLock(r) ==
    /\ req[r].pc \in {"failed", "stored"}
    /\ procLock' = FALSE
    /\ answers' = IF req[r].pc = "failed" THEN answers
                  ELSE answers \cup {[payload |-> req[r].payload, run |-> req[r].run]}
    /\ req' = [req EXCEPT ![r] = Idle]
    /\ UNCHANGED <<stored, runs, attempts, crashes, expiries, late>>

\* The worker dies; the cache entries stay and the finally clause never runs.
Crash(r) ==
    /\ req[r].pc # "idle"
    /\ crashes < MaxCrashes
    /\ crashes' = crashes + 1
    /\ req' = [req EXCEPT ![r] = Idle]
    /\ UNCHANGED <<stored, procLock, runs, answers, attempts, expiries, late>>

\* Mutant of LockExpires: the entry is added without a timeout.
LockStays == FALSE /\ UNCHANGED vars

\* The lock reaches PROCESSING_LOCK_TTL_SECONDS, usually that of a dead worker;
\* nothing stops a request from running for longer than that.
LockExpires ==
    /\ procLock
    /\ late' = IF Processing = {} THEN late ELSE late + 1
    /\ late' <= MaxLate
    /\ procLock' = FALSE
    /\ UNCHANGED <<stored, runs, req, answers, attempts, crashes, expiries>>

\* The result reaches IDEMPOTENCY_TTL_SECONDS.
ResultExpires ==
    /\ stored # 0
    /\ expiries < MaxExpiries
    /\ expiries' = expiries + 1
    /\ stored' = 0
    /\ UNCHANGED <<procLock, runs, req, answers, attempts, crashes, late>>

Step(r) ==
    \/ ReadResult(r) \/ AcquireLock(r) \/ Run(r) \/ Refuse(r)
    \/ StoreResult(r) \/ ReleaseLock(r) \/ Crash(r)

Next == LockExpires \/ ResultExpires \/ \E r \in Requests : Step(r)

Spec == Init /\ [][Next]_vars

\* A worker goes on until it has answered, and Redis expires the lock.
Fairness ==
    /\ WF_vars(LockExpires)
    /\ \A r \in Requests :
          WF_vars(AcquireLock(r) \/ Run(r) \/ Refuse(r) \/ StoreResult(r) \/ ReleaseLock(r))

FairSpec == Spec /\ Fairness
-----------------------------------------------------------------------------
\* Types of the cache entries, the committed mutations and the attempts.
TypeOK ==
    /\ stored \in 0 .. Len(runs)
    /\ procLock \in BOOLEAN
    /\ runs \in Seq(Payloads)
    /\ req \in [Requests -> [pc : Phases, payload : Payloads, run : 0 .. Len(runs)]]
    /\ answers \subseteq [payload : Payloads, run : 1 .. Len(runs)]
    /\ attempts \in Nat /\ crashes \in Nat /\ expiries \in Nat /\ late \in Nat

\* A success, fresh or replayed, always answers the payload that was asked:
\* no attempt is given the result of a different request, also when attempts
\* with different payloads race on the key and overwrite each other's result.
AnswersMatch == \A a \in answers : runs[a.run] = a.payload

\* Once any attempt was told it succeeded, the key has a result to replay for
\* as long as results live: the store comes before the answer.
AnsweredIsStored == answers # {} /\ expiries = 0 => stored # 0

\* As long as every request ended within the lock's time to live, the key is
\* processed by one attempt at a time: "a request already being processed under the same
\* key is answered with 409 rather than being run twice".
OneAtATime == late = 0 => \A r, s \in Processing : r = s

\* A lock never blocks the key for ever, also when its holder died.
LockGoesAway == procLock ~> ~procLock

\* A repeated request "must not re-run the mutation".
RunOnce == expiries = 0 => Len(runs) <= 1
=============================================================================
