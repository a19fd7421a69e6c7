------------------------- MODULE IdempotencyProofs -------------------------
(***************************************************************************)
(* Idempotency, for every set of attempts, every set of payloads and every *)
(* bound: a success always answers the payload that was asked, and as long *)
(* as requests ended within the lock's time to live one attempt at a time  *)
(* processes the key.                                                      *)
(***************************************************************************)
EXTENDS Idempotency, TLAPS

\* An attempt that ran holds a run of its own payload.  AnswersMatch alone is
\* not inductive: it says nothing of the attempt about to answer.
RunInv ==
    /\ TypeOK
    /\ AnswersMatch
    /\ \A r \in Requests :
          req[r].pc \in {"ran", "stored"} =>
              req[r].run \in 1 .. Len(runs) /\ runs[req[r].run] = req[r].payload

\* Unless a lock expired under its holder, the entry is there as long as anyone
\* processes, and only one does.
LockInv ==
    late = 0 =>
        /\ \A r, s \in Processing : r = s
        /\ Processing # {} => procLock
-----------------------------------------------------------------------------
\* An idle attempt is well typed and answers no run.
LEMMA IdleTyped ==
    Idle \in [pc : Phases, payload : Payloads, run : {0}]
<1>1. (CHOOSE p \in Payloads : TRUE) \in Payloads
  BY PayloadsAssumption
<1> QED
  BY <1>1 DEF Idle, Phases

\* Types and answers, step by step.
THEOREM RunStep ==
    /\ Init => RunInv
    /\ RunInv /\ [Next]_vars => RunInv'
<1> DEFINE Reqs(n) == [pc : Phases, payload : Payloads, run : 0 .. n]
<1>1. Init => RunInv
  <2> SUFFICES ASSUME Init PROVE RunInv
    OBVIOUS
  <2>1. runs \in Seq(Payloads) /\ Len(runs) = 0
    BY DEF Init
  <2>2. Idle \in Reqs(0) /\ Idle.pc = "idle"
    BY IdleTyped DEF Idle
  <2>3. req \in [Requests -> Reqs(0)] /\ \A r \in Requests : req[r].pc = "idle"
    BY <2>2 DEF Init
  <2>4. /\ stored = 0 /\ procLock \in BOOLEAN /\ answers = {}
        /\ attempts \in Nat /\ crashes \in Nat /\ expiries \in Nat /\ late \in Nat
    BY DEF Init
  <2>5. TypeOK
    BY <2>1, <2>3, <2>4 DEF TypeOK
  <2> QED
    BY <2>3, <2>4, <2>5 DEF RunInv, AnswersMatch
<1>2. RunInv /\ [Next]_vars => RunInv'
  <2> SUFFICES ASSUME RunInv, [Next]_vars
               PROVE  RunInv'
    OBVIOUS
  <2>0. /\ runs \in Seq(Payloads) /\ Len(runs) \in Nat
        /\ stored \in 0 .. Len(runs)
        /\ req \in [Requests -> Reqs(Len(runs))]
        /\ Idle \in Reqs(Len(runs)) /\ Idle.pc = "idle"
    BY IdleTyped DEF RunInv, TypeOK, Idle
  <2>1. ASSUME NEW r \in Requests, ReadResult(r)
        PROVE  RunInv'
    <3>1. PICK payload \in Payloads :
              \/ /\ stored = 0
                 /\ req' = [req EXCEPT ![r] = [pc |-> "missed", payload |-> payload, run |-> 0]]
                 /\ UNCHANGED answers
              \/ /\ stored # 0
                 /\ answers' = IF PayloadConflict(payload) THEN answers
                               ELSE answers \cup {[payload |-> payload, run |-> stored]}
                 /\ UNCHANGED req
      BY <2>1 DEF ReadResult
    <3>2. [pc |-> "missed", payload |-> payload, run |-> 0] \in Reqs(Len(runs))
      BY <2>0 DEF Phases
    <3>3. /\ UNCHANGED <<stored, procLock, runs, crashes, expiries, late>>
          /\ attempts' \in Nat
      BY <2>1 DEF ReadResult, RunInv, TypeOK
    <3>4. CASE UNCHANGED answers /\ stored = 0
      BY <3>1, <3>2, <3>3, <3>4, <2>0 DEF RunInv, TypeOK, AnswersMatch
    <3>5. CASE stored # 0
      BY <3>1, <3>3, <3>5, <2>0 DEF RunInv, TypeOK, AnswersMatch, PayloadConflict
    <3> QED
      BY <3>1, <3>4, <3>5
  <2>2. ASSUME NEW r \in Requests, AcquireLock(r)
        PROVE  RunInv'
    <3>1. /\ procLock' = TRUE
          /\ UNCHANGED <<stored, runs, answers, attempts, crashes, expiries, late>>
      BY <2>2 DEF AcquireLock
    <3>2. \/ req' = [req EXCEPT ![r] = Idle]
          \/ req' = [req EXCEPT ![r] = [@ EXCEPT !.pc = "locked"]]
      BY <2>2, <2>0 DEF AcquireLock, Goto
    <3>3. [req[r] EXCEPT !.pc = "locked"] \in Reqs(Len(runs))
      BY <2>0 DEF Phases
    <3>4. TypeOK'
      BY <3>1, <3>2, <3>3, <2>0 DEF RunInv, TypeOK
    <3>5. \A s \in Requests : req'[s].pc \in {"ran", "stored"} => req'[s] = req[s]
      BY <3>2, <2>0
    <3> QED
      BY <3>1, <3>4, <3>5 DEF RunInv, AnswersMatch
  <2>3. ASSUME NEW r \in Requests, Run(r)
        PROVE  RunInv'
    <3>1. /\ req[r].payload \in Payloads
          /\ runs' = Append(runs, req[r].payload)
          /\ UNCHANGED <<stored, procLock, answers, attempts, crashes, expiries, late>>
      BY <2>3, <2>0 DEF Run
    <3>2. /\ runs' \in Seq(Payloads) /\ Len(runs') = Len(runs) + 1
          /\ \A i \in 1 .. Len(runs) : runs'[i] = runs[i]
          /\ runs'[Len(runs')] = req[r].payload
      BY <3>1, <2>0
    <3>3. req' = [req EXCEPT ![r] = [@ EXCEPT !.pc = "ran", !.run = Len(runs')]]
      BY <2>3, <2>0 DEF Run
    <3>4. [req[r] EXCEPT !.pc = "ran", !.run = Len(runs')] \in Reqs(Len(runs'))
      <4>1. Len(runs') \in 0 .. Len(runs') /\ "ran" \in Phases
        BY <3>2, <2>0 DEF Phases
      <4> QED
        BY <4>1, <2>0
    <3>5. \A s \in Requests : req[s] \in Reqs(Len(runs'))
      BY <3>2, <2>0
    <3>6. req' \in [Requests -> Reqs(Len(runs'))]
      BY <3>3, <3>4, <3>5, <2>0
    <3>7. TypeOK'
      BY <3>1, <3>2, <3>6, <2>0 DEF RunInv, TypeOK
    <3>8. AnswersMatch'
      BY <3>1, <3>2, <2>0 DEF RunInv, TypeOK, AnswersMatch
    <3>9. \A s \in Requests :
             req'[s].pc \in {"ran", "stored"} =>
                 req'[s].run \in 1 .. Len(runs') /\ runs'[req'[s].run] = req'[s].payload
      BY <3>2, <3>3, <2>0 DEF RunInv
    <3> QED
      BY <3>7, <3>8, <3>9 DEF RunInv
  <2>4. ASSUME NEW r \in Requests, Refuse(r)
        PROVE  RunInv'
    BY <2>4, <2>0 DEF Refuse, Goto, RunInv, TypeOK, AnswersMatch, Phases
  <2>5. ASSUME NEW r \in Requests, StoreResult(r)
        PROVE  RunInv'
    BY <2>5, <2>0 DEF StoreResult, Goto, RunInv, TypeOK, AnswersMatch, Phases
  <2>6. ASSUME NEW r \in Requests, ReleaseLock(r)
        PROVE  RunInv'
    <3>1. CASE req[r].pc = "failed"
      BY <2>6, <3>1, <2>0 DEF ReleaseLock, RunInv, TypeOK, AnswersMatch
    <3>2. CASE req[r].pc = "stored"
      <4>1. /\ answers' = answers \cup {[payload |-> req[r].payload, run |-> req[r].run]}
            /\ procLock' = FALSE /\ req' = [req EXCEPT ![r] = Idle]
            /\ UNCHANGED <<stored, runs, attempts, crashes, expiries, late>>
        BY <2>6, <3>2 DEF ReleaseLock
      <4>2. /\ req[r].payload \in Payloads /\ req[r].run \in 1 .. Len(runs)
            /\ runs[req[r].run] = req[r].payload
        BY <3>2, <2>0 DEF RunInv
      <4>3. TypeOK'
        <5>1. answers' \subseteq [payload : Payloads, run : 1 .. Len(runs)]
          BY <4>1, <4>2 DEF RunInv, TypeOK
        <5>2. req' \in [Requests -> Reqs(Len(runs))]
          BY <4>1, <2>0
        <5>3. procLock' \in BOOLEAN
          BY <4>1
        <5> QED
          BY <4>1, <5>1, <5>2, <5>3, <2>0 DEF RunInv, TypeOK
      <4>4. AnswersMatch'
        BY <4>1, <4>2 DEF RunInv, AnswersMatch
      <4>5. \A s \in Requests : req'[s].pc \in {"ran", "stored"} => req'[s] = req[s]
        BY <4>1, <2>0
      <4> QED
        BY <4>1, <4>3, <4>4, <4>5 DEF RunInv
    <3> QED
      BY <2>6, <3>1, <3>2 DEF ReleaseLock
  <2>7. ASSUME NEW r \in Requests, Crash(r)
        PROVE  RunInv'
    BY <2>7, <2>0 DEF Crash, RunInv, TypeOK, AnswersMatch
  <2>8. CASE LockExpires \/ ResultExpires
    <3>1. /\ UNCHANGED <<runs, req, answers, attempts, crashes>>
          /\ stored' \in 0 .. Len(runs) /\ procLock' \in BOOLEAN
          /\ expiries' \in Nat /\ late' \in Nat
      <4>1. CASE LockExpires
        <5>1. procLock' \in BOOLEAN
          BY <4>1 DEF LockExpires
        <5>2. late \in Nat /\ (late' = late \/ late' = late + 1)
          BY <4>1 DEF LockExpires, RunInv, TypeOK
        <5> QED
          BY <4>1, <5>1, <5>2, <2>0 DEF LockExpires, RunInv, TypeOK
      <4>2. CASE ResultExpires
        <5>1. stored' \in 0 .. Len(runs) /\ expiries' \in Nat
          BY <4>2, <2>0 DEF ResultExpires, RunInv, TypeOK
        <5>2. procLock' = procLock /\ procLock \in BOOLEAN
          BY <4>2 DEF ResultExpires, RunInv, TypeOK
        <5>3. late' \in Nat
          BY <4>2 DEF ResultExpires, RunInv, TypeOK
        <5> QED
          BY <4>2, <5>1, <5>2, <5>3 DEF ResultExpires
      <4> QED
        BY <2>8, <4>1, <4>2
    <3> QED
      BY <3>1 DEF RunInv, TypeOK, AnswersMatch
  <2>9. CASE UNCHANGED vars
    BY <2>9 DEF vars, RunInv, TypeOK, AnswersMatch
  <2> QED
    BY <2>1, <2>2, <2>3, <2>4, <2>5, <2>6, <2>7, <2>8, <2>9 DEF Next, Step
<1> QED
  BY <1>1, <1>2

\* The cache entries, the committed mutations and the attempts keep their types.
THEOREM TypeCorrect == Spec => []TypeOK
<1>1. RunInv => TypeOK
  BY DEF RunInv
<1> QED
  BY <1>1, RunStep, PTL DEF Spec

\* No attempt is answered with the result of another payload, slow or not,
\* whoever dies and whatever expires (payload_conflict, store_result).
THEOREM AnswersAlwaysMatch == Spec => []AnswersMatch
<1>1. RunInv => AnswersMatch
  BY DEF RunInv
<1> QED
  BY <1>1, RunStep, PTL DEF Spec
-----------------------------------------------------------------------------
\* The lock keeps attempts apart as long as it outlives them.
THEOREM LockStep ==
    /\ Init => LockInv
    /\ RunInv /\ LockInv /\ [Next]_vars => LockInv'
<1>1. Init => LockInv
  BY DEF Init, LockInv, Processing, Idle
<1>2. RunInv /\ LockInv /\ [Next]_vars => LockInv'
  <2> SUFFICES ASSUME RunInv, LockInv, [Next]_vars
               PROVE  LockInv'
    OBVIOUS
  <2>0. req \in [Requests -> [pc : Phases, payload : Payloads, run : 0 .. Len(runs)]]
    BY DEF RunInv, TypeOK
  <2>1. ASSUME Processing' \subseteq Processing, procLock' = procLock, late' = late
        PROVE  LockInv'
    BY <2>1 DEF LockInv
  <2>2. ASSUME NEW r \in Requests,
               ReadResult(r) \/ Run(r) \/ Refuse(r) \/ StoreResult(r) \/ Crash(r)
        PROVE  LockInv'
    BY <2>0, <2>1, <2>2
       DEF ReadResult, Run, Refuse, StoreResult, Crash, Goto, Processing, Idle
  <2>3. ASSUME NEW r \in Requests, AcquireLock(r)
        PROVE  LockInv'
    BY <2>0, <2>3 DEF AcquireLock, Goto, Processing, Idle, LockInv
  <2>4. ASSUME NEW r \in Requests, ReleaseLock(r)
        PROVE  LockInv'
    BY <2>0, <2>4 DEF ReleaseLock, Processing, Idle, LockInv
  <2>5. CASE LockExpires
    <3>1. /\ Processing' = Processing /\ late \in Nat
          /\ late' = IF Processing = {} THEN late ELSE late + 1
      BY <2>5 DEF LockExpires, Processing, RunInv, TypeOK
    <3> QED
      BY <3>1 DEF LockInv
  <2>6. CASE ResultExpires \/ UNCHANGED vars
    BY <2>1, <2>6 DEF ResultExpires, vars, Processing
  <2> QED
    BY <2>2, <2>3, <2>4, <2>5, <2>6 DEF Next, Step
<1> QED
  BY <1>1, <1>2

\* "a request already being processed under the same key is answered with 409
\* rather than being run twice", as long as requests end within 60 seconds
\* (acquire_processing_lock, release_processing_lock).
THEOREM ProcessedOneAtATime == Spec => []OneAtATime
<1>1. LockInv => OneAtATime
  BY DEF LockInv, OneAtATime
<1> QED
  BY <1>1, RunStep, LockStep, PTL DEF Spec
-----------------------------------------------------------------------------
\* Until the result expires it is there for whoever has stored it and for every
\* success that was given.  AnsweredIsStored alone says nothing of the attempt
\* about to answer.
StoredInv == AnsweredIsStored /\ \A r \in Requests : req[r].pc = "stored" /\ expiries = 0 => stored # 0

\* Only the expiry takes a result away, and an attempt stores before it answers.
THEOREM StoredStep ==
    /\ Init => StoredInv
    /\ RunInv /\ StoredInv /\ [Next]_vars => StoredInv'
<1>1. Init => StoredInv
  BY DEF Init, StoredInv, AnsweredIsStored, Idle
<1>2. RunInv /\ StoredInv /\ [Next]_vars => StoredInv'
  <2> SUFFICES ASSUME RunInv, StoredInv, [Next]_vars
               PROVE  StoredInv'
    OBVIOUS
  <2>0. /\ req \in [Requests -> [pc : Phases, payload : Payloads, run : 0 .. Len(runs)]]
        /\ \A r \in Requests : req[r].pc = "ran" => req[r].run # 0
        /\ Idle.pc = "idle" /\ expiries \in Nat /\ Len(runs) \in Nat
    <3>1. TypeOK /\ \A r \in Requests : req[r].pc = "ran" => req[r].run \in 1 .. Len(runs)
      BY DEF RunInv
    <3> QED
      BY <3>1 DEF TypeOK, Idle
  <2>1. ASSUME UNCHANGED <<stored, answers, expiries>>,
               \A r \in Requests : req'[r].pc = "stored" => req[r].pc = "stored"
        PROVE  StoredInv'
    BY <2>1 DEF StoredInv, AnsweredIsStored
  <2>2. ASSUME NEW r \in Requests, ReadResult(r)
        PROVE  StoredInv'
    <3>1. CASE stored = 0
      <4>1. /\ UNCHANGED <<stored, answers, expiries>>
            /\ \E payload \in Payloads :
                  req' = [req EXCEPT ![r] = [pc |-> "missed", payload |-> payload, run |-> 0]]
        BY <2>2, <3>1 DEF ReadResult
      <4> QED
        BY <2>0, <2>1, <4>1
    <3>2. CASE stored # 0
      BY <2>2, <3>2 DEF ReadResult, StoredInv, AnsweredIsStored
    <3> QED
      BY <3>1, <3>2
  <2>3. ASSUME NEW r \in Requests, AcquireLock(r) \/ Run(r) \/ Refuse(r) \/ Crash(r)
        PROVE  StoredInv'
    BY <2>0, <2>1, <2>3 DEF AcquireLock, Run, Refuse, Crash, Goto
  <2>4. ASSUME NEW r \in Requests, StoreResult(r)
        PROVE  StoredInv'
    <3>1. stored' = req[r].run /\ stored' # 0
      BY <2>0, <2>4 DEF StoreResult
    <3> QED
      BY <3>1 DEF StoredInv, AnsweredIsStored
  <2>5. ASSUME NEW r \in Requests, ReleaseLock(r)
        PROVE  StoredInv'
    <3>1. /\ stored' = stored /\ expiries' = expiries
          /\ answers' # answers => req[r].pc = "stored"
          /\ \A s \in Requests : req'[s].pc = "stored" => req[s].pc = "stored"
      BY <2>0, <2>5 DEF ReleaseLock
    <3> QED
      BY <3>1 DEF StoredInv, AnsweredIsStored
  <2>6. CASE ResultExpires
    <3>1. expiries' # 0
      BY <2>0, <2>6 DEF ResultExpires
    <3> QED
      BY <3>1 DEF StoredInv, AnsweredIsStored
  <2>7. CASE LockExpires \/ UNCHANGED vars
    BY <2>1, <2>7 DEF LockExpires, vars
  <2> QED
    BY <2>2, <2>3, <2>4, <2>5, <2>6, <2>7 DEF Next, Step
<1> QED
  BY <1>1, <1>2

\* Once an attempt was told it succeeded, the key has a result to replay until
\* that result expires (store_result, before the answer).
THEOREM SuccessesAreStored == Spec => []AnsweredIsStored
<1>1. StoredInv => AnsweredIsStored
  BY DEF StoredInv
<1> QED
  BY <1>1, RunStep, StoredStep, PTL DEF Spec
=============================================================================
