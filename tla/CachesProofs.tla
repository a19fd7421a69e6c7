----------------------------- MODULE CachesProofs -----------------------------
(***************************************************************************)
(* The caches, for every set of workers, processes and rows and every bound:*)
(* what a request finds is what the rows last committed said, but for the  *)
(* writes that each theorem names.                                         *)
(***************************************************************************)
EXTENDS GenerationCache, SiteSettings, LiveViewers, Collections, BundlePrices, TLAPS

(***************************************************************************)
(* Cached pages under a generation number.                                 *)
(***************************************************************************)
Reading == [pc : {"idle", "keyed", "computed"}, generation : Generations,
            found : 0 .. MaxVersions]
WritingUpTo(d) == [pc : {"idle", "bump", "reset", "commit"}, kind : {"none", "late", "early"},
               version : 0 .. d]

\* What is stored under a generation, and what a request will store there, is
\* as new as version v.
NewAs(g, v) ==
    /\ entry[g] = None \/ entry[g] >= v
    /\ \A w \in Worker : reader[w].pc = "computed" /\ reader[w].generation = g
                            => reader[w].found >= v

\* Nothing is stored, or will be, under a generation still to come.
AheadEmpty ==
    /\ \A g \in Generations : g > Generation => entry[g] = None
    /\ \A w \in Worker : reader[w].generation <= Generation

\* A write that found no counter will set it to 1: if another has done so
\* meanwhile, what was filled in since is as new as both.
ResetHarmless ==
    counter = 1 => \A w \in Worker : writer[w].pc = "reset" => NewAs(1, writer[w].version)

Settled == AheadEmpty /\ NewAs(Generation, announced) /\ ResetHarmless

GenerationInv == GenerationTypeOK /\ (~unsettled => Settled)
-----------------------------------------------------------------------------
\* The bounds are numbers.
LEMMA Bounds == MaxVersions \in Nat /\ MaxBumps \in Nat /\ MaxLosses \in Nat /\ 1 <= MaxBumps
  BY GenerationAssumption

\* The type invariant, with the records named.
LEMMA GenerationShapes ==
    ASSUME GenerationTypeOK
    PROVE  /\ data \in 0 .. MaxVersions /\ announced \in 0 .. data
           /\ counter \in Generations \cup {None} /\ None \notin Nat
           /\ entry \in [Generations -> 0 .. MaxVersions \cup {None}]
           /\ reader \in [Worker -> Reading] /\ writer \in [Worker -> WritingUpTo(data)]
           /\ Generation \in Generations
           /\ \A g \in Generations : g \in Nat
  BY Bounds, GenerationAssumption
     DEF GenerationTypeOK, Reading, WritingUpTo, Generation, Generations

\* An idle reader is of the type.
LEMMA Idlers == NoReader \in Reading /\ NoReader.pc = "idle" /\ NoReader.generation = 0
  BY Bounds DEF NoReader, Reading, Generations

\* An idle writer is of the type.
LEMMA IdleWriter ==
    ASSUME NEW d \in Nat
    PROVE  NoWriter \in WritingUpTo(d) /\ NoWriter.pc = "idle"
  BY DEF NoWriter, WritingUpTo

\* A write that begins is of the type.
LEMMA NewWriters ==
    ASSUME NEW d \in Nat, NEW v \in 0 .. d
    PROVE  /\ [pc |-> "bump", kind |-> "late", version |-> v] \in WritingUpTo(d)
           /\ [NoWriter EXCEPT !.pc = "bump", !.kind = "early"] \in WritingUpTo(d)
           /\ [NoWriter EXCEPT !.pc = "bump", !.kind = "early"].pc = "bump"
<1>1. [pc |-> "bump", kind |-> "late", version |-> v] \in WritingUpTo(d)
  BY DEF WritingUpTo
<1>2. NoWriter \in WritingUpTo(d)
  BY IdleWriter
<1>3. /\ [NoWriter EXCEPT !.pc = "bump", !.kind = "early"] \in WritingUpTo(d)
      /\ [NoWriter EXCEPT !.pc = "bump", !.kind = "early"].pc = "bump"
  BY <1>2 DEF WritingUpTo
<1> QED
  BY <1>1, <1>2, <1>3

\* A writer that moves between its points stays of the type.
LEMMA WriterMoves ==
    ASSUME NEW d \in Nat, NEW r \in WritingUpTo(d), NEW p \in {"idle", "bump", "reset", "commit"}
    PROVE  [r EXCEPT !.pc = p] \in WritingUpTo(d) /\ [r EXCEPT !.pc = p].pc = p
  BY DEF WritingUpTo

\* The types after a step, from the types of what it changes.
LEMMA GenerationTypes ==
    ASSUME GenerationTypeOK, space' = space,
           data' \in 0 .. MaxVersions, announced' \in 0 .. data',
           counter' \in Generations \cup {None},
           entry' \in [Generations -> 0 .. MaxVersions \cup {None}],
           reader' \in [Worker -> Reading], writer' \in [Worker -> WritingUpTo(data')],
           unsettled' \in BOOLEAN, cacheLosses' \in Nat
    PROVE  GenerationTypeOK'
  BY DEF GenerationTypeOK, Reading, WritingUpTo, Generations

\* Entries may go and readers leave: what is left is as new as before.
LEMMA Fewer ==
    ASSUME GenerationTypeOK, Settled,
           UNCHANGED <<counter, announced>>,
           \A g \in Generations : entry'[g] \in {entry[g], None},
           \A w \in Worker : reader'[w] \in {reader[w], NoReader},
           \A w \in Worker : writer'[w].pc = "reset" => writer'[w] = writer[w]
    PROVE  Settled'
<1>0. /\ Generation' = Generation /\ Generation \in Generations
      /\ \A g \in Generations : g \in Nat
      /\ 1 \in Generations
  BY GenerationShapes, Bounds DEF Generation, Generations
<1>1. AheadEmpty'
  BY <1>0, Idlers DEF Settled, AheadEmpty
<1>2. ASSUME NEW g \in Generations, NEW v, NewAs(g, v)
      PROVE  NewAs(g, v)'
  BY <1>2, Idlers DEF NewAs
<1>3. NewAs(Generation, announced)'
  BY <1>0, Idlers DEF Settled, NewAs
<1>4. ResetHarmless'
  BY <1>0, <1>2 DEF Settled, ResetHarmless, NewAs
<1> QED
  BY <1>1, <1>3, <1>4 DEF Settled
-----------------------------------------------------------------------------
\* Every cache is empty and its counter missing when the system starts
\* (apps/catalog/cache.py).
THEOREM GenerationInvStarts == GenerationInit => GenerationInv
<1> SUFFICES ASSUME GenerationInit PROVE GenerationInv
  OBVIOUS
<1>1. GenerationTypeOK
  <2>1. data \in 0 .. MaxVersions /\ announced \in 0 .. data /\ cacheLosses \in Nat
    BY Bounds DEF GenerationInit
  <2>2. reader \in [Worker -> Reading] /\ writer \in [Worker -> WritingUpTo(data)]
    BY Bounds, Idlers, IdleWriter DEF GenerationInit
  <2> QED
    BY <2>1, <2>2 DEF GenerationInit, GenerationTypeOK, Reading, WritingUpTo
<1>2. Settled
  <2>1. counter = None /\ counter # 1 /\ Generation = 0 /\ 0 \in Generations
    BY Bounds, GenerationAssumption DEF GenerationInit, Generation, Generations
  <2>2. /\ \A g \in Generations : entry[g] = None
        /\ \A w \in Worker : reader[w].pc = "idle" /\ reader[w].generation = 0
    BY Idlers DEF GenerationInit
  <2> QED
    BY <2>1, <2>2 DEF Settled, AheadEmpty, NewAs, ResetHarmless
<1> QED
  BY <1>1, <1>2 DEF GenerationInv

\* Every step keeps it: an increment moves on to a generation nobody has
\* filled, and a reset to 1 either does so too or meets one that was filled
\* after the write it announces (bump_..._generation).
THEOREM GenerationStepKeeps == GenerationInv /\ [GenerationNext]_generationVars => GenerationInv'
<1> SUFFICES ASSUME GenerationInv, [GenerationNext]_generationVars
             PROVE  GenerationInv'
  OBVIOUS
<1> USE DEF GenerationInv
<1>0. /\ data \in 0 .. MaxVersions /\ announced \in 0 .. data
      /\ counter \in Generations \cup {None} /\ None \notin Nat
      /\ entry \in [Generations -> 0 .. MaxVersions \cup {None}]
      /\ reader \in [Worker -> Reading] /\ writer \in [Worker -> WritingUpTo(data)]
      /\ unsettled \in BOOLEAN /\ cacheLosses \in Nat
      /\ Generation \in Generations
      /\ \A g \in Generations : g \in Nat
      /\ 1 \in Generations /\ 0 \in Generations
      /\ MaxVersions \in Nat /\ MaxBumps \in Nat
  BY GenerationShapes, Bounds DEF GenerationTypeOK, Generations
<1>1. ASSUME NEW w \in Worker, ReadGeneration(w)
      PROVE  GenerationInv'
  <2>1. PICK t \in Reading : t = [NoReader EXCEPT !.pc = "keyed", !.generation = Generation]
    BY <1>0, Idlers DEF NoReader, Reading
  <2>2. /\ reader' = [reader EXCEPT ![w] = t] /\ t.pc = "keyed" /\ t.generation = Generation
        /\ UNCHANGED <<space, data, counter, entry, writer, announced, unsettled, cacheLosses>>
    BY <1>1, <2>1 DEF ReadGeneration, NoReader
  <2>3. GenerationTypeOK'
    BY <1>0, <2>2, GenerationTypes
  <2>4. Generation' = Generation
    BY <2>2 DEF Generation
  <2>5. /\ reader'[w] = t
        /\ \A v \in Worker \ {w} : reader'[v] = reader[v]
    BY <1>0, <2>2
  <2>6. ASSUME NEW g \in Generations, NEW v, NewAs(g, v)
        PROVE  NewAs(g, v)'
    BY <2>2, <2>5, <2>6 DEF NewAs
  <2>7. ~unsettled' => Settled'
    BY <1>0, <2>2, <2>4, <2>5, <2>6 DEF Settled, AheadEmpty, ResetHarmless, NewAs
  <2> QED
    BY <2>3, <2>7
<1>2. ASSUME NEW w \in Worker, Compute(w)
      PROVE  GenerationInv'
  <2>1. PICK t \in Reading : t = [reader[w] EXCEPT !.pc = "computed", !.found = data]
    BY <1>0 DEF Reading
  <2>2. /\ reader' = [reader EXCEPT ![w] = t]
        /\ t.generation = reader[w].generation /\ t.found = data
        /\ UNCHANGED <<space, data, counter, entry, writer, announced, unsettled, cacheLosses>>
    BY <1>0, <1>2, <2>1 DEF Compute, Reading
  <2>3. GenerationTypeOK'
    BY <1>0, <2>2, GenerationTypes
  <2>4. Generation' = Generation
    BY <2>2 DEF Generation
  <2>5. /\ reader'[w] = t
        /\ \A v \in Worker \ {w} : reader'[v] = reader[v]
    BY <1>0, <2>2
  <2>6. ASSUME NEW g \in Generations, NEW v \in 0 .. data, NewAs(g, v)
        PROVE  NewAs(g, v)'
    BY <1>0, <2>2, <2>5, <2>6 DEF NewAs
  <2>7. \A v \in Worker : writer[v].version \in 0 .. data
    BY <1>0 DEF WritingUpTo
  <2>8. ~unsettled' => Settled'
    BY <1>0, <2>2, <2>4, <2>5, <2>6, <2>7 DEF Settled, AheadEmpty, ResetHarmless, NewAs
  <2> QED
    BY <2>3, <2>8
<1>3. ASSUME NEW w \in Worker, StoreEntry(w)
      PROVE  GenerationInv'
  <2>1. PICK t \in Reading : t = reader[w]
    BY <1>0
  <2>2. /\ t.pc = "computed" /\ reader[w] = t /\ reader' = [reader EXCEPT ![w] = NoReader]
        /\ entry' = [entry EXCEPT ![t.generation] = t.found]
        /\ UNCHANGED <<space, data, counter, writer, announced, unsettled, cacheLosses>>
    BY <1>3, <2>1 DEF StoreEntry
  <2>3. /\ t.generation \in Generations /\ t.found \in 0 .. MaxVersions
        /\ \A v \in Worker : reader'[v] \in {reader[v], NoReader}
    BY <1>0, <2>1, <2>2 DEF Reading
  <2>4. GenerationTypeOK'
    BY <1>0, <2>2, <2>3, Idlers, GenerationTypes
  <2>5. Generation' = Generation
    BY <2>2 DEF Generation
  <2>6. ASSUME NEW g \in Generations, NEW v, NewAs(g, v)
        PROVE  NewAs(g, v)'
    BY <1>0, <2>2, <2>3, <2>6, Idlers DEF NewAs
  <2>7. ~unsettled' => AheadEmpty'
    BY <1>0, <2>2, <2>3, <2>5, Idlers DEF Settled, AheadEmpty
  <2>8. ~unsettled' => NewAs(Generation, announced)' /\ ResetHarmless'
    BY <1>0, <2>2, <2>5, <2>6 DEF Settled, ResetHarmless, NewAs
  <2> QED
    BY <2>4, <2>7, <2>8 DEF Settled
<1>4. ASSUME NEW w \in Worker, Served(w)
      PROVE  GenerationInv'
  <2>1. /\ reader' = [reader EXCEPT ![w] = NoReader]
        /\ UNCHANGED <<space, data, counter, entry, writer, announced, unsettled, cacheLosses>>
    BY <1>4 DEF Served
  <2>2. GenerationTypeOK'
    BY <1>0, <2>1, Idlers, GenerationTypes
  <2> QED
    BY <1>0, <2>1, <2>2, Fewer
<1>5. ASSUME NEW w \in Worker, CommitFirst(w)
      PROVE  GenerationInv'
  <2>1. /\ data' = data + 1 /\ data' \in 0 .. MaxVersions /\ announced' \in 0 .. data'
        /\ UNCHANGED <<space, counter, entry, reader, announced, unsettled, cacheLosses>>
    BY <1>0, <1>5 DEF CommitFirst
  <2>00. data' \in Nat /\ data + 1 \in 0 .. data'
    BY <1>0, <2>1
  <2>2. PICK t \in WritingUpTo(data') : t = [pc |-> "bump", kind |-> "late", version |-> data + 1]
    BY <2>00, NewWriters
  <2>3. writer' = [writer EXCEPT ![w] = t] /\ t.pc = "bump"
    BY <1>5, <2>2 DEF CommitFirst
  <2>4. writer' \in [Worker -> WritingUpTo(data')]
    BY <1>0, <2>1, <2>3 DEF WritingUpTo
  <2>5. GenerationTypeOK'
    BY <1>0, <2>1, <2>4, GenerationTypes
  <2> QED
    BY <1>0, <2>1, <2>3, <2>5, Fewer
<1>6. ASSUME NEW w \in Worker, BeginWrite(w)
      PROVE  GenerationInv'
  <2>0. 0 \in 0 .. data /\ data \in Nat
    BY <1>0
  <2>1. PICK t \in WritingUpTo(data) : t = [NoWriter EXCEPT !.pc = "bump", !.kind = "early"]
    BY <2>0, NewWriters
  <2>2. /\ writer' = [writer EXCEPT ![w] = t] /\ t.pc = "bump"
        /\ UNCHANGED <<space, data, counter, entry, reader, announced, unsettled, cacheLosses>>
    BY <2>0, <1>6, <2>1, NewWriters DEF BeginWrite
  <2>3. GenerationTypeOK'
    BY <1>0, <2>2, GenerationTypes
  <2> QED
    BY <1>0, <2>2, <2>3, Fewer
<1>7. ASSUME NEW w \in Worker, BumpGeneration(w)
      PROVE  GenerationInv'
  <2>0. \A v \in Worker : writer[v].version \in 0 .. data
    BY <1>0 DEF WritingUpTo
  <2>00. data \in Nat /\ writer[w] \in WritingUpTo(data)
    BY <1>0
  <2>1. CASE counter # None
    <3>1. /\ counter \in Nat /\ counter < MaxBumps /\ counter' = counter + 1 /\ Bumped(w)
          /\ UNCHANGED <<space, data, entry, reader, unsettled, cacheLosses>>
      BY <1>0, <1>7, <2>1 DEF BumpGeneration
    <3>2. announced' \in 0 .. data' /\ counter' \in Generations
      BY <1>0, <2>0, <3>1 DEF Bumped, Generations
    <3>3. PICK t \in WritingUpTo(data) :
            t = IF writer[w].kind = "early" THEN [writer[w] EXCEPT !.pc = "commit"] ELSE NoWriter
      BY <2>00, IdleWriter, WriterMoves
    <3>4. writer' = [writer EXCEPT ![w] = t] /\ t.pc # "reset"
      BY <2>00, <3>1, <3>3, IdleWriter, WriterMoves DEF Bumped
    <3>5. GenerationTypeOK'
      BY <1>0, <3>1, <3>2, <3>4, GenerationTypes
    <3>6. Generation = counter /\ Generation' = counter + 1
      BY <1>0, <2>1, <3>1, <3>2 DEF Generation
    <3>7. ASSUME ~unsettled'
          PROVE  /\ entry[counter + 1] = None
                 /\ \A g \in Generations : g > counter + 1 => entry[g] = None
                 /\ \A v \in Worker : reader[v].generation < counter + 1
      <4>1. /\ \A g \in Generations : g \in Nat /\ (g > counter => entry[g] = None)
            /\ \A v \in Worker : reader[v].generation <= counter
            /\ counter + 1 \in Generations
        BY <1>0, <3>1, <3>2, <3>6, <3>7 DEF Settled, AheadEmpty
      <4>2. \A v \in Worker : reader[v].generation \in Nat
        BY <1>0 DEF Reading
      <4> QED
        BY <3>1, <4>1, <4>2
    <3>8. ASSUME ~unsettled'
          PROVE  AheadEmpty' /\ NewAs(Generation, announced)' /\ ResetHarmless'
      <4>1. \A v \in Worker : reader[v].generation \in Nat
        BY <1>0 DEF Reading
      <4>2. AheadEmpty'
        BY <3>1, <3>6, <3>7, <3>8, <4>1 DEF AheadEmpty
      <4>3. ASSUME NEW g, NEW v, g = counter + 1
            PROVE  NewAs(g, v)'
        BY <3>1, <3>7, <3>8, <4>1, <4>3 DEF NewAs
      <4>4. NewAs(Generation, announced)'
        BY <3>1, <3>6, <3>7, <3>8, <4>1 DEF NewAs
      <4>5. ResetHarmless'
        BY <3>1, <3>6, <4>3 DEF ResetHarmless, NewAs
      <4> QED
        BY <4>2, <4>4, <4>5
    <3>9. ~unsettled' => Settled'
      BY <3>8 DEF Settled
    <3> QED
      BY <3>5, <3>9
  <2>2. CASE counter = None
    <3>1. PICK t \in WritingUpTo(data) : t = [writer[w] EXCEPT !.pc = "reset"]
      BY <2>00, WriterMoves
    <3>2. /\ writer' = [writer EXCEPT ![w] = t]
          /\ UNCHANGED <<space, data, counter, entry, reader, announced, unsettled, cacheLosses>>
      BY <1>7, <2>2, <3>1 DEF BumpGeneration
    <3>3. GenerationTypeOK'
      BY <1>0, <3>2, GenerationTypes
    <3>4. Generation' = Generation /\ counter' # 1
      BY <1>0, <2>2, <3>2 DEF Generation
    <3>5. ~unsettled' => Settled'
      BY <3>2, <3>4 DEF Settled, AheadEmpty, NewAs, ResetHarmless
    <3> QED
      BY <3>3, <3>5
  <2> QED
    BY <2>1, <2>2
<1>8. ASSUME NEW w \in Worker, ResetGeneration(w)
      PROVE  GenerationInv'
  <2>0. \A v \in Worker : writer[v].version \in 0 .. data
    BY <1>0 DEF WritingUpTo
  <2>00. data \in Nat /\ writer[w] \in WritingUpTo(data)
    BY <1>0
  <2>1. /\ counter' = 1 /\ Bumped(w) /\ writer[w].pc = "reset"
        /\ UNCHANGED <<space, data, entry, reader, cacheLosses>>
    BY <1>8 DEF ResetGeneration
  <2>2. unsettled' \in BOOLEAN /\ (~unsettled' => ~unsettled /\ (counter = None \/ counter = 1))
    BY <1>8, Zenon DEF ResetGeneration
  <2>3. announced' \in 0 .. data' /\ announced' \in {announced, writer[w].version}
    BY <1>0, <2>0, <2>1 DEF Bumped
  <2>4. PICK t \in WritingUpTo(data) :
          t = IF writer[w].kind = "early" THEN [writer[w] EXCEPT !.pc = "commit"] ELSE NoWriter
    BY <2>00, IdleWriter, WriterMoves
  <2>5. writer' = [writer EXCEPT ![w] = t] /\ t.pc # "reset"
    BY <2>00, <2>1, <2>4, IdleWriter, WriterMoves DEF Bumped
  <2>6. GenerationTypeOK'
    BY <1>0, <2>1, <2>2, <2>3, <2>5, GenerationTypes
  <2>7. Generation' = 1
    BY <1>0, <2>1 DEF Generation
  <2>8. CASE counter = None
    <3>1. Generation = 0
      BY <2>8 DEF Generation
    <3>2. ASSUME ~unsettled'
          PROVE  AheadEmpty' /\ \A v : NewAs(1, v)'
      <4>1. /\ \A g \in Generations : g \in Nat /\ (g > 0 => entry[g] = None)
            /\ \A v \in Worker : reader[v].generation <= 0
        BY <1>0, <2>2, <3>1, <3>2 DEF Settled, AheadEmpty
      <4>2. \A v \in Worker : reader[v].generation \in Nat
        BY <1>0 DEF Reading
      <4> QED
        BY <1>0, <2>1, <2>7, <4>1, <4>2 DEF AheadEmpty, NewAs
    <3>3. ~unsettled' => Settled'
      BY <2>1, <2>7, <3>2 DEF Settled, ResetHarmless, NewAs
    <3> QED
      BY <2>6, <3>3
  <2>9. CASE counter = 1
    <3>1. Generation = 1
      BY <1>0, <2>9 DEF Generation
    <3>2. ASSUME ~unsettled' PROVE AheadEmpty'
      BY <1>0, <2>1, <2>2, <2>7, <3>1, <3>2 DEF Settled, AheadEmpty
    <3>3. ASSUME ~unsettled' PROVE NewAs(Generation, announced)'
      BY <1>0, <2>1, <2>2, <2>3, <2>7, <2>9, <3>1, <3>3 DEF Settled, NewAs, ResetHarmless
    <3>4. ASSUME ~unsettled' PROVE ResetHarmless'
      BY <1>0, <2>1, <2>2, <2>5, <2>9, <3>4 DEF Settled, NewAs, ResetHarmless
    <3> QED
      BY <2>6, <3>2, <3>3, <3>4 DEF Settled
  <2> QED
    BY <2>2, <2>6, <2>8, <2>9
<1>9. ASSUME NEW w \in Worker, CommitEarly(w)
      PROVE  GenerationInv'
  <2>1. /\ data' = data + 1 /\ data' \in 0 .. MaxVersions /\ announced' \in 0 .. data'
        /\ writer' = [writer EXCEPT ![w] = NoWriter]
        /\ UNCHANGED <<space, counter, entry, reader, announced, unsettled, cacheLosses>>
    BY <1>0, <1>9 DEF CommitEarly
  <2>2. writer' \in [Worker -> WritingUpTo(data')]
    BY <1>0, <2>1, IdleWriter DEF WritingUpTo
  <2>3. GenerationTypeOK'
    BY <1>0, <2>1, <2>2, GenerationTypes
  <2> QED
    BY <1>0, <2>1, <2>3, IdleWriter, Fewer
<1>10. ASSUME NEW w \in Worker, WriterDies(w)
       PROVE  GenerationInv'
  <2>1. /\ cacheLosses' \in Nat /\ writer' = [writer EXCEPT ![w] = NoWriter]
        /\ UNCHANGED <<space, data, counter, entry, reader, announced, unsettled>>
    BY <1>0, <1>10 DEF WriterDies
  <2>2. GenerationTypeOK'
    BY <1>0, <2>1, IdleWriter, GenerationTypes
  <2> QED
    BY <1>0, <2>1, <2>2, IdleWriter, Fewer
<1>11. CASE SilentWrite
  <2>1. /\ data' = data + 1 /\ data' \in 0 .. MaxVersions /\ announced' \in 0 .. data'
        /\ UNCHANGED <<space, counter, entry, reader, writer, announced, unsettled, cacheLosses>>
    BY <1>0, <1>11 DEF SilentWrite
  <2>2. writer' \in [Worker -> WritingUpTo(data')]
    BY <1>0, <2>1 DEF WritingUpTo
  <2>3. GenerationTypeOK'
    BY <1>0, <2>1, <2>2, GenerationTypes
  <2> QED
    BY <1>0, <2>1, <2>3, Fewer
<1>12. CASE ExpireEntry
  <2>1. PICK g \in Generations :
          /\ entry' = [entry EXCEPT ![g] = None]
          /\ UNCHANGED <<space, data, counter, reader, writer, announced, unsettled, cacheLosses>>
    BY <1>12 DEF ExpireEntry
  <2>2. GenerationTypeOK'
    BY <1>0, <2>1, GenerationTypes
  <2> QED
    BY <1>0, <2>1, <2>2, Fewer
<1>13. CASE ExpireCounter
  <2>1. /\ counter' = None /\ unsettled' = TRUE /\ cacheLosses' \in Nat
        /\ UNCHANGED <<space, data, entry, reader, writer, announced>>
    BY <1>0, <1>13 DEF ExpireCounter
  <2>2. GenerationTypeOK'
    BY <1>0, <2>1, GenerationTypes
  <2> QED
    BY <2>1, <2>2
<1>14. CASE RestartCache
  <2>1. /\ counter' = None /\ entry' = [g \in Generations |-> None] /\ cacheLosses' \in Nat
        /\ UNCHANGED <<space, data, reader, writer, announced>>
    BY <1>0, <1>14 DEF RestartCache
  <2>2. unsettled' \in BOOLEAN /\ (~unsettled' => \A w \in Worker : reader[w] = NoReader)
    BY <1>14, Zenon DEF RestartCache
  <2>3. GenerationTypeOK'
    BY <1>0, <2>1, <2>2, GenerationTypes
  <2>4. Generation' = 0 /\ counter' # 1
    BY <1>0, <2>1 DEF Generation
  <2>5. ~unsettled' => Settled'
    BY <1>0, <2>1, <2>2, <2>4, Idlers DEF Settled, AheadEmpty, NewAs, ResetHarmless
  <2> QED
    BY <2>3, <2>5
<1>15. CASE UNCHANGED generationVars
  BY <1>15 DEF generationVars, GenerationTypeOK, Settled, AheadEmpty, NewAs, ResetHarmless,
               Generation
<1> QED
  BY <1>1, <1>2, <1>3, <1>4, <1>5, <1>6, <1>7, <1>8, <1>9, <1>10, <1>11, <1>12, <1>13, <1>14,
     <1>15 DEF GenerationNext
-----------------------------------------------------------------------------
\* A request that reads the generation after a write has incremented it finds
\* no entry from before the write, until the counter is lost or set back.
THEOREM FreshAfterBump == GenerationSpec => []FreshOnceBumped
<1>1. GenerationInv => FreshOnceBumped
  BY DEF GenerationInv, Settled, NewAs, FreshOnceBumped
<1> QED
  BY <1>1, GenerationInvStarts, GenerationStepKeeps, PTL DEF GenerationSpec
-----------------------------------------------------------------------------
\* What is stored, and what a request has computed, was committed.
Committed ==
    /\ \A g \in Generations : entry[g] # None => entry[g] <= data
    /\ \A w \in Worker : reader[w].found <= data

PagesInv == GenerationInv /\ Committed

\* Nothing comes from ahead: data only grows, a request computes from the data of
\* now, and an entry is what a request has computed.
LEMMA CommittedKept ==
    ASSUME GenerationInv, GenerationInv', Committed, [GenerationNext]_generationVars
    PROVE  Committed'
<1>0. /\ data \in Nat /\ data' \in Nat /\ MaxVersions \in Nat
      /\ entry \in [Generations -> 0 .. MaxVersions \cup {None}] /\ None \notin Nat
      /\ reader \in [Worker -> Reading]
      /\ \A w \in Worker : reader[w].found \in Nat
      /\ \A g \in Generations : entry[g] # None => entry[g] \in Nat
  <2>1. /\ data \in 0 .. MaxVersions /\ data' \in 0 .. MaxVersions
        /\ entry \in [Generations -> 0 .. MaxVersions \cup {None}] /\ None \notin Nat
        /\ reader \in [Worker -> Reading]
    BY GenerationShapes DEF GenerationInv, GenerationTypeOK
  <2> QED
    BY <2>1, Bounds DEF Reading
<1>1. data' = data \/ data' = data + 1
  BY DEF GenerationNext, generationVars, ReadGeneration, Compute, StoreEntry, Served, CommitFirst,
         BeginWrite, BumpGeneration, ResetGeneration, CommitEarly, WriterDies, SilentWrite,
         ExpireEntry, ExpireCounter, RestartCache
<1>2. \A w \in Worker : reader'[w].found \in {reader[w].found, data, 0}
  <2>1. ASSUME NEW w \in Worker,
               ReadGeneration(w) \/ Compute(w) \/ StoreEntry(w) \/ Served(w)
        PROVE  \A v \in Worker : reader'[v].found \in {reader[v].found, data, 0}
    <3>1. NoReader.found = 0 /\ NoReader \in Reading
      BY Idlers DEF NoReader
    <3>2. CASE StoreEntry(w) \/ Served(w)
      BY <1>0, <3>1, <3>2 DEF StoreEntry, Served
    <3>3. CASE ReadGeneration(w)
      <4>1. PICK t : t = [NoReader EXCEPT !.pc = "keyed", !.generation = Generation]
        OBVIOUS
      <4>2. t.found = 0 /\ reader' = [reader EXCEPT ![w] = t]
        BY <3>3, <4>1 DEF ReadGeneration, NoReader
      <4> QED
        BY <1>0, <4>2
    <3>4. CASE Compute(w)
      <4>1. PICK t : t = [reader[w] EXCEPT !.pc = "computed", !.found = data]
        OBVIOUS
      <4>2. t.found = data /\ reader' = [reader EXCEPT ![w] = t]
        BY <1>0, <3>4, <4>1 DEF Compute, Reading
      <4> QED
        BY <1>0, <4>2
    <3> QED
      BY <2>1, <3>2, <3>3, <3>4
  <2>2. CASE UNCHANGED reader
    BY <2>2
  <2> QED
    BY <2>1, <2>2
       DEF GenerationNext, generationVars, CommitFirst, BeginWrite, BumpGeneration,
           ResetGeneration, CommitEarly, WriterDies, SilentWrite, ExpireEntry, ExpireCounter,
           RestartCache
<1>3. ASSUME NEW g \in Generations, entry'[g] # None
      PROVE  entry'[g] = entry[g] \/ \E w \in Worker : entry'[g] = reader[w].found
  <2>1. ASSUME NEW w \in Worker, StoreEntry(w)
        PROVE  entry'[g] = entry[g] \/ entry'[g] = reader[w].found
    BY <1>0, <2>1 DEF StoreEntry
  <2>2. CASE ExpireEntry
    BY <1>0, <1>3, <2>2 DEF ExpireEntry
  <2>3. CASE RestartCache
    BY <1>3, <2>3 DEF RestartCache
  <2>4. CASE UNCHANGED entry
    BY <2>4
  <2> QED
    BY <2>1, <2>2, <2>3, <2>4
       DEF GenerationNext, generationVars, ReadGeneration, Compute, Served, CommitFirst,
           BeginWrite, BumpGeneration, ResetGeneration, CommitEarly, WriterDies, SilentWrite,
           ExpireCounter
<1>4. \A w \in Worker : reader'[w].found <= data'
  BY <1>0, <1>1, <1>2 DEF Committed
<1>5. \A g \in Generations : entry'[g] # None => entry'[g] <= data'
  BY <1>0, <1>1, <1>3 DEF Committed
<1> QED
  BY <1>4, <1>5 DEF Committed

\* A step that leaves data, counter and entries alone is none of the cache.
LEMMA PagesAside ==
    ASSUME UNCHANGED <<data, announced, counter, entry, unsettled>>
    PROVE  UNCHANGED Pages!vars
  BY DEF Pages!vars, ServedPages, Generation

\* A request stores what it has computed: under the generation of now it is new
\* enough, under another nobody will find it.
LEMMA PageStored ==
    ASSUME PagesInv, Settled, NEW w \in Worker, StoreEntry(w), ~unsettled
    PROVE  [Pages!Next]_(Pages!vars)
<1>0. /\ data \in Nat /\ announced \in 0 .. data /\ None \notin Nat
      /\ entry \in [Generations -> 0 .. MaxVersions \cup {None}]
      /\ reader[w] \in Reading /\ Generation \in Generations
  BY GenerationShapes, Bounds DEF PagesInv, GenerationInv
<1>1. PICK t : t = reader[w]
  OBVIOUS
<1>2. /\ t.pc = "computed" /\ entry' = [entry EXCEPT ![t.generation] = t.found]
      /\ UNCHANGED <<data, counter, announced, unsettled>> /\ Generation' = Generation
  BY <1>1 DEF StoreEntry, Generation
<1>3. t.generation \in Generations /\ t.found \in Nat /\ t.found <= data
  BY <1>0, <1>1, Bounds DEF Reading, PagesInv, Committed
<1>4. CASE t.generation = Generation
  <2>1. t.found \in announced .. data
    BY <1>0, <1>1, <1>2, <1>3, <1>4 DEF Settled, NewAs
  <2>2. entry'[Generation'] = t.found /\ t.found # None
    BY <1>0, <1>2, <1>3, <1>4
  <2>3. ServedPages' = {t.found}
    BY <2>2 DEF ServedPages
  <2> QED
    BY <1>2, <2>1, <2>3 DEF Pages!Next, Pages!Fill
<1>5. CASE t.generation # Generation
  <2>1. entry'[Generation'] = entry[Generation]
    BY <1>0, <1>2, <1>5
  <2>2. ServedPages' = ServedPages
    BY <2>1 DEF ServedPages
  <2> QED
    BY <1>2, <2>2 DEF Pages!vars
<1> QED
  BY <1>4, <1>5

\* A write has incremented the counter, or set it to 1: it announces itself.
LEMMA PageAnnounced ==
    ASSUME PagesInv, GenerationInv', Settled, ~unsettled, ~unsettled', NEW w \in Worker, Bumped(w),
           UNCHANGED <<data, entry>>, unsettled' = unsettled,
           \/ counter # None /\ counter' = counter + 1
           \/ counter \in {None, 1} /\ counter' = 1
    PROVE  [Pages!Next]_(Pages!vars)
<1>0. /\ data \in Nat /\ announced \in 0 .. data /\ None \notin Nat
      /\ entry \in [Generations -> 0 .. MaxVersions \cup {None}]
      /\ writer[w] \in WritingUpTo(data) /\ counter \in Generations \cup {None}
      /\ counter' \in Generations \cup {None} /\ \A g \in Generations : g \in Nat
      /\ Generation \in Generations
  BY GenerationShapes, Bounds DEF PagesInv, GenerationInv, GenerationTypeOK
<1>1. announced' \in announced .. data
  BY <1>0 DEF Bumped, WritingUpTo
<1>2. \/ Generation' = Generation
      \/ Generation' \in Generations /\ Generation' > Generation
  <2>1. CASE counter = None
    BY <1>0, <2>1 DEF Generation
  <2>2. CASE counter # None /\ counter' = counter + 1
    <3>1. counter \in Nat /\ counter' # None /\ counter' > counter
      BY <1>0, <2>2
    <3> QED
      BY <1>0, <2>2, <3>1 DEF Generation
  <2>3. CASE counter = 1 /\ counter' = 1
    BY <1>0, <2>3 DEF Generation
  <2> QED
    BY <2>1, <2>2, <2>3
<1>3. ServedPages' \subseteq ServedPages
  <2>1. entry[Generation'] = None \/ Generation' = Generation
    BY <1>2 DEF Settled, AheadEmpty
  <2> QED
    BY <2>1 DEF ServedPages
<1>4. \A v \in ServedPages' : announced' <= v
  BY DEF GenerationInv, Settled, NewAs, ServedPages
<1> QED
  BY <1>1, <1>3, <1>4 DEF Pages!Next, Pages!Announce

\* The data changes and no counter does.
LEMMA PageBehind ==
    ASSUME data' = data + 1, UNCHANGED <<announced, counter, entry, unsettled>>, ~unsettled
    PROVE  [Pages!Next]_(Pages!vars)
<1>1. ServedPages' = ServedPages
  BY DEF ServedPages, Generation
<1> QED
  BY <1>1 DEF Pages!Next, Pages!Change

\* Every step is one of the read-through cache, or none.
LEMMA PagesStep ==
    ASSUME PagesInv, [GenerationNext]_generationVars
    PROVE  [Pages!Next]_(Pages!vars)
<1>0. /\ unsettled \in BOOLEAN /\ unsettled' \in BOOLEAN /\ GenerationInv'
      /\ Generation \in Generations /\ counter \in Generations \cup {None} /\ None \notin Nat
      /\ entry \in [Generations -> 0 .. MaxVersions \cup {None}]
  BY GenerationStepKeeps, GenerationShapes DEF PagesInv, GenerationInv, GenerationTypeOK
<1>1. CASE unsettled'
  <2>1. unsettled' = TRUE
    BY <1>0, <1>1, Zenon
  <2> QED
    BY <2>1 DEF Pages!Next, Pages!Break
<1>2. CASE ~unsettled'
  <2>1. ~unsettled
    <3>1. unsettled' = unsettled \/ unsettled' = TRUE
          \/ unsettled' = (unsettled \/ (counter # None /\ counter # 1))
          \/ unsettled' = (unsettled \/ \E w \in Worker : reader[w] # NoReader)
      BY Zenon DEF GenerationNext, generationVars, ReadGeneration, Compute, StoreEntry, Served,
         CommitFirst, BeginWrite, BumpGeneration, ResetGeneration, CommitEarly, WriterDies,
         SilentWrite, ExpireEntry, ExpireCounter, RestartCache
    <3> QED
      BY <1>2, <3>1, Zenon
  <2>2. unsettled' = unsettled
    BY <1>0, <1>2, <2>1, Zenon
  <2>3. Settled
    BY <2>1 DEF PagesInv, GenerationInv
  <2>4. ASSUME UNCHANGED <<data, announced, counter, entry>>
        PROVE  [Pages!Next]_(Pages!vars)
    BY <2>2, <2>4, PagesAside
  <2>5. ASSUME NEW w \in Worker,
               ReadGeneration(w) \/ Compute(w) \/ Served(w) \/ BeginWrite(w) \/ WriterDies(w)
        PROVE  [Pages!Next]_(Pages!vars)
    BY <2>4, <2>5 DEF ReadGeneration, Compute, Served, BeginWrite, WriterDies
  <2>6. ASSUME NEW w \in Worker, StoreEntry(w)
        PROVE  [Pages!Next]_(Pages!vars)
    BY <2>1, <2>3, <2>6, PageStored
  <2>7. ASSUME NEW w \in Worker, CommitFirst(w) \/ CommitEarly(w)
        PROVE  [Pages!Next]_(Pages!vars)
    BY <2>1, <2>2, <2>7, PageBehind DEF CommitFirst, CommitEarly
  <2>8. CASE SilentWrite
    BY <2>1, <2>2, <2>8, PageBehind DEF SilentWrite
  <2>9. ASSUME NEW w \in Worker, BumpGeneration(w)
        PROVE  [Pages!Next]_(Pages!vars)
    <3>1. CASE counter = None
      BY <2>4, <2>9, <3>1 DEF BumpGeneration
    <3>2. CASE counter # None
      <4>1. counter' = counter + 1 /\ Bumped(w) /\ UNCHANGED <<data, entry>>
        BY <2>9, <3>2 DEF BumpGeneration
      <4> QED
        BY <1>0, <1>2, <2>1, <2>2, <2>3, <3>2, <4>1, PageAnnounced
    <3> QED
      BY <3>1, <3>2
  <2>10. ASSUME NEW w \in Worker, ResetGeneration(w)
         PROVE  [Pages!Next]_(Pages!vars)
    <3>1. counter' = 1 /\ Bumped(w) /\ UNCHANGED <<data, entry>>
      BY <2>10 DEF ResetGeneration
    <3>2. counter \in {None, 1}
      BY <1>2, <2>10, Zenon DEF ResetGeneration
    <3> QED
      BY <1>0, <1>2, <2>1, <2>2, <2>3, <3>1, <3>2, PageAnnounced
  <2>11. CASE ExpireEntry
    <3>1. PICK g \in Generations : entry' = [entry EXCEPT ![g] = None]
      BY <2>11 DEF ExpireEntry
    <3>2. Generation' = Generation /\ UNCHANGED <<data, announced>>
      BY <2>11 DEF ExpireEntry, Generation
    <3>3. CASE g = Generation
      <4>1. ServedPages' = {}
        BY <1>0, <3>1, <3>2, <3>3 DEF ServedPages
      <4> QED
        BY <2>1, <2>2, <3>2, <4>1 DEF Pages!Next, Pages!Drop
    <3>4. CASE g # Generation
      <4>1. ServedPages' = ServedPages
        BY <1>0, <3>1, <3>2, <3>4 DEF ServedPages
      <4> QED
        BY <2>2, <3>2, <4>1 DEF Pages!vars
    <3> QED
      BY <3>3, <3>4
  <2>12. CASE ExpireCounter
    BY <1>2, <2>12 DEF ExpireCounter
  <2>13. CASE RestartCache
    <3>1. Generation' \in Generations /\ entry' = [g \in Generations |-> None]
          /\ UNCHANGED <<data, announced>>
      BY <1>0, <2>13, GenerationShapes, Bounds DEF RestartCache, PagesInv, GenerationInv,
         GenerationTypeOK, Generation, Generations
    <3>2. ServedPages' = {}
      BY <3>1 DEF ServedPages
    <3> QED
      BY <2>1, <2>2, <3>1, <3>2 DEF Pages!Next, Pages!Drop
  <2>14. CASE UNCHANGED generationVars
    BY <2>4, <2>14 DEF generationVars
  <2> QED
    BY <2>5, <2>6, <2>7, <2>8, <2>9, <2>10, <2>11, <2>12, <2>13, <2>14 DEF GenerationNext
<1> QED
  BY <1>1, <1>2

\* Whatever is read, written, announced and lost, the pages of a namespace are a
\* read-through cache (apps/catalog/cache.py, apps/content/cache.py).
THEOREM PagesAreReadThrough == GenerationSpec => PagesReadThrough
<1>1. GenerationInit => Pages!Init /\ Committed
  <2> SUFFICES ASSUME GenerationInit PROVE Pages!Init /\ Committed
    OBVIOUS
  <2>1. Generation \in Generations /\ 0 \in Generations
    BY GenerationInvStarts, GenerationShapes, Bounds DEF GenerationInv, Generations
  <2>2. entry[Generation] = None /\ \A w \in Worker : reader[w].found = 0
    BY <2>1 DEF GenerationInit, NoReader
  <2> QED
    BY <2>2 DEF GenerationInit, Pages!Init, ServedPages, Committed
<1>2. PagesInv /\ [GenerationNext]_generationVars => PagesInv'
  BY GenerationStepKeeps, CommittedKept DEF PagesInv
<1>3. PagesInv /\ [GenerationNext]_generationVars => [Pages!Next]_(Pages!vars)
  BY PagesStep
<1>4. GenerationInit => PagesInv
  BY <1>1, GenerationInvStarts DEF PagesInv
<1> QED
  BY <1>1, <1>2, <1>3, <1>4, PTL DEF GenerationSpec, PagesReadThrough, Pages!Spec

-----------------------------------------------------------------------------
(***************************************************************************)
(* The site configuration and its two entries.                             *)
(***************************************************************************)
VisitRecord == [pc : Editing \cup {"idle", "loaded", "flag"}, row : ConfigRow, column : Column,
                edit : Nat]

\* The entries are those of the row.
EntriesMatch == configEntry \in {None, config} /\ flagEntry \in {None, config[Flag]}

\* What a request knows as long as no edit overlapped another: the row it has in
\* hand is the current one until it saves, and what it dropped stays dropped.
VisitorKnows(v) ==
    /\ v.pc \in {"loaded", "flag", "editing", "inAdmin", "flagDropped", "allDropped"} =>
           v.row = config
    /\ v.pc \in {"dropped", "flagDropped", "allDropped"} => flagEntry = None
    /\ v.pc = "allDropped" => configEntry = None

EditsAlone ==
    \A u, w \in Worker : visitor[u].pc \in Editing /\ visitor[w] # NoVisit => u = w

\* Only between the save and the drops may an entry be behind the row.
BehindOnlyMidway == (\A w \in Worker : visitor[w].pc \notin {"saved", "dropped"}) => EntriesMatch

NoneOverlapped ==
    /\ config = lastEdit /\ EditsAlone /\ BehindOnlyMidway
    /\ \A w \in Worker : VisitorKnows(visitor[w])

SettingsInv == SettingsTypeOK /\ (~settingsRaced => NoneOverlapped)
-----------------------------------------------------------------------------
\* The types of the variables, by the record of a request.
LEMMA SettingsShapes ==
    SettingsTypeOK <=>
        /\ config \in ConfigRow /\ lastEdit \in ConfigRow /\ edits \in 0 .. MaxEdits
        /\ configEntry = None \/ configEntry \in ConfigRow
        /\ flagEntry \in Nat \cup {None}
        /\ visitor \in [Worker -> VisitRecord]
        /\ settingsRaced \in BOOLEAN /\ configCrashes \in Nat
  BY Zenon DEF SettingsTypeOK, VisitRecord

\* An idle slot's record.
LEMMA IdleVisit == NoVisit \in VisitRecord /\ NoVisit.pc = "idle" /\ "idle" \notin Editing
  BY SettingsAssumption DEF NoVisit, VisitRecord, Fresh0, ConfigRow, Editing

\* The entries are empty and nobody visits at the start.
LEMMA SettingsStart == SettingsInit => SettingsInv
<1> SUFFICES ASSUME SettingsInit PROVE SettingsInv
  OBVIOUS
<1>1. /\ config = Fresh0 /\ lastEdit = Fresh0 /\ edits = 0 /\ configCrashes = 0
      /\ configEntry = None /\ flagEntry = None /\ visitor = [w \in Worker |-> NoVisit]
  BY DEF SettingsInit
<1>2. settingsRaced \in BOOLEAN
  BY Zenon DEF SettingsInit
<1>3. Fresh0 \in ConfigRow
  BY DEF Fresh0, ConfigRow
<1>4. SettingsTypeOK
  BY <1>1, <1>2, <1>3, IdleVisit, SettingsAssumption, SettingsShapes
<1>5. NoneOverlapped
  BY <1>1, IdleVisit DEF NoneOverlapped, EditsAlone, BehindOnlyMidway, EntriesMatch, VisitorKnows
<1> QED
  BY <1>4, <1>5 DEF SettingsInv

\* A request begins: an edit that no other request is under way with, or a reader
\* that no edit is.
LEMMA VisitKeeps ==
    ASSUME SettingsInv, NEW w \in Worker, NEW v \in VisitRecord, Visit(w, v),
           v.pc \in {"loaded", "flag", "editing", "inAdmin"},
           UNCHANGED <<config, lastEdit, configCrashes>>, edits' \in 0 .. MaxEdits,
           UNCHANGED flagEntry, configEntry' = None \/ configEntry' \in ConfigRow,
           ~settingsRaced /\ (\A u \in Worker : visitor[u].pc \notin {"saved", "dropped"}) =>
               v.row = config /\ configEntry' \in {None, config},
           v.pc \in {"loaded", "flag"} => UNCHANGED configEntry
    PROVE  SettingsInv'
<1>0. /\ visitor \in [Worker -> VisitRecord] /\ visitor[w] = NoVisit
      /\ visitor' = [visitor EXCEPT ![w] = v]
      /\ settingsRaced' = (settingsRaced \/ \E u \in {u \in Worker : visitor[u] # NoVisit} :
                                              {v.pc, visitor[u].pc} \cap Editing # {})
  BY SettingsShapes DEF SettingsInv, Visit
<1>1. visitor'[w] = v /\ \A u \in Worker \ {w} : visitor'[u] = visitor[u]
  BY <1>0
<1>2. settingsRaced' \in BOOLEAN
  BY <1>0, SettingsShapes, Zenon DEF SettingsInv
<1>3. SettingsTypeOK'
  BY <1>0, <1>2, SettingsShapes DEF SettingsInv, SettingsTypeOK, VisitRecord
<1>4. ASSUME ~settingsRaced' PROVE NoneOverlapped'
  <2>1. /\ ~settingsRaced
        /\ \A u \in Worker : visitor[u] # NoVisit => {v.pc, visitor[u].pc} \cap Editing = {}
    BY <1>0, <1>4, Zenon
  <2>2. NoneOverlapped
    BY <2>1 DEF SettingsInv
  <2>3. \A u \in Worker : visitor[u].pc \notin Editing
    BY <2>1, IdleVisit
  <2>4. EditsAlone'
    <3>1. CASE v.pc \in Editing
      <4>1. \A u \in Worker : visitor[u] = NoVisit
        BY <2>1, <3>1
      <4> QED
        BY <1>1, <4>1, IdleVisit DEF EditsAlone
    <3>2. CASE v.pc \notin Editing
      BY <1>1, <2>3, <3>2 DEF EditsAlone
    <3> QED
      BY <3>1, <3>2
  <2>5. \A u \in Worker : visitor[u].pc \notin {"saved", "dropped"}
    BY <2>3 DEF Editing
  <2>6. EntriesMatch'
    BY <2>1, <2>2, <2>5 DEF NoneOverlapped, BehindOnlyMidway, EntriesMatch
  <2>7. ASSUME NEW u \in Worker PROVE VisitorKnows(visitor[u])'
    <3>1. CASE u = w
      BY <1>1, <2>1, <2>5, <3>1 DEF VisitorKnows
    <3>2. CASE u # w
      <4>1. VisitorKnows(visitor[u]) /\ visitor[u].pc # "allDropped"
        BY <2>2, <2>3 DEF NoneOverlapped, Editing
      <4> QED
        BY <1>1, <3>2, <4>1 DEF VisitorKnows
    <3> QED
      BY <3>1, <3>2
  <2>8. config' = lastEdit'
    BY <2>2 DEF NoneOverlapped
  <2> QED
    BY <2>4, <2>6, <2>7, <2>8 DEF NoneOverlapped, BehindOnlyMidway
<1> QED
  BY <1>3, <1>4 DEF SettingsInv

\* A reader ends: it leaves entries that are those of the row, if it had the row.
LEMMA ReaderEnds ==
    ASSUME SettingsInv, NEW w \in Worker, visitor[w].pc \in {"loaded", "flag"},
           visitor' = [visitor EXCEPT ![w] = NoVisit], settingsRaced' = settingsRaced,
           UNCHANGED <<config, lastEdit, edits>>, configCrashes' \in Nat,
           configEntry' = None \/ configEntry' \in ConfigRow, flagEntry' \in Nat \cup {None},
           configEntry' \in {configEntry, visitor[w].row},
           flagEntry' \in {flagEntry, visitor[w].row[Flag]}
    PROVE  SettingsInv'
<1>0. visitor \in [Worker -> VisitRecord]
  BY SettingsShapes DEF SettingsInv
<1>1. visitor'[w] = NoVisit /\ \A u \in Worker \ {w} : visitor'[u] = visitor[u]
  BY <1>0
<1>2. SettingsTypeOK'
  BY <1>0, IdleVisit, SettingsShapes DEF SettingsInv, SettingsTypeOK, VisitRecord
<1>3. ASSUME ~settingsRaced PROVE NoneOverlapped'
  <2>1. NoneOverlapped /\ visitor[w].row = config
    BY <1>3 DEF SettingsInv, NoneOverlapped, VisitorKnows
  <2>2. visitor[w] # NoVisit /\ visitor[w].pc \notin Editing
    BY IdleVisit DEF Editing
  <2>3. \A u \in Worker : visitor[u].pc \notin Editing
    BY <2>1, <2>2 DEF NoneOverlapped, EditsAlone
  <2>4. EntriesMatch
    BY <2>1, <2>3 DEF NoneOverlapped, BehindOnlyMidway, Editing
  <2>5. EntriesMatch'
    BY <2>1, <2>4 DEF EntriesMatch
  <2>6. EditsAlone'
    BY <1>1, <2>3, IdleVisit DEF EditsAlone
  <2>7. ASSUME NEW u \in Worker PROVE VisitorKnows(visitor[u])'
    <3>1. VisitorKnows(visitor[u]) /\ visitor[u].pc \notin {"dropped", "flagDropped", "allDropped"}
      BY <2>1, <2>3 DEF NoneOverlapped, Editing
    <3> QED
      BY <1>1, <3>1, IdleVisit DEF VisitorKnows
  <2> QED
    BY <2>1, <2>5, <2>6, <2>7 DEF NoneOverlapped, BehindOnlyMidway
<1> QED
  BY <1>2, <1>3 DEF SettingsInv

\* An edit goes on or ends: it is alone, so that the entries are its own matter.
LEMMA EditorMoves ==
    ASSUME SettingsInv, NEW w \in Worker, NEW v \in VisitRecord, visitor[w].pc \in Editing,
           visitor' = [visitor EXCEPT ![w] = v], v = NoVisit \/ v.pc \in Editing,
           settingsRaced' \in BOOLEAN, settingsRaced => settingsRaced',
           edits' = edits, configCrashes' \in Nat,
           config' \in ConfigRow, lastEdit' \in ConfigRow,
           configEntry' = None \/ configEntry' \in ConfigRow, flagEntry' \in Nat \cup {None},
           ~settingsRaced' => /\ config' = lastEdit' /\ VisitorKnows(v)'
                              /\ v.pc \in {"saved", "dropped"} \/ EntriesMatch'
    PROVE  SettingsInv'
<1>0. visitor \in [Worker -> VisitRecord]
  BY SettingsShapes DEF SettingsInv
<1>1. visitor'[w] = v /\ \A u \in Worker \ {w} : visitor'[u] = visitor[u]
  BY <1>0
<1>2. SettingsTypeOK'
  BY <1>0, SettingsShapes DEF SettingsInv, SettingsTypeOK, VisitRecord
<1>3. ASSUME ~settingsRaced' PROVE NoneOverlapped'
  <2>1. \A u \in Worker \ {w} : visitor[u] = NoVisit
    BY <1>3 DEF SettingsInv, NoneOverlapped, EditsAlone
  <2>2. EditsAlone'
    BY <1>1, <2>1, IdleVisit DEF EditsAlone
  <2>3. BehindOnlyMidway'
    <3>1. CASE v.pc \in {"saved", "dropped"}
      BY <1>1, <3>1 DEF BehindOnlyMidway
    <3>2. CASE v.pc \notin {"saved", "dropped"}
      BY <1>3, <3>2 DEF BehindOnlyMidway
    <3> QED
      BY <3>1, <3>2
  <2>4. ASSUME NEW u \in Worker PROVE VisitorKnows(visitor[u])'
    <3>1. CASE u = w
      BY <1>1, <1>3, <3>1 DEF VisitorKnows
    <3>2. CASE u # w
      BY <1>1, <2>1, <3>2, IdleVisit DEF VisitorKnows
    <3> QED
      BY <3>1, <3>2
  <2> QED
    BY <1>3, <2>2, <2>3, <2>4 DEF NoneOverlapped
<1> QED
  BY <1>2, <1>3 DEF SettingsInv

\* Every step keeps it.
LEMMA SettingsStepKeeps == SettingsInv /\ [SettingsNext]_settingsVars => SettingsInv'
<1> SUFFICES ASSUME SettingsInv, [SettingsNext]_settingsVars PROVE SettingsInv'
  OBVIOUS
<1>0. /\ config \in ConfigRow /\ lastEdit \in ConfigRow /\ edits \in 0 .. MaxEdits
      /\ configEntry = None \/ configEntry \in ConfigRow
      /\ flagEntry \in Nat \cup {None} /\ visitor \in [Worker -> VisitRecord]
      /\ configCrashes \in Nat /\ Flag \in Column /\ None \notin Nat /\ MaxEdits \in Nat
      /\ settingsRaced \in BOOLEAN
  BY SettingsShapes, SettingsAssumption DEF SettingsInv
<1>r. \A r \in ConfigRow : r[Flag] \in Nat
  BY <1>0 DEF ConfigRow
<1>n. ~settingsRaced => NoneOverlapped
  BY DEF SettingsInv
<1>m. (\A u \in Worker : visitor[u].pc \notin {"saved", "dropped"}) /\ NoneOverlapped => EntriesMatch
  BY DEF NoneOverlapped, BehindOnlyMidway
<1>1. ASSUME NEW w \in Worker, LoadConfig(w) \/ LoadFlag(w) PROVE SettingsInv'
  <2>1. PICK pc \in {"loaded", "flag"} :
          /\ Visit(w, [NoVisit EXCEPT !.pc = pc, !.row = config])
          /\ UNCHANGED <<config, edits, lastEdit, configEntry, flagEntry, configCrashes>>
    BY <1>1 DEF LoadConfig, LoadFlag
  <2>2. PICK v \in VisitRecord : v = [NoVisit EXCEPT !.pc = pc, !.row = config]
    BY <1>0, IdleVisit DEF VisitRecord
  <2>3. v.pc = pc /\ v.row = config /\ Visit(w, v)
    BY <2>1, <2>2 DEF NoVisit
  <2> QED
    BY <1>0, <1>n, <1>m, <2>1, <2>3, VisitKeeps DEF EntriesMatch
<1>2. ASSUME NEW w \in Worker, CacheConfig(w) \/ CacheFlag(w) PROVE SettingsInv'
  <2>1. /\ visitor[w].pc \in {"loaded", "flag"}
        /\ visitor' = [visitor EXCEPT ![w] = NoVisit]
        /\ UNCHANGED <<config, lastEdit, edits, settingsRaced, configCrashes>>
        /\ \/ configEntry' = visitor[w].row /\ UNCHANGED flagEntry
           \/ flagEntry' = visitor[w].row[Flag] /\ UNCHANGED configEntry
    BY <1>2 DEF CacheConfig, CacheFlag, Step
  <2>2. visitor[w].row \in ConfigRow
    BY <1>0 DEF VisitRecord
  <2>3. /\ configEntry' = None \/ configEntry' \in ConfigRow
        /\ flagEntry' \in Nat \cup {None}
        /\ configEntry' \in {configEntry, visitor[w].row}
        /\ flagEntry' \in {flagEntry, visitor[w].row[Flag]}
    BY <1>0, <1>r, <2>1, <2>2
  <2> QED
    BY <1>0, <2>1, <2>3, ReaderEnds
<1>3. CASE ExpireSettings
  <2>1. /\ configEntry' \in {None, configEntry} /\ flagEntry' \in {None, flagEntry}
        /\ UNCHANGED <<config, edits, lastEdit, visitor, settingsRaced, configCrashes>>
    BY <1>3 DEF ExpireSettings
  <2>2. SettingsTypeOK'
    BY <1>0, <2>1, SettingsShapes DEF SettingsInv, SettingsTypeOK
  <2>3. NoneOverlapped => NoneOverlapped'
    BY <2>1 DEF NoneOverlapped, EditsAlone, BehindOnlyMidway, EntriesMatch, VisitorKnows
  <2> QED
    BY <1>n, <2>1, <2>2, <2>3 DEF SettingsInv
<1>4. ASSUME NEW w \in Worker, OpenConfig(w) PROVE SettingsInv'
  <2>0. PICK row : row = IF configEntry # None THEN configEntry ELSE config
    OBVIOUS
  <2>1. PICK c \in Column :
          /\ edits < MaxEdits /\ edits' = edits + 1
          /\ Visit(w, [pc |-> "editing", row |-> row, column |-> c, edit |-> edits + 1])
          /\ configEntry' = row
          /\ UNCHANGED <<config, lastEdit, flagEntry, configCrashes>>
    BY <1>4, <2>0 DEF OpenConfig
  <2>2. row \in ConfigRow
    BY <1>0, <2>0
  <2>3. PICK v \in VisitRecord :
          v = [pc |-> "editing", row |-> row, column |-> c, edit |-> edits + 1]
    <3>1. edits + 1 \in Nat
      BY <1>0
    <3> QED
      BY <2>2, <3>1 DEF VisitRecord, Editing
  <2>4. v.pc = "editing" /\ v.row = row /\ Visit(w, v) /\ edits' \in 0 .. MaxEdits
    BY <1>0, <2>1, <2>3
  <2>5. EntriesMatch => row = config
    BY <2>0 DEF EntriesMatch
  <2> QED
    BY <1>n, <1>m, <2>1, <2>2, <2>4, <2>5, VisitKeeps
<1>5. ASSUME NEW w \in Worker, OpenAdmin(w) PROVE SettingsInv'
  <2>1. PICK c \in Column :
          /\ edits < MaxEdits /\ edits' = edits + 1
          /\ Visit(w, [pc |-> "inAdmin", row |-> config, column |-> c, edit |-> edits + 1])
          /\ UNCHANGED <<config, lastEdit, configEntry, flagEntry, configCrashes>>
    BY <1>5 DEF OpenAdmin
  <2>3. PICK v \in VisitRecord :
          v = [pc |-> "inAdmin", row |-> config, column |-> c, edit |-> edits + 1]
    <3>1. edits + 1 \in Nat
      BY <1>0
    <3> QED
      BY <1>0, <3>1 DEF VisitRecord, Editing
  <2>4. v.pc = "inAdmin" /\ v.row = config /\ Visit(w, v) /\ edits' \in 0 .. MaxEdits
    BY <1>0, <2>1, <2>3
  <2> QED
    BY <1>0, <1>n, <1>m, <2>1, <2>4, VisitKeeps DEF EntriesMatch
<1>6. ASSUME NEW w \in Worker, SaveConfig(w) \/ CommitAdmin(w) PROVE SettingsInv'
  <2>1. PICK pc \in {"saved", "idle"} :
          /\ Save(w) /\ Step(w, pc) /\ UNCHANGED <<configEntry, flagEntry>>
          /\ pc = "saved" => visitor[w].pc = "editing"
          /\ pc = "idle" => visitor[w].pc = "allDropped"
    BY <1>6 DEF SaveConfig, CommitAdmin
  <2>2. PICK v : v = IF pc = "idle" THEN NoVisit ELSE [visitor[w] EXCEPT !.pc = pc]
    OBVIOUS
  <2>3. v \in VisitRecord /\ v.pc = pc /\ (pc = "idle" => v = NoVisit)
    BY <1>0, <2>1, <2>2, IdleVisit DEF VisitRecord, Editing
  <2>4. /\ visitor' = [visitor EXCEPT ![w] = v]
        /\ UNCHANGED <<edits, settingsRaced, configCrashes>>
    BY <1>0, <2>1, <2>2 DEF Step
  <2>5. visitor[w] \in VisitRecord /\ visitor[w].pc \in Editing
    BY <1>0, <2>1 DEF Editing
  <2>6. /\ config' = [visitor[w].row EXCEPT ![visitor[w].column] = visitor[w].edit]
        /\ lastEdit' = [lastEdit EXCEPT ![visitor[w].column] = visitor[w].edit]
    BY <2>1 DEF Save
  <2>7. config' \in ConfigRow /\ lastEdit' \in ConfigRow
    BY <1>0, <2>5, <2>6 DEF VisitRecord, ConfigRow
  <2>8. ~settingsRaced => config' = lastEdit'
    BY <1>n, <2>1, <2>6 DEF NoneOverlapped, VisitorKnows
  <2>9. VisitorKnows(v)'
    BY <2>1, <2>3 DEF VisitorKnows
  <2>10. ~settingsRaced => v.pc = "saved" \/ EntriesMatch'
    BY <1>n, <2>1, <2>3 DEF NoneOverlapped, VisitorKnows, EntriesMatch
  <2> QED
    BY <1>0, <2>1, <2>3, <2>4, <2>5, <2>7, <2>8, <2>9, <2>10, EditorMoves DEF Editing
<1>7. ASSUME NEW w \in Worker, DropFlag(w) PROVE SettingsInv'
  <2>1. PICK pc \in {"dropped", "flagDropped"} :
          /\ flagEntry' = None /\ Step(w, pc) /\ UNCHANGED <<config, lastEdit, configEntry>>
          /\ pc = "dropped" => visitor[w].pc = "saved"
          /\ pc = "flagDropped" => visitor[w].pc = "inAdmin"
    BY <1>7 DEF DropFlag
  <2>2. PICK v : v = [visitor[w] EXCEPT !.pc = pc]
    OBVIOUS
  <2>3. v \in VisitRecord /\ v.pc = pc /\ v.row = visitor[w].row
    BY <1>0, <2>1, <2>2 DEF VisitRecord, Editing
  <2>4. /\ visitor' = [visitor EXCEPT ![w] = v]
        /\ UNCHANGED <<edits, settingsRaced, configCrashes>>
    BY <1>0, <2>1, <2>2 DEF Step
  <2>5. visitor[w].pc \in Editing
    BY <2>1 DEF Editing
  <2>6. ~settingsRaced => VisitorKnows(v)' /\ config' = lastEdit'
    BY <1>n, <2>1, <2>3 DEF NoneOverlapped, VisitorKnows
  <2>7. ~settingsRaced => v.pc = "dropped" \/ EntriesMatch'
    <3>1. ASSUME ~settingsRaced, pc = "flagDropped" PROVE EntriesMatch'
      <4>1. \A u \in Worker \ {w} : visitor[u] = NoVisit
        BY <1>n, <2>5, <3>1 DEF NoneOverlapped, EditsAlone
      <4>2. \A u \in Worker : visitor[u].pc \notin {"saved", "dropped"}
        BY <2>1, <3>1, <4>1, IdleVisit
      <4> QED
        BY <1>n, <1>m, <2>1, <3>1, <4>2 DEF EntriesMatch
    <3> QED
      BY <2>3, <3>1
  <2> QED
    BY <1>0, <2>1, <2>3, <2>4, <2>5, <2>6, <2>7, EditorMoves DEF Editing
<1>8. ASSUME NEW w \in Worker, DropConfig(w) PROVE SettingsInv'
  <2>1. PICK pc \in {"idle", "allDropped"} :
          /\ configEntry' = None /\ Step(w, pc) /\ UNCHANGED <<config, lastEdit, flagEntry>>
          /\ pc = "idle" => visitor[w].pc = "dropped"
          /\ pc = "allDropped" => visitor[w].pc = "flagDropped"
    BY <1>8 DEF DropConfig
  <2>2. PICK v : v = IF pc = "idle" THEN NoVisit ELSE [visitor[w] EXCEPT !.pc = pc]
    OBVIOUS
  <2>3. /\ v \in VisitRecord /\ v.pc = pc /\ (pc = "idle" => v = NoVisit)
        /\ pc = "allDropped" => v.row = visitor[w].row
    BY <1>0, <2>1, <2>2, IdleVisit DEF VisitRecord, Editing
  <2>4. /\ visitor' = [visitor EXCEPT ![w] = v]
        /\ UNCHANGED <<edits, settingsRaced, configCrashes>>
    BY <1>0, <2>1, <2>2 DEF Step
  <2>5. visitor[w].pc \in Editing
    BY <2>1 DEF Editing
  <2>6. ~settingsRaced => flagEntry = None
    BY <1>n, <2>1 DEF NoneOverlapped, VisitorKnows
  <2>7. ~settingsRaced => VisitorKnows(v)' /\ config' = lastEdit' /\ EntriesMatch'
    BY <1>n, <2>1, <2>3, <2>6 DEF NoneOverlapped, VisitorKnows, EntriesMatch
  <2> QED
    BY <1>0, <2>1, <2>3, <2>4, <2>5, <2>7, EditorMoves DEF Editing
<1>9. ASSUME NEW w \in Worker, ConfigCrash(w) PROVE SettingsInv'
  <2>1. /\ visitor[w] # NoVisit /\ visitor' = [visitor EXCEPT ![w] = NoVisit]
        /\ configCrashes' = configCrashes + 1
        /\ settingsRaced' = (settingsRaced \/ visitor[w].pc \in {"saved", "dropped"})
        /\ UNCHANGED <<config, edits, lastEdit, configEntry, flagEntry>>
    BY <1>9 DEF ConfigCrash
  <2>2. configCrashes' \in Nat
    BY <1>0, <2>1
  <2>3. CASE visitor[w].pc \in {"loaded", "flag"}
    <3>1. settingsRaced' = settingsRaced
      BY <1>0, <2>1, <2>3
    <3> QED
      BY <1>0, <2>1, <2>2, <2>3, <3>1, ReaderEnds
  <2>4. CASE visitor[w].pc \in Editing
    <3>1. settingsRaced' \in BOOLEAN /\ (settingsRaced => settingsRaced')
      BY <2>1, Zenon
    <3>2. ASSUME ~settingsRaced' PROVE config' = lastEdit' /\ EntriesMatch'
      <4>1. ~settingsRaced /\ visitor[w].pc \notin {"saved", "dropped"}
        BY <2>1, <3>2, Zenon
      <4>2. \A u \in Worker \ {w} : visitor[u] = NoVisit
        BY <1>n, <2>4, <4>1 DEF NoneOverlapped, EditsAlone
      <4>3. EntriesMatch
        BY <1>n, <1>m, <4>1, <4>2, IdleVisit
      <4> QED
        BY <1>n, <2>1, <4>1, <4>3 DEF NoneOverlapped, EntriesMatch
    <3>3. VisitorKnows(NoVisit)'
      BY IdleVisit DEF VisitorKnows
    <3> QED
      BY <1>0, <2>1, <2>2, <2>4, <3>1, <3>2, <3>3, IdleVisit, EditorMoves
  <2>5. CASE visitor[w].pc = "idle"
    <3>1. visitor[w].pc = "idle" => SettingsInv'
      <4> SUFFICES ASSUME visitor[w].pc = "idle" PROVE SettingsInv'
        OBVIOUS
      <4>1. settingsRaced' = settingsRaced
        BY <1>0, <2>1
      <4>2. \A u \in Worker : visitor'[u].pc = visitor[u].pc
        BY <1>0, <2>1, IdleVisit
      <4>3. SettingsTypeOK'
        BY <1>0, <2>1, <2>2, <4>1, IdleVisit, SettingsShapes DEF SettingsTypeOK, VisitRecord
      <4>4. NoneOverlapped => NoneOverlapped'
        <5> SUFFICES ASSUME NoneOverlapped PROVE NoneOverlapped'
          OBVIOUS
        <5>1. \A u \in Worker : visitor'[u] # NoVisit => visitor[u] # NoVisit
          BY <1>0, <2>1
        <5>2. EditsAlone'
          BY <4>2, <5>1 DEF NoneOverlapped, EditsAlone
        <5>3. BehindOnlyMidway' /\ config' = lastEdit'
          BY <2>1, <4>2 DEF NoneOverlapped, BehindOnlyMidway, EntriesMatch
        <5>4. \A u \in Worker : VisitorKnows(visitor[u])'
          BY <1>0, <2>1, IdleVisit DEF NoneOverlapped, VisitorKnows
        <5> QED
          BY <5>2, <5>3, <5>4 DEF NoneOverlapped
      <4> QED
        BY <1>n, <4>1, <4>3, <4>4 DEF SettingsInv
    <3> QED
      BY <2>5, <3>1
  <2>6. visitor[w].pc \in Editing \cup {"idle", "loaded", "flag"}
    BY <1>0 DEF VisitRecord
  <2> QED
    BY <2>3, <2>4, <2>5, <2>6
<1>10. CASE UNCHANGED settingsVars
  BY <1>10 DEF settingsVars, SettingsInv, SettingsTypeOK, NoneOverlapped, EditsAlone,
               BehindOnlyMidway, EntriesMatch, VisitorKnows
<1> QED
  BY <1>1, <1>2, <1>3, <1>4, <1>5, <1>6, <1>7, <1>8, <1>9, <1>10 DEF SettingsNext

\* The row, its entries and the requests about it keep their types.
THEOREM SettingsTypes == SettingsSpec => []SettingsTypeOK
<1>1. SettingsInv => SettingsTypeOK
  BY DEF SettingsInv
<1> QED
  BY <1>1, SettingsStart, SettingsStepKeeps, PTL DEF SettingsSpec

\* Edits that overlap no other request are never lost, although they start from the
\* cached row and save every column, and leave no entry from before them.
THEOREM EditsAreKept == SettingsSpec => []NoEditLost
<1>1. SettingsInv => NoEditLost
  <2> SUFFICES ASSUME SettingsInv, ~settingsRaced
               PROVE  /\ config = lastEdit
                      /\ (\A w \in Worker : visitor[w].pc \notin Editing) => EntriesMatch
    BY DEF NoEditLost, EntriesMatch
  <2> QED
    BY DEF SettingsInv, NoneOverlapped, BehindOnlyMidway, Editing
<1> QED
  BY <1>1, SettingsStart, SettingsStepKeeps, PTL DEF SettingsSpec

-----------------------------------------------------------------------------
(***************************************************************************)
(* The visitors that look at a product now.                                *)
(***************************************************************************)
View == Visitor \X (0 .. MaxTicks)

ViewRecord == [pc : {"idle", "adding", "locked", "added"}, visitor : Visitor \cup {None},
               cutoff : 0 .. MaxTicks, read : SUBSET View]

OncePerVisitor(s) == \A p, q \in s : p[1] = q[1] => p = q

LockHeld == \A w \in Worker : viewing[w].pc = "locked" => locmemLock[home[w]] = w

NamesVisitor == \A w \in Worker : viewing[w] # NoViewing => viewing[w].visitor \in Visitor

ReadsOnce == \A w \in Worker : OncePerVisitor(viewing[w].read)

\* Views and reads are of the past, and so is the cutoff that a request prunes by.
InPast ==
    /\ \A p \in viewers \cup counted : p[2] <= clock
    /\ \A w \in Worker : /\ \A p \in viewing[w].read : p[2] <= clock
                         /\ viewing[w].cutoff <= Cutoff

\* A view has its event, or somebody who writes it, or died on the way, or is old.
Backed(p) == \/ \E e \in events : e[1] = p[1] /\ e[2] >= p[2] \div 2
             \/ \E w \in Worker : viewing[w].visitor = p[1]
             \/ p[1] \in died \/ p[2] < Cutoff

AllBacked == /\ \A p \in viewers : Backed(p)
             /\ \A w \in Worker : \A p \in viewing[w].read : Backed(p)

OneProcess == \A v, w \in Worker : home[v] = home[w]

\* Within one process a view of the window is in the entry and in what the holder of
\* the lock has read of it.
KeptViews == \A p \in counted : p[2] >= Cutoff =>
            /\ p \in viewers
            /\ \A w \in Worker : viewing[w].pc = "locked" => p \in viewing[w].read

ViewersInv == /\ ViewersTypeOK /\ LockHeld /\ NamesVisitor /\ ReadsOnce /\ InPast /\ AllBacked
              /\ OneProcess => KeptViews
-----------------------------------------------------------------------------
\* The types of the variables, by the record of a request.
LEMMA ViewersShapes ==
    ViewersTypeOK <=>
        /\ home \in [Worker -> Process] /\ clock \in 1 .. MaxTicks /\ views \in 0 .. MaxViews
        /\ viewers \subseteq View /\ counted \subseteq View /\ events \subseteq View
        /\ locmemLock \in [Process -> Worker \cup {None}]
        /\ viewing \in [Worker -> ViewRecord]
        /\ died \subseteq Visitor
        /\ OncePerVisitor(viewers)
  BY Zenon DEF ViewersTypeOK, View, ViewRecord, OncePerVisitor

\* An idle slot's record.
LEMMA IdleViewing ==
    /\ NoViewing \in ViewRecord /\ NoViewing.pc = "idle" /\ NoViewing.visitor = None
    /\ NoViewing.cutoff = 0 /\ NoViewing.read = {}
    /\ None \notin Visitor /\ None \notin Worker
  BY LiveViewersAssumption, WorkersAssumption DEF NoViewing, ViewRecord, View

\* What the bounds and the division by the bucket amount to.
LEMMA Pairs == \A p \in View : p[1] \in Visitor /\ p[2] \in 0 .. MaxTicks /\ p = <<p[1], p[2]>>
  BY DEF View

\* The cutoff is before the clock.
LEMMA CutoffRange ==
    ASSUME clock \in 1 .. MaxTicks PROVE Cutoff \in 0 .. MaxTicks /\ Cutoff < clock
  BY LiveViewersAssumption DEF Cutoff

\* The bucket of the clock is not after it.
LEMMA BucketRange ==
    ASSUME clock \in 1 .. MaxTicks PROVE Bucket \in 0 .. MaxTicks
<1>1. clock \in Nat /\ clock <= MaxTicks /\ MaxTicks \in Nat
  BY LiveViewersAssumption
<1> QED
  BY <1>1 DEF Bucket

\* Buckets follow the clock.
LEMMA HalvesGrow ==
    ASSUME NEW a \in Nat, NEW b \in Nat, a <= b PROVE a \div 2 <= b \div 2
  OBVIOUS

\* What has left its retention is older than the cutoff.
LEMMA PurgedIsOld ==
    ASSUME NEW a \in Nat, NEW c \in Nat, NEW e \in Nat, NEW r \in Nat \ {0},
           e >= a \div 2, ~(e + r >= c \div 2)
    PROVE  c >= 2 /\ a < c - 2
  OBVIOUS

\* Nobody views at the start.
LEMMA ViewersStart == ViewersInit => ViewersInv
<1> SUFFICES ASSUME ViewersInit PROVE ViewersInv
  OBVIOUS
<1>1. /\ home \in [Worker -> Process] /\ clock = 1 /\ views = 0 /\ viewers = {} /\ events = {}
      /\ locmemLock = [p \in Process |-> None] /\ viewing = [w \in Worker |-> NoViewing]
      /\ counted = {} /\ died = {}
  BY DEF ViewersInit
<1>2. ViewersTypeOK
  BY <1>1, IdleViewing, LiveViewersAssumption, ViewersShapes DEF OncePerVisitor
<1>3. Cutoff = 0
  BY <1>1 DEF Cutoff
<1>4. \A w \in Worker : viewing[w] = NoViewing
  BY <1>1
<1>5. LockHeld /\ NamesVisitor /\ ReadsOnce /\ AllBacked /\ KeptViews
  BY <1>1, <1>4, IdleViewing DEF LockHeld, NamesVisitor, ReadsOnce, AllBacked, KeptViews, OncePerVisitor
<1>6. InPast
  BY <1>1, <1>3, <1>4, IdleViewing DEF InPast
<1> QED
  BY <1>2, <1>5, <1>6 DEF ViewersInv

\* A request goes on: only its own record moves, the clock stands.
LEMMA ViewingMoves ==
    ASSUME ViewersInv, NEW w \in Worker, NEW t \in ViewRecord,
           viewing' = [viewing EXCEPT ![w] = t], UNCHANGED <<home, clock>>,
           views' \in 0 .. MaxViews, events' \subseteq View, died' \subseteq Visitor,
           events \subseteq events', died \subseteq died',
           locmemLock' \in [Process -> Worker \cup {None}],
           viewers' \subseteq View, counted' \subseteq View,
           OncePerVisitor(viewers'), OncePerVisitor(t.read),
           t # NoViewing => t.visitor \in Visitor,
           t.cutoff <= Cutoff,
           t.pc = "locked" => locmemLock'[home[w]] = w,
           \A v \in Worker \ {w} : locmemLock[home[v]] = v => locmemLock'[home[v]] = v,
           \A p \in viewers' \cup counted' \cup t.read : p[2] <= clock,
           \A p \in viewers' \cup t.read :
               \/ p[1] = t.visitor
               \/ p \in viewers
               \/ \E v \in Worker : p \in viewing[v].read,
           \* the visitor it had is still the one it has, or his event is there
           \/ t.visitor = viewing[w].visitor \/ viewing[w].visitor = None
           \/ viewing[w].visitor \in died' \/ <<viewing[w].visitor, Bucket>> \in events',
           OneProcess => KeptViews'
    PROVE  ViewersInv'
<1>0. /\ viewing \in [Worker -> ViewRecord] /\ viewers \subseteq View
      /\ events \subseteq View /\ clock \in 1 .. MaxTicks /\ home \in [Worker -> Process]
  BY ViewersShapes DEF ViewersInv
<1>1. viewing'[w] = t /\ \A v \in Worker \ {w} : viewing'[v] = viewing[v]
  BY <1>0
<1>2. Cutoff' = Cutoff
  BY DEF Cutoff
<1>3. ViewersTypeOK'
  <2>1. viewing' \in [Worker -> ViewRecord]
    BY <1>0
  <2>2. OncePerVisitor(viewers)'
    BY DEF OncePerVisitor
  <2> QED
    BY <1>0, <2>1, <2>2, ViewersShapes DEF ViewersInv, ViewersTypeOK, View, ViewRecord, OncePerVisitor
<1>4. LockHeld' /\ NamesVisitor'
  BY <1>1 DEF ViewersInv, LockHeld, NamesVisitor
<1>5. ReadsOnce'
  BY <1>1 DEF ViewersInv, ReadsOnce, OncePerVisitor
<1>6. InPast'
  BY <1>1, <1>2 DEF ViewersInv, InPast
<1>7. ASSUME NEW p \in View, p[2] <= clock, Backed(p) PROVE Backed(p)'
  <2>1. CASE \E e \in events : e[1] = p[1] /\ e[2] >= p[2] \div 2
    BY <2>1 DEF Backed
  <2>2. CASE \E v \in Worker : viewing[v].visitor = p[1]
    <3>1. PICK v \in Worker : viewing[v].visitor = p[1]
      BY <2>2
    <3>2. CASE v # w
      BY <1>1, <3>1, <3>2 DEF Backed
    <3>3. CASE v = w
      <4>1. p[1] # None
        BY Pairs, IdleViewing
      <4>2. CASE <<viewing[w].visitor, Bucket>> \in events'
        <5>1. Bucket >= p[2] \div 2
          <6>1. clock \in Nat /\ p[2] \in Nat
            BY <1>0, Pairs
          <6> QED
            BY <1>7, <6>1, HalvesGrow DEF Bucket
        <5>2. <<p[1], Bucket>> \in events'
          BY <3>1, <3>3, <4>2
        <5> QED
          BY <5>1, <5>2 DEF Backed
      <4>3. CASE p[1] \in died'
        BY <4>3 DEF Backed
      <4>4. CASE t.visitor = p[1]
        BY <1>1, <4>4 DEF Backed
      <4> QED
        BY <3>1, <3>3, <4>1, <4>2, <4>3, <4>4
    <3> QED
      BY <3>2, <3>3
  <2>3. CASE p[1] \in died \/ p[2] < Cutoff
    BY <1>2, <2>3 DEF Backed
  <2> QED
    BY <1>7, <2>1, <2>2, <2>3 DEF Backed
<1>8. AllBacked'
  <2>1. ASSUME NEW p \in View, p[2] <= clock,
               \/ p[1] = t.visitor \/ p \in viewers \/ \E v \in Worker : p \in viewing[v].read
        PROVE  Backed(p)'
    <3>1. CASE p[1] = t.visitor
      BY <1>1, <3>1 DEF Backed
    <3>2. CASE p \in viewers \/ \E v \in Worker : p \in viewing[v].read
      <4>1. Backed(p)
        BY <3>2 DEF ViewersInv, AllBacked
      <4> QED
        BY <1>7, <2>1, <4>1
    <3> QED
      BY <2>1, <3>1, <3>2
  <2>2. \A p \in viewers' : Backed(p)'
    BY <2>1
  <2>3. ASSUME NEW v \in Worker, NEW p \in viewing'[v].read PROVE Backed(p)'
    <3>1. CASE v = w
      <4>1. p \in t.read /\ p \in View
        BY <1>1, <2>3, <3>1 DEF ViewRecord
      <4> QED
        BY <2>1, <4>1
    <3>2. CASE v # w
      <4>1. p \in viewing[v].read
        BY <1>1, <2>3, <3>2
      <4>2. p \in View /\ p[2] <= clock
        BY <1>0, <4>1 DEF ViewRecord, ViewersInv, InPast
      <4> QED
        BY <2>1, <4>1, <4>2
    <3> QED
      BY <3>1, <3>2
  <2> QED
    BY <2>2, <2>3 DEF AllBacked
<1>9. OneProcess' => KeptViews'
  BY DEF OneProcess
<1> QED
  BY <1>3, <1>4, <1>5, <1>6, <1>8, <1>9 DEF ViewersInv

\* Every step keeps it.
LEMMA ViewersStepKeeps == ViewersInv /\ [ViewersNext]_viewerVars => ViewersInv'
<1> SUFFICES ASSUME ViewersInv, [ViewersNext]_viewerVars PROVE ViewersInv'
  OBVIOUS
<1>0. /\ home \in [Worker -> Process] /\ clock \in 1 .. MaxTicks /\ views \in 0 .. MaxViews
      /\ viewers \subseteq View /\ counted \subseteq View /\ events \subseteq View
      /\ locmemLock \in [Process -> Worker \cup {None}]
      /\ viewing \in [Worker -> ViewRecord] /\ died \subseteq Visitor
      /\ OncePerVisitor(viewers) /\ MaxTicks \in Nat /\ MaxViews \in Nat
      /\ Retention \in Nat \ {0} /\ None \notin Worker
  BY ViewersShapes, LiveViewersAssumption, IdleViewing DEF ViewersInv
<1>c. Cutoff \in 0 .. MaxTicks /\ Cutoff < clock
  BY <1>0, CutoffRange
<1>k. OneProcess => KeptViews
  BY DEF ViewersInv
<1>p. /\ \A p \in viewers \cup counted : p[2] <= clock
      /\ \A w \in Worker : /\ \A p \in viewing[w].read : p[2] <= clock
                           /\ viewing[w].cutoff <= Cutoff
                           /\ OncePerVisitor(viewing[w].read)
                           /\ viewing[w].pc = "locked" => locmemLock[home[w]] = w
                           /\ viewing[w] # NoViewing => viewing[w].visitor \in Visitor
  BY DEF ViewersInv, InPast, ReadsOnce, LockHeld, NamesVisitor
<1>1. ASSUME NEW w \in Worker, RecordView(w) PROVE ViewersInv'
  <2>1. PICK v \in Visitor :
          /\ viewing[w] = NoViewing /\ views < MaxViews /\ views' = views + 1
          /\ viewing' = [viewing EXCEPT ![w] = [NoViewing EXCEPT !.pc = "adding", !.visitor = v,
                                                                 !.cutoff = Cutoff]]
          /\ UNCHANGED <<home, clock, viewers, events, locmemLock, counted, died>>
    BY <1>1 DEF RecordView
  <2>2. PICK t : t = [NoViewing EXCEPT !.pc = "adding", !.visitor = v, !.cutoff = Cutoff]
    OBVIOUS
  <2>3. /\ t \in ViewRecord /\ t.pc = "adding" /\ t.visitor = v /\ t.cutoff = Cutoff
        /\ t.read = {} /\ viewing' = [viewing EXCEPT ![w] = t]
    BY <1>c, <2>1, <2>2 DEF NoViewing, ViewRecord
  <2>4. views' \in 0 .. MaxViews /\ Cutoff <= Cutoff
    BY <1>0, <1>c, <2>1
  <2>5. OneProcess => KeptViews'
    BY <1>0, <1>k, <2>1, <2>3 DEF KeptViews, Cutoff
  <2>6. OncePerVisitor(t.read) /\ OncePerVisitor(viewers')
    BY <1>0, <2>1, <2>3 DEF OncePerVisitor
  <2>7. \A p \in viewers' \cup counted' \cup t.read : p[2] <= clock
    BY <1>p, <2>1, <2>3
  <2>8. \A p \in viewers' \cup t.read :
            p[1] = t.visitor \/ p \in viewers \/ \E u \in Worker : p \in viewing[u].read
    BY <2>1, <2>3
  <2>9. t.pc # "locked" /\ viewing[w].visitor = None
    BY <2>1, <2>3, IdleViewing
  <2> QED
    BY <1>0, <2>1, <2>3, <2>4, <2>5, <2>6, <2>7, <2>8, <2>9, ViewingMoves
<1>2. ASSUME NEW w \in Worker, ReadViewers(w) PROVE ViewersInv'
  <2>1. /\ viewing[w].pc = "adding" /\ locmemLock[home[w]] = None
        /\ locmemLock' = [locmemLock EXCEPT ![home[w]] = w]
        /\ UNCHANGED <<home, clock, views, viewers, events, counted, died>>
    BY <1>2 DEF ReadViewers
  <2>2. PICK t : t = [viewing[w] EXCEPT !.pc = "locked",
                                        !.read = {p \in viewers : p[2] >= viewing[w].cutoff}]
    OBVIOUS
  <2>3. /\ t \in ViewRecord /\ t.pc = "locked" /\ t.visitor = viewing[w].visitor
        /\ t.cutoff = viewing[w].cutoff
        /\ t.read = {p \in viewers : p[2] >= viewing[w].cutoff}
    BY <1>0, <2>2 DEF ViewRecord
  <2>4. viewing' = [viewing EXCEPT ![w] = t]
    BY <1>2, <2>2 DEF ReadViewers
  <2>5. /\ locmemLock' \in [Process -> Worker \cup {None}] /\ locmemLock'[home[w]] = w
        /\ \A v \in Worker \ {w} : locmemLock[home[v]] = v => locmemLock'[home[v]] = v
    BY <1>0, <2>1
  <2>6. OncePerVisitor(t.read)
    BY <1>0, <2>3 DEF OncePerVisitor
  <2>7. OneProcess => KeptViews'
    <3> SUFFICES ASSUME OneProcess, NEW p \in counted, p[2] >= Cutoff
                 PROVE  /\ p \in viewers
                        /\ \A u \in Worker : viewing'[u].pc = "locked" => p \in viewing'[u].read
      BY <2>1 DEF KeptViews, Cutoff
    <3>1. /\ p \in viewers
          /\ \A u \in Worker : viewing[u].pc = "locked" => p \in viewing[u].read
      BY <1>k DEF KeptViews
    <3>2. p[2] >= viewing[w].cutoff
      <4>1. /\ p[2] \in Nat /\ Cutoff \in Nat /\ viewing[w].cutoff \in Nat
            /\ viewing[w].cutoff <= Cutoff
        BY <1>0, <1>c, <1>p, Pairs DEF ViewRecord
      <4> QED
        BY <4>1
    <3>3. p \in t.read
      BY <2>3, <3>1, <3>2
    <3>4. viewing'[w] = t /\ \A u \in Worker \ {w} : viewing'[u] = viewing[u]
      BY <1>0, <2>4
    <3> QED
      BY <3>1, <3>3, <3>4
  <2>8. \A p \in viewers' \cup counted' \cup t.read : p[2] <= clock
    BY <1>p, <2>1, <2>3
  <2>9. t.visitor \in Visitor
    BY <1>p, <2>1, <2>3, IdleViewing
  <2> QED
    BY <1>0, <1>p, <2>1, <2>3, <2>4, <2>5, <2>6, <2>7, <2>8, <2>9, ViewingMoves
<1>3. ASSUME NEW w \in Worker, WriteViewers(w) PROVE ViewersInv'
  <2> DEFINE v == viewing[w].visitor
  <2>1. /\ viewing[w].pc = "locked" /\ viewers' = Replacing(viewing[w].read, v)
        /\ counted' = Replacing(counted, v) /\ locmemLock' = Unlocked(w)
        /\ viewing' = [viewing EXCEPT ![w].pc = "added"]
        /\ UNCHANGED <<home, clock, views, events, died>>
    BY <1>3 DEF WriteViewers
  <2>2. PICK t : t = [viewing[w] EXCEPT !.pc = "added"]
    OBVIOUS
  <2>3. /\ t \in ViewRecord /\ t.pc = "added" /\ t.visitor = v /\ t.cutoff = viewing[w].cutoff
        /\ t.read = viewing[w].read /\ viewing' = [viewing EXCEPT ![w] = t]
    BY <1>0, <2>1, <2>2 DEF ViewRecord
  <2>4. v \in Visitor /\ <<v, clock>> \in View /\ viewing[w].read \subseteq View
    BY <1>0, <1>p, <2>1, IdleViewing DEF View, ViewRecord
  <2>5. /\ viewers' \subseteq View /\ counted' \subseteq View
        /\ \A p \in viewers' : p = <<v, clock>> \/ (p \in viewing[w].read /\ p[1] # v)
        /\ \A p \in counted' : p = <<v, clock>> \/ (p \in counted /\ p[1] # v)
        /\ \A p \in viewing[w].read : p[1] # v => p \in viewers'
        /\ <<v, clock>> \in viewers'
    BY <1>0, <2>1, <2>4 DEF Replacing
  <2>6. OncePerVisitor(viewers')
    <3> SUFFICES ASSUME NEW p \in viewers', NEW q \in viewers', p[1] = q[1] PROVE p = q
      BY DEF OncePerVisitor
    <3>1. OncePerVisitor(viewing[w].read)
      BY <1>p
    <3> QED
      BY <2>5, <3>1 DEF OncePerVisitor
  <2>7. /\ locmemLock' \in [Process -> Worker \cup {None}]
        /\ \A u \in Worker \ {w} : locmemLock[home[u]] = u => locmemLock'[home[u]] = u
    BY <1>0, <2>1 DEF Unlocked
  <2>8. \A p \in viewers' \cup counted' \cup t.read : p[2] <= clock
    <3>1. clock <= clock
      BY <1>0
    <3> QED
      BY <1>p, <2>3, <2>5, <3>1
  <2>9. OneProcess => KeptViews'
    <3> SUFFICES ASSUME OneProcess, NEW p \in counted', p[2] >= Cutoff
                 PROVE  /\ p \in viewers'
                        /\ \A u \in Worker : viewing'[u].pc = "locked" => p \in viewing'[u].read
      BY <2>1 DEF KeptViews, Cutoff
    <3>1. \A u \in Worker : viewing'[u].pc # "locked"
      <4>1. viewing'[w] = t /\ \A u \in Worker \ {w} : viewing'[u] = viewing[u]
        BY <1>0, <2>3
      <4>2. \A u \in Worker \ {w} : viewing[u].pc # "locked"
        BY <1>p, <2>1 DEF OneProcess
      <4> QED
        BY <2>3, <4>1, <4>2
    <3>2. p \in viewers'
      BY <1>k, <2>1, <2>5 DEF KeptViews
    <3> QED
      BY <3>1, <3>2
  <2>10. \A p \in viewers' \cup t.read :
            p[1] = t.visitor \/ p \in viewers \/ \E u \in Worker : p \in viewing[u].read
    BY <2>3, <2>5
  <2> QED
    BY <1>0, <1>p, <2>1, <2>3, <2>4, <2>5, <2>6, <2>7, <2>8, <2>9, <2>10, ViewingMoves
<1>4. ASSUME NEW w \in Worker, RecordEvent(w) PROVE ViewersInv'
  <2>1. /\ viewing[w].pc = "added" /\ events' = events \cup {<<viewing[w].visitor, Bucket>>}
        /\ viewing' = [viewing EXCEPT ![w] = NoViewing]
        /\ UNCHANGED <<home, clock, views, viewers, locmemLock, counted, died>>
    BY <1>4 DEF RecordEvent
  <2>2. events' \subseteq View
    BY <1>0, <1>p, <2>1, BucketRange, IdleViewing DEF View
  <2>3. OneProcess => KeptViews'
    BY <1>0, <1>k, <2>1, IdleViewing DEF KeptViews, Cutoff
  <2>4. 0 <= Cutoff
    BY <1>c
  <2> QED
    BY <1>0, <1>p, <2>1, <2>2, <2>3, <2>4, IdleViewing, ViewingMoves DEF OncePerVisitor
<1>5. ASSUME NEW w \in Worker, ViewerCrash(w) PROVE ViewersInv'
  <2>1. /\ viewing[w] # NoViewing /\ died' = died \cup {viewing[w].visitor}
        /\ locmemLock' = Unlocked(w) /\ viewing' = [viewing EXCEPT ![w] = NoViewing]
        /\ UNCHANGED <<home, clock, views, viewers, events, counted>>
    BY <1>5 DEF ViewerCrash
  <2>2. /\ locmemLock' \in [Process -> Worker \cup {None}]
        /\ \A u \in Worker \ {w} : locmemLock[home[u]] = u => locmemLock'[home[u]] = u
    BY <1>0, <2>1 DEF Unlocked
  <2>3. OneProcess => KeptViews'
    BY <1>0, <1>k, <2>1, IdleViewing DEF KeptViews, Cutoff
  <2>4. 0 <= Cutoff
    BY <1>c
  <2>5. died' \subseteq Visitor
    BY <1>0, <1>p, <2>1
  <2> QED
    BY <1>0, <1>p, <2>1, <2>2, <2>3, <2>4, <2>5, IdleViewing, ViewingMoves DEF OncePerVisitor
<1>6. CASE ClockTicks
  <2>1. /\ clock < MaxTicks /\ clock' = clock + 1
        /\ viewers' = IF \E p \in viewers : p[2] + 2 >= clock + 1 THEN viewers ELSE {}
        /\ UNCHANGED <<home, views, events, locmemLock, viewing, counted, died>>
    BY <1>6 DEF ClockTicks
  <2>2. clock' \in 1 .. MaxTicks /\ viewers' \subseteq viewers /\ clock <= clock'
    BY <1>0, <2>1
  <2>3. Cutoff' = clock - 1 /\ Cutoff <= Cutoff' /\ Cutoff' \in Nat /\ Cutoff \in Nat
    BY <1>0, <1>c, <2>1 DEF Cutoff
  <2>4. ViewersTypeOK'
    BY <1>0, <2>1, <2>2, ViewersShapes
       DEF ViewersTypeOK, View, ViewRecord, OncePerVisitor
  <2>5. LockHeld' /\ NamesVisitor' /\ ReadsOnce'
    BY <2>1 DEF ViewersInv, LockHeld, NamesVisitor, ReadsOnce
  <2>6. InPast'
    <3>1. ASSUME NEW p \in View, p[2] <= clock PROVE p[2] <= clock'
      <4>1. p[2] \in Nat /\ clock \in Nat
        BY <1>0, Pairs
      <4> QED
        BY <2>1, <3>1, <4>1
    <3>2. \A w \in Worker : viewing[w].cutoff \in Nat /\ viewing[w].read \subseteq View
      BY <1>0 DEF ViewRecord
    <3>3. \A w \in Worker : viewing[w].cutoff <= Cutoff'
      BY <1>p, <2>3, <3>2
    <3> QED
      BY <1>0, <1>p, <2>1, <2>2, <3>1, <3>2, <3>3 DEF InPast
  <2>7. ASSUME NEW p \in View, Backed(p) PROVE Backed(p)'
    <3>1. p[2] < Cutoff => p[2] < Cutoff'
      <4>1. p[2] \in Nat
        BY Pairs
      <4> QED
        BY <2>3, <4>1
    <3> QED
      BY <2>1, <2>7, <3>1 DEF Backed
  <2>8. AllBacked'
    <3>1. \A w \in Worker : viewing[w].read \subseteq View
      BY <1>0 DEF ViewRecord
    <3> QED
      BY <1>0, <2>1, <2>2, <2>7, <3>1 DEF ViewersInv, AllBacked
  <2>9. OneProcess' => KeptViews'
    <3> SUFFICES ASSUME OneProcess, NEW p \in counted, p[2] >= Cutoff'
                 PROVE  /\ p \in viewers'
                        /\ \A u \in Worker : viewing[u].pc = "locked" => p \in viewing[u].read
      BY <2>1 DEF KeptViews, OneProcess
    <3>1. p[2] >= Cutoff /\ p[2] + 2 >= clock + 1
      <4>1. p[2] \in Nat /\ clock \in Nat
        BY <1>0, Pairs
      <4> QED
        BY <2>3, <4>1
    <3>2. p \in viewers /\ \A u \in Worker : viewing[u].pc = "locked" => p \in viewing[u].read
      BY <1>k, <3>1 DEF KeptViews
    <3> QED
      BY <2>1, <3>1, <3>2
  <2> QED
    BY <2>4, <2>5, <2>6, <2>8, <2>9 DEF ViewersInv
<1>7. CASE PurgeEvents
  <2>1. /\ events' = {e \in events : e[2] + Retention >= Bucket}
        /\ UNCHANGED <<home, clock, views, viewers, locmemLock, viewing, counted, died>>
    BY <1>7 DEF PurgeEvents
  <2>2. ViewersTypeOK'
    BY <1>0, <2>1, ViewersShapes DEF ViewersTypeOK, View, ViewRecord, OncePerVisitor
  <2>3. LockHeld' /\ NamesVisitor' /\ ReadsOnce' /\ InPast'
    BY <2>1 DEF ViewersInv, LockHeld, NamesVisitor, ReadsOnce, InPast, Cutoff
  <2>4. Cutoff' = Cutoff
    BY <2>1 DEF Cutoff
  <2>5. ASSUME NEW p \in View, Backed(p) PROVE Backed(p)'
    <3>1. CASE \E e \in events : e[1] = p[1] /\ e[2] >= p[2] \div 2
      <4>1. PICK e \in events : e[1] = p[1] /\ e[2] >= p[2] \div 2
        BY <3>1
      <4>2. CASE e[2] + Retention >= Bucket
        BY <2>1, <4>1, <4>2 DEF Backed
      <4>3. CASE ~(e[2] + Retention >= Bucket)
        <5>1. p[2] \in Nat /\ e[2] \in Nat /\ clock \in Nat
          BY <1>0, Pairs
        <5>2. clock >= 2 /\ p[2] < clock - 2
          BY <1>0, <4>1, <4>3, <5>1, PurgedIsOld DEF Bucket
        <5>3. p[2] < Cutoff
          BY <5>1, <5>2 DEF Cutoff
        <5> QED
          BY <2>4, <5>3 DEF Backed
      <4> QED
        BY <4>2, <4>3
    <3>2. CASE ~\E e \in events : e[1] = p[1] /\ e[2] >= p[2] \div 2
      BY <2>1, <2>4, <2>5, <3>2 DEF Backed
    <3> QED
      BY <3>1, <3>2
  <2>6. AllBacked'
    <3>1. \A w \in Worker : viewing[w].read \subseteq View
      BY <1>0 DEF ViewRecord
    <3> QED
      BY <1>0, <2>1, <2>5, <3>1 DEF ViewersInv, AllBacked
  <2>7. OneProcess' => KeptViews'
    BY <1>k, <2>1, <2>4 DEF KeptViews, OneProcess
  <2> QED
    BY <2>2, <2>3, <2>6, <2>7 DEF ViewersInv
<1>8. CASE UNCHANGED viewerVars
  BY <1>8 DEF viewerVars, ViewersInv, ViewersTypeOK, LockHeld, NamesVisitor, ReadsOnce, InPast,
              AllBacked, Backed, OneProcess, KeptViews, Cutoff
<1> QED
  BY <1>1, <1>2, <1>3, <1>4, <1>5, <1>6, <1>7, <1>8 DEF ViewersNext

\* The entry, the events and the requests about them keep their types, and the entry
\* has a visitor once.
THEOREM ViewerTypes == ViewersSpec => []ViewersTypeOK
<1>1. ViewersInv => ViewersTypeOK
  BY DEF ViewersInv
<1> QED
  BY <1>1, ViewersStart, ViewersStepKeeps, PTL DEF ViewersSpec

\* Within one process the lock keeps every viewer for a window, and a viewer in the
\* entry has an event no older than his view, unless his request was killed.
THEOREM ViewersAreKept == ViewersSpec => []OneProcessKeepsViewers
<1>1. ViewersInv => OneProcessKeepsViewers
  <2> SUFFICES ASSUME ViewersInv, OneProcess
               PROVE  NoViewerLost /\ \A p \in viewers : Backed(p)
    BY DEF OneProcessKeepsViewers, OneProcess, Backed
  <2>1. NoViewerLost
    BY DEF ViewersInv, KeptViews, NoViewerLost, LiveNow
  <2> QED
    BY <2>1 DEF ViewersInv, AllBacked
<1> QED
  BY <1>1, ViewersStart, ViewersStepKeeps, PTL DEF ViewersSpec

-----------------------------------------------------------------------------
(***************************************************************************)
(* The product list of a collection.                                       *)
(***************************************************************************)
RefreshRecord == [pc : {"idle", "computed", "replaced", "committed"}, items : SUBSET Item,
                  seen : SUBSET Item]
MemberEditRecord == [pc : {"idle", "checked", "dropped"}, op : {"add", "remove"},
                     item : Item \cup {None}]

\* A row that is about to be written is of a product.
EditsOfItems == \A w \in Worker : editor[w] # NoMemberEdit => editor[w].item \in Item

\* As long as no edit overlapped a refresh: the entry is dropped before the rows
\* change, and between their commit and CacheList the rows are the refresh's.
ListFollows ==
    /\ shelf = None \/ shelf = members
    /\ refresh # NoRefresh => \A w \in Worker : editor[w] = NoMemberEdit
    /\ refresh.pc \in {"replaced", "committed"} => shelf = None
    /\ refresh.pc = "replaced" => refresh.seen = members
    /\ refresh.pc = "committed" => refresh.items = members
    /\ \A w \in Worker : editor[w].pc = "dropped" => shelf = None

CollectionsInv ==
    CollectionsTypeOK /\ EditsOfItems /\ (~shelfRaced => ListFollows)
-----------------------------------------------------------------------------
\* The records at rest, and the bounds.
LEMMA IdleCollection ==
    /\ NoRefresh \in RefreshRecord /\ NoRefresh.pc = "idle"
    /\ NoMemberEdit \in MemberEditRecord /\ NoMemberEdit.pc = "idle"
    /\ MaxMemberEdits \in Nat /\ MaxRuleChanges \in Nat /\ MaxFailures \in Nat
<1>1. /\ MaxMemberEdits \in Nat /\ MaxRuleChanges \in Nat /\ MaxFailures \in Nat
  BY CollectionsAssumption
<1> QED
  BY <1>1 DEF NoRefresh, NoMemberEdit, RefreshRecord, MemberEditRecord

\* The types of the variables, by their records.
LEMMA CollectionShapes ==
    CollectionsTypeOK <=>
        /\ matching \subseteq Item /\ members \subseteq Item /\ open \in BOOLEAN
        /\ shelf = None \/ shelf \subseteq Item
        /\ refresh \in RefreshRecord /\ editor \in [Worker -> MemberEditRecord]
        /\ shelfRaced \in BOOLEAN
        /\ memberEdits \in 0 .. MaxMemberEdits /\ ruleChanges \in 0 .. MaxRuleChanges
        /\ failures \in 0 .. MaxFailures
  BY Zenon DEF CollectionsTypeOK, RefreshRecord, MemberEditRecord

\* Nothing is cached at the start.
LEMMA CollectionsStart == CollectionsInit => CollectionsInv
<1> SUFFICES ASSUME CollectionsInit PROVE CollectionsInv
  OBVIOUS
<1>1. /\ matching = {} /\ members = {} /\ shelf = None
      /\ refresh = NoRefresh /\ editor = [w \in Worker |-> NoMemberEdit]
      /\ memberEdits = 0 /\ ruleChanges = 0 /\ failures = 0
  BY DEF CollectionsInit
<1>2. open \in BOOLEAN /\ shelfRaced \in BOOLEAN
  BY Zenon DEF CollectionsInit
<1>3. /\ memberEdits \in 0 .. MaxMemberEdits /\ ruleChanges \in 0 .. MaxRuleChanges
      /\ failures \in 0 .. MaxFailures
  BY <1>1, IdleCollection
<1>4. CollectionsTypeOK
  BY <1>1, <1>2, <1>3, IdleCollection, CollectionShapes
<1> QED
  BY <1>1, <1>4, IdleCollection DEF CollectionsInv, EditsOfItems, ListFollows

\* Every step keeps it.
LEMMA CollectionsStepKeeps == CollectionsInv /\ [CollectionsNext]_collectionVars => CollectionsInv'
<1> SUFFICES ASSUME CollectionsInv, [CollectionsNext]_collectionVars PROVE CollectionsInv'
  OBVIOUS
<1>0. /\ matching \subseteq Item /\ members \subseteq Item /\ open \in BOOLEAN
      /\ shelf = None \/ shelf \subseteq Item
      /\ refresh \in RefreshRecord /\ editor \in [Worker -> MemberEditRecord]
      /\ shelfRaced \in BOOLEAN
      /\ memberEdits \in 0 .. MaxMemberEdits /\ ruleChanges \in 0 .. MaxRuleChanges
      /\ failures \in 0 .. MaxFailures
      /\ MaxMemberEdits \in Nat /\ MaxRuleChanges \in Nat /\ MaxFailures \in Nat
  BY CollectionShapes, IdleCollection DEF CollectionsInv
<1>e. EditsOfItems /\ (~shelfRaced => ListFollows)
  BY DEF CollectionsInv
<1>1. CASE RuleChanges
  <2>1. /\ ruleChanges < MaxRuleChanges /\ ruleChanges' = ruleChanges + 1 /\ matching' \subseteq Item
        /\ UNCHANGED <<members, shelf, refresh, editor, shelfRaced, memberEdits, failures>>
    BY <1>1 DEF RuleChanges
  <2>2. open' \in BOOLEAN
    BY <1>1, Zenon DEF RuleChanges
  <2>3. ruleChanges' \in 0 .. MaxRuleChanges
    BY <1>0, <2>1
  <2> QED
    BY <2>1, <2>2, <2>3 DEF CollectionsInv, CollectionsTypeOK, EditsOfItems, ListFollows
<1>2. CASE ComputeMembership
  <2>1. /\ refresh.pc = "idle" /\ refresh' = [NoRefresh EXCEPT !.pc = "computed", !.items = matching]
        /\ shelfRaced' = (shelfRaced \/ \E w \in Worker : editor[w] # NoMemberEdit)
        /\ UNCHANGED <<matching, open, members, shelf, editor, memberEdits, ruleChanges, failures>>
    BY <1>2 DEF ComputeMembership, Counters
  <2>2. shelfRaced' \in BOOLEAN
    BY <2>1, Zenon
  <2>3. refresh' \in RefreshRecord /\ refresh'.pc = "computed"
    BY <1>0, <2>1, IdleCollection DEF RefreshRecord
  <2>4. CollectionsTypeOK'
    BY <2>1, <2>2, <2>3 DEF CollectionsInv, CollectionsTypeOK, RefreshRecord
  <2>5. ~shelfRaced' => ~shelfRaced /\ \A w \in Worker : editor[w] = NoMemberEdit
    BY <2>1
  <2>6. ~shelfRaced' => ListFollows'
    BY <1>e, <2>1, <2>3, <2>5 DEF ListFollows
  <2> QED
    BY <1>e, <2>1, <2>4, <2>6 DEF CollectionsInv, EditsOfItems
<1>3. CASE ReplaceRows
  <2>1. /\ refresh.pc = "computed" /\ refresh' = [refresh EXCEPT !.pc = "replaced", !.seen = members]
        /\ shelf' = None
        /\ UNCHANGED <<matching, open, members, editor, shelfRaced, memberEdits, ruleChanges, failures>>
    BY <1>3 DEF ReplaceRows, Counters
  <2>2. refresh' \in RefreshRecord /\ refresh'.pc = "replaced" /\ refresh'.seen = members
    BY <1>0, <2>1 DEF RefreshRecord
  <2>3. CollectionsTypeOK'
    BY <2>1, <2>2 DEF CollectionsInv, CollectionsTypeOK, RefreshRecord
  <2>4. ~shelfRaced => \A w \in Worker : editor[w] = NoMemberEdit
    BY <1>e, <2>1, IdleCollection DEF ListFollows
  <2>5. ~shelfRaced' => ListFollows'
    BY <2>1, <2>2, <2>4 DEF ListFollows
  <2> QED
    BY <1>e, <2>1, <2>3, <2>5 DEF CollectionsInv, EditsOfItems
<1>4. CASE CommitRefresh
  <2>1. /\ refresh.pc = "replaced"
        /\ \/ /\ members' = refresh.items \cup (members \ refresh.seen)
              /\ refresh' = [refresh EXCEPT !.pc = "committed"]
           \/ refresh' = NoRefresh /\ members' = members
        /\ UNCHANGED <<matching, open, shelf, editor, shelfRaced, memberEdits, ruleChanges, failures>>
    BY <1>4 DEF CommitRefresh, Counters
  <2>2. refresh' \in RefreshRecord /\ members' \subseteq Item
    BY <1>0, <2>1, IdleCollection DEF RefreshRecord
  <2>3. CollectionsTypeOK'
    BY <2>1, <2>2 DEF CollectionsInv, CollectionsTypeOK, RefreshRecord
  <2>4. ~shelfRaced => /\ \A w \in Worker : editor[w] = NoMemberEdit
                       /\ shelf = None /\ refresh.seen = members
    BY <1>e, <2>1, IdleCollection DEF ListFollows
  <2>5. CASE refresh' = NoRefresh
    BY <1>e, <2>1, <2>3, <2>4, <2>5, IdleCollection DEF CollectionsInv, EditsOfItems, ListFollows
  <2>6. CASE /\ members' = refresh.items \cup (members \ refresh.seen)
             /\ refresh' = [refresh EXCEPT !.pc = "committed"]
    <3>1. refresh'.pc = "committed" /\ refresh'.items = refresh.items
      BY <1>0, <2>6 DEF RefreshRecord
    <3>2. ~shelfRaced => members' = refresh'.items
      BY <2>4, <2>6, <3>1
    <3>3. ~shelfRaced' => ListFollows'
      BY <2>1, <2>4, <3>1, <3>2 DEF ListFollows
    <3> QED
      BY <1>e, <2>1, <2>3, <3>3 DEF CollectionsInv, EditsOfItems
  <2> QED
    BY <2>1, <2>5, <2>6
<1>5. CASE CacheList
  <2>1. /\ refresh.pc = "committed" /\ shelf' = refresh.items /\ refresh' = NoRefresh
        /\ UNCHANGED <<matching, open, members, editor, shelfRaced, memberEdits, ruleChanges, failures>>
    BY <1>5 DEF CacheList, Counters
  <2>2. shelf' \subseteq Item
    BY <1>0, <2>1 DEF RefreshRecord
  <2>3. CollectionsTypeOK'
    BY <2>1, <2>2, IdleCollection DEF CollectionsInv, CollectionsTypeOK, RefreshRecord
  <2>4. ~shelfRaced => /\ \A w \in Worker : editor[w] = NoMemberEdit
                       /\ shelf' = members
    BY <1>e, <2>1, IdleCollection DEF ListFollows
  <2>5. ~shelfRaced' => ListFollows'
    BY <2>1, <2>4, IdleCollection DEF ListFollows
  <2> QED
    BY <1>e, <2>1, <2>3, <2>5 DEF CollectionsInv, EditsOfItems
<1>6. CASE RefreshFails
  <2>1. /\ failures < MaxFailures /\ failures' = failures + 1 /\ refresh' = NoRefresh
        /\ UNCHANGED <<matching, open, members, shelf, editor, shelfRaced, memberEdits, ruleChanges>>
    BY <1>6 DEF RefreshFails
  <2>2. failures' \in 0 .. MaxFailures
    BY <1>0, <2>1
  <2>3. CollectionsTypeOK'
    BY <2>1, <2>2, IdleCollection DEF CollectionsInv, CollectionsTypeOK, RefreshRecord
  <2> QED
    BY <1>e, <2>1, <2>3, IdleCollection DEF CollectionsInv, EditsOfItems, ListFollows
<1>7. CASE ExpireList
  <2>1. shelf' = None /\ UNCHANGED <<matching, open, members, refresh, editor, shelfRaced,
                                     memberEdits, ruleChanges, failures>>
    BY <1>7 DEF ExpireList, Counters
  <2> QED
    BY <2>1 DEF CollectionsInv, CollectionsTypeOK, EditsOfItems, ListFollows
<1>8. ASSUME NEW w \in Worker, OpenEdit(w) PROVE CollectionsInv'
  <2>1. PICK i \in Item :
        /\ memberEdits < MaxMemberEdits /\ memberEdits' = memberEdits + 1
        /\ editor' = [editor EXCEPT ![w] = [pc |-> "checked", item |-> i,
                                            op |-> IF i \in members THEN "remove" ELSE "add"]]
        /\ shelfRaced' = (shelfRaced \/ refresh # NoRefresh)
        /\ UNCHANGED <<matching, open, members, shelf, refresh, ruleChanges, failures>>
    BY <1>8 DEF OpenEdit
  <2>2. shelfRaced' \in BOOLEAN
    BY <2>1, Zenon
  <2>3. PICK op \in {"add", "remove"} : op = IF i \in members THEN "remove" ELSE "add"
    OBVIOUS
  <2>4. PICK c \in MemberEditRecord : c = [pc |-> "checked", item |-> i, op |-> op]
    BY DEF MemberEditRecord
  <2>5. /\ editor' \in [Worker -> MemberEditRecord] /\ editor'[w] = c
        /\ \A v \in Worker \ {w} : editor'[v] = editor[v]
    BY <1>0, <1>8, <2>1, <2>3, <2>4
  <2>6. memberEdits' \in 0 .. MaxMemberEdits
    BY <1>0, <2>1
  <2>7. CollectionsTypeOK'
    BY <2>1, <2>2, <2>5, <2>6 DEF CollectionsInv, CollectionsTypeOK, MemberEditRecord
  <2>8. EditsOfItems'
    BY <1>e, <2>4, <2>5 DEF EditsOfItems
  <2>9. ~shelfRaced' => ~shelfRaced /\ refresh = NoRefresh
    BY <2>1
  <2>10. ~shelfRaced' => ListFollows'
    BY <1>e, <2>1, <2>4, <2>5, <2>9, IdleCollection DEF ListFollows
  <2> QED
    BY <2>7, <2>8, <2>10 DEF CollectionsInv
<1>9. ASSUME NEW w \in Worker, DropList(w) PROVE CollectionsInv'
  <2>1. /\ editor[w].pc = "checked" /\ shelf' = None
        /\ editor' = [editor EXCEPT ![w].pc = "dropped"]
        /\ UNCHANGED <<matching, open, members, refresh, shelfRaced, memberEdits, ruleChanges, failures>>
    BY <1>9 DEF DropList, Counters
  <2>a. editor[w] \in MemberEditRecord
    BY <1>0, <1>9
  <2>b. [editor[w] EXCEPT !.pc = "dropped"] \in MemberEditRecord
    BY <2>a DEF MemberEditRecord
  <2>c. PICK c \in MemberEditRecord : c = [editor[w] EXCEPT !.pc = "dropped"]
    BY <2>b
  <2>2. c \in MemberEditRecord /\ c.item = editor[w].item
    BY <2>a, <2>c DEF MemberEditRecord
  <2>3. /\ editor' \in [Worker -> MemberEditRecord] /\ editor'[w] = c
        /\ \A v \in Worker \ {w} : editor'[v] = editor[v]
    BY <1>0, <1>9, <2>1, <2>2, <2>c
  <2>4. CollectionsTypeOK'
    BY <2>1, <2>3 DEF CollectionsInv, CollectionsTypeOK, MemberEditRecord
  <2>5. EditsOfItems' /\ editor[w] # NoMemberEdit
    BY <1>9, <1>e, <2>1, <2>2, <2>3, IdleCollection DEF EditsOfItems
  <2>6. ~shelfRaced' => ListFollows'
    BY <1>9, <1>e, <2>1, <2>5 DEF ListFollows
  <2> QED
    BY <2>4, <2>5, <2>6 DEF CollectionsInv
<1>10. ASSUME NEW w \in Worker, WriteMember(w) PROVE CollectionsInv'
  <2>1. /\ editor[w].pc = "dropped"
        /\ members' = IF editor[w].op = "add" THEN members \cup {editor[w].item}
                      ELSE members \ {editor[w].item}
        /\ editor' = [editor EXCEPT ![w] = NoMemberEdit]
        /\ UNCHANGED <<matching, open, shelf, refresh, shelfRaced, memberEdits, ruleChanges, failures>>
    BY <1>10 DEF WriteMember, Counters
  <2>2. editor[w] # NoMemberEdit /\ members' \subseteq Item
    BY <1>0, <1>10, <1>e, <2>1, IdleCollection DEF EditsOfItems
  <2>3. /\ editor' \in [Worker -> MemberEditRecord] /\ editor'[w] = NoMemberEdit
        /\ \A v \in Worker \ {w} : editor'[v] = editor[v]
    BY <1>0, <1>10, <2>1, IdleCollection
  <2>4. CollectionsTypeOK'
    BY <2>1, <2>2, <2>3 DEF CollectionsInv, CollectionsTypeOK, MemberEditRecord
  <2>5. ~shelfRaced => refresh = NoRefresh /\ shelf = None
    BY <1>10, <1>e, <2>1, <2>2 DEF ListFollows
  <2>6. ~shelfRaced' => ListFollows'
    BY <2>1, <2>5, IdleCollection DEF ListFollows
  <2> QED
    BY <1>e, <2>3, <2>4, <2>6 DEF CollectionsInv, EditsOfItems
<1>11. ASSUME NEW w \in Worker, EditFails(w) PROVE CollectionsInv'
  <2>1. /\ failures < MaxFailures /\ failures' = failures + 1
        /\ editor' = [editor EXCEPT ![w] = NoMemberEdit]
        /\ UNCHANGED <<matching, open, members, shelf, refresh, shelfRaced, memberEdits, ruleChanges>>
    BY <1>11 DEF EditFails
  <2>2. failures' \in 0 .. MaxFailures
    BY <1>0, <2>1
  <2>3. /\ editor' \in [Worker -> MemberEditRecord] /\ editor'[w] = NoMemberEdit
        /\ \A v \in Worker \ {w} : editor'[v] = editor[v]
    BY <1>0, <1>11, <2>1, IdleCollection
  <2>4. CollectionsTypeOK'
    BY <2>1, <2>2, <2>3 DEF CollectionsInv, CollectionsTypeOK, MemberEditRecord
  <2>5. ~shelfRaced' => ListFollows'
    BY <1>e, <2>1, <2>3, IdleCollection DEF ListFollows
  <2> QED
    BY <1>e, <2>3, <2>4, <2>5 DEF CollectionsInv, EditsOfItems
<1>12. CASE UNCHANGED collectionVars
  BY <1>12 DEF collectionVars, CollectionsInv, CollectionsTypeOK, EditsOfItems, ListFollows
<1> QED
  BY <1>1, <1>2, <1>3, <1>4, <1>5, <1>6, <1>7, <1>8, <1>9, <1>10, <1>11, <1>12
  DEF CollectionsNext, Sweep

\* The types of the variables.
THEOREM CollectionTypes == CollectionsSpec => []CollectionsTypeOK
<1>1. CollectionsInv => CollectionsTypeOK
  BY DEF CollectionsInv
<1> QED
  BY CollectionsStart, CollectionsStepKeeps, <1>1, PTL DEF CollectionsSpec

\* ListMatches: as long as no edit overlaps a refresh, the cached list is that of the
\* rows at every moment (refresh_smart_collection and the signals of apps/collections).
THEOREM CachedListMatches == CollectionsSpec => []ListMatches
<1>1. CollectionsInv => ListMatches
  BY DEF CollectionsInv, ListFollows, ListMatches
<1> QED
  BY CollectionsStart, CollectionsStepKeeps, <1>1, PTL DEF CollectionsSpec

-----------------------------------------------------------------------------
(***************************************************************************)
(* The price of a bundle.                                                  *)
(***************************************************************************)
PricedRecord == [bundle : BundleId, version : Nat]
OfferRecord == [pc : {"idle", "loaded", "listing", "dropping", "looking", "computed"},
                op : {"none", "create", "edit", "delete", "unlist", "item", "product", "read"},
                bundle : BundleId \cup {None}, slug : BundleSlug \cup {None},
                version : Nat, drops : SUBSET BundleSlug]

\* What a request has in hand at each point of it.
OfferHolds(t) ==
    /\ t.pc \in {"looking", "computed"} => t.op = "read"
    /\ t.pc = "loaded" => t.op \in {"edit", "item", "product"}
    /\ t.pc = "listing" => t.op = "product"
    /\ t.pc = "dropping" => t.op # "read"
    /\ t.pc = "idle" => t.op = "none"
    /\ t.pc # "idle" /\ t.op # "product" => t.bundle \in BundleId /\ t.slug \in BundleSlug
    /\ t.pc = "loaded" /\ t.op # "product" => t.drops = {t.slug}
OffersHold == \A w \in Worker : OfferHolds(offer[w])

\* The slugs a request changed the price behind and has still to drop.
Undropped(t) == CASE t.op = "product" /\ t.pc = "listing" -> BundleSlug
                  [] t.op \in {"edit", "item", "product"} /\ t.pc = "dropping" -> t.drops
                  [] OTHER -> {}

CurrentAt(b) == \/ priceEntry[slugOf[b]] = None
                \/ priceEntry[slugOf[b]] = [bundle |-> b, version |-> version[b]]

\* What is known of a request as long as nothing overlapped or died: a reader
\* computes from the rows of now, and what it drops in a transaction is dropped.
OfferStands(t) ==
    /\ t.op = "read" => /\ t.bundle \in Offered /\ t.slug = slugOf[t.bundle]
                        /\ t.version = version[t.bundle]
    /\ t.op \in {"create", "unlist"} => t.slug \in t.drops \/ priceEntry[t.slug] = None
    /\ t.op \in {"unlist", "item"} => t.bundle \in Offered /\ t.slug = slugOf[t.bundle]

EntriesFollow ==
    /\ \A v, w \in Worker : offer[v] # NoOffer /\ offer[w] # NoOffer /\ v # w =>
           offer[v].op = "read" /\ offer[w].op = "read"
    /\ \A w \in Worker : OfferStands(offer[w])
    /\ \A b \in Offered : CurrentAt(b) \/ \E w \in Worker : slugOf[b] \in Undropped(offer[w])

BundlesInv ==
    /\ BundlesTypeOK /\ priceEntry \in [BundleSlug -> PricedRecord \cup {None}]
    /\ OffersHold /\ (~unsound => EntriesFollow)
-----------------------------------------------------------------------------
\* No two bundles have one slug.
SlugsUnique == \A b, c \in Offered : slugOf[b] = slugOf[c] => b = c

\* The types of the variables, by their records.
LEMMA BundleShapes ==
    BundlesTypeOK <=>
        /\ slugOf \in [BundleId -> BundleSlug \cup {None}] /\ version \in [BundleId -> Nat]
        /\ \A s \in BundleSlug : priceEntry[s] = None \/ priceEntry[s] \in PricedRecord
        /\ offer \in [Worker -> OfferRecord]
        /\ bundleChanges \in 0 .. MaxBundleChanges /\ unsound \in BOOLEAN /\ bundleCrashes \in Nat
        /\ SlugsUnique
  BY Zenon DEF BundlesTypeOK, OfferRecord, PricedRecord, SlugsUnique

\* A request at rest.
LEMMA IdleOffer ==
    /\ NoOffer \in OfferRecord /\ NoOffer.pc = "idle" /\ NoOffer.op = "none"
    /\ OfferHolds(NoOffer) /\ Undropped(NoOffer) = {} /\ OfferStands(NoOffer)
    /\ MaxBundleChanges \in Nat /\ None \notin BundleId \cup BundleSlug
<1>1. MaxBundleChanges \in Nat /\ None \notin BundleId \cup BundleSlug
  BY BundlePricesAssumption
<1>2. NoOffer \in OfferRecord /\ NoOffer.pc = "idle" /\ NoOffer.op = "none"
  BY DEF NoOffer, OfferRecord
<1> QED
  BY <1>1, <1>2 DEF OfferHolds, Undropped, OfferStands

\* The invariant, with the types taken apart.
BundleFacts ==
    /\ slugOf \in [BundleId -> BundleSlug \cup {None}] /\ version \in [BundleId -> Nat]
    /\ priceEntry \in [BundleSlug -> PricedRecord \cup {None}]
    /\ offer \in [Worker -> OfferRecord]
    /\ bundleChanges \in 0 .. MaxBundleChanges /\ unsound \in BOOLEAN /\ bundleCrashes \in Nat
    /\ SlugsUnique /\ OffersHold

\* The invariant is the facts about single requests and, while every write was
\* committed before it dropped entries, that the entries follow the rows.
LEMMA BundleParts == BundlesInv <=> BundleFacts /\ (~unsound => EntriesFollow)
<1>1. priceEntry \in [BundleSlug -> PricedRecord \cup {None}] =>
        \A s \in BundleSlug : priceEntry[s] = None \/ priceEntry[s] \in PricedRecord
  OBVIOUS
<1> QED
  BY <1>1, BundleShapes, Zenon DEF BundlesInv, BundleFacts

\* No entry is stored and no request is under way at the start.
LEMMA BundlesStart == BundlesInit => BundlesInv
<1> SUFFICES ASSUME BundlesInit PROVE BundlesInv
  OBVIOUS
<1>1. /\ slugOf = [b \in BundleId |-> None] /\ version = [b \in BundleId |-> 0]
      /\ priceEntry = [s \in BundleSlug |-> None]
      /\ offer = [w \in Worker |-> NoOffer]
      /\ bundleChanges = 0 /\ unsound = FALSE /\ bundleCrashes = 0
  BY DEF BundlesInit
<1>2. Offered = {}
  BY <1>1 DEF Offered
<1>3. bundleChanges \in 0 .. MaxBundleChanges /\ bundleCrashes \in Nat
  BY <1>1, IdleOffer
<1>4. BundleFacts
  BY <1>1, <1>2, <1>3, IdleOffer DEF BundleFacts, SlugsUnique, OffersHold
<1>5. EntriesFollow
  BY <1>1, <1>2, IdleOffer DEF EntriesFollow
<1> QED
  BY <1>4, <1>5, BundleParts

\* A request that begins knows what it has read.
LEMMA OfferBegun ==
    ASSUME NEW w \in Worker, NEW t \in OfferRecord, OfferHolds(t), t.pc # "idle",
           BundleFacts, ~unsound => EntriesFollow, OfferBegins(w, t),
           OfferStands(t), bundleChanges' \in 0 .. MaxBundleChanges
    PROVE  BundleFacts' /\ (~unsound' => EntriesFollow')
<1>1. /\ offer[w] = NoOffer /\ offer' = [offer EXCEPT ![w] = t]
      /\ slugOf' = slugOf /\ version' = version /\ priceEntry' = priceEntry
      /\ bundleCrashes' = bundleCrashes
      /\ unsound' = (unsound \/ \E v \in {u \in Worker : offer[u] # NoOffer} :
                                    t.op # "read" \/ offer[v].op # "read")
  BY DEF OfferBegins
<1>2. unsound' \in BOOLEAN
  BY <1>1, Zenon
<1>3. /\ offer' \in [Worker -> OfferRecord] /\ offer'[w] = t
      /\ \A v \in Worker \ {w} : offer'[v] = offer[v]
  BY <1>1 DEF BundleFacts
<1>4. BundleFacts'
  BY <1>1, <1>2, <1>3 DEF BundleFacts, SlugsUnique, OffersHold, OfferHolds, Offered
<1>5. ASSUME ~unsound' PROVE EntriesFollow'
  <2>1. /\ EntriesFollow
        /\ \A v \in Worker : offer[v] # NoOffer => t.op = "read" /\ offer[v].op = "read"
    BY <1>1, <1>5
  <2>2. \A v \in Worker : Undropped(offer[v]) = {}
    BY <2>1, IdleOffer DEF Undropped
  <2>3. \A b \in Offered : CurrentAt(b)
    BY <2>1, <2>2 DEF EntriesFollow
  <2>4. \A b \in Offered' : CurrentAt(b)'
    BY <1>1, <2>3 DEF Offered, CurrentAt
  <2>5. \A v \in Worker : OfferStands(offer[v])
    BY <2>1 DEF EntriesFollow
  <2>6. \A v \in Worker : OfferStands(offer'[v])
    BY <1>3, <2>5
  <2>7. \A v \in Worker : OfferStands(offer[v])'
    BY <1>1, <2>6 DEF OfferStands, Offered
  <2> QED
    BY <1>1, <1>3, <2>1, <2>4, <2>7 DEF EntriesFollow
<1> QED
  BY <1>4, <1>5

\* A write, or a read, begins.
LEMMA WriteBegins ==
    ASSUME NEW w \in Worker, BundleFacts, ~unsound => EntriesFollow, BeginBundleWrite(w)
    PROVE  BundleFacts' /\ (~unsound' => EntriesFollow')
<1>0. /\ BundleFacts /\ (~unsound => EntriesFollow) /\ BeginBundleWrite(w)
      /\ slugOf \in [BundleId -> BundleSlug \cup {None}] /\ w \in Worker
  BY DEF BundleFacts
<1>b. \A b \in Offered : b \in BundleId /\ slugOf[b] \in BundleSlug /\ slugOf[b] # None
  BY <1>0 DEF Offered
<1>1. bundleChanges' \in 0 .. MaxBundleChanges
  <2>1. bundleChanges < MaxBundleChanges /\ bundleChanges' = bundleChanges + 1
    BY <1>0 DEF BeginBundleWrite
  <2> QED
    BY <1>0, <2>1, IdleOffer DEF BundleFacts
<1>2. ASSUME NEW b \in BundleId, NEW s \in BundleSlug,
          OfferBegins(w, [NoOffer EXCEPT !.pc = "dropping", !.op = "create", !.bundle = b,
                                !.slug = s, !.drops = {s}])
    PROVE BundleFacts' /\ (~unsound' => EntriesFollow')
  <2>1. [NoOffer EXCEPT !.pc = "dropping", !.op = "create", !.bundle = b,
                                !.slug = s, !.drops = {s}] \in OfferRecord
    BY <1>0, <1>2, <1>b DEF NoOffer, OfferRecord
  <2>2. PICK c \in OfferRecord : c = [NoOffer EXCEPT !.pc = "dropping", !.op = "create", !.bundle = b,
                                !.slug = s, !.drops = {s}]
    BY <2>1
  <2>3. c.pc = "dropping" /\ c.op = "create" /\ c.bundle = b /\ c.slug = s /\ c.drops = {s}
    BY <2>2 DEF NoOffer
  <2>4. OfferHolds(c)
    BY <1>0, <1>2, <1>b, <2>3 DEF OfferHolds
  <2>5. OfferStands(c)
    BY <1>0, <1>2, <1>b, <2>3 DEF OfferStands
  <2> QED
    BY <1>0, <1>1, <1>2, <2>2, <2>3, <2>4, <2>5, OfferBegun
<1>3. ASSUME NEW b \in Offered, NEW s \in BundleSlug,
          OfferBegins(w, [NoOffer EXCEPT !.pc = "loaded", !.op = "edit", !.bundle = b,
                                !.slug = s, !.drops = {s}])
    PROVE BundleFacts' /\ (~unsound' => EntriesFollow')
  <2>1. [NoOffer EXCEPT !.pc = "loaded", !.op = "edit", !.bundle = b,
                                !.slug = s, !.drops = {s}] \in OfferRecord
    BY <1>0, <1>3, <1>b DEF NoOffer, OfferRecord
  <2>2. PICK c \in OfferRecord : c = [NoOffer EXCEPT !.pc = "loaded", !.op = "edit", !.bundle = b,
                                !.slug = s, !.drops = {s}]
    BY <2>1
  <2>3. c.pc = "loaded" /\ c.op = "edit" /\ c.bundle = b /\ c.slug = s /\ c.drops = {s}
    BY <2>2 DEF NoOffer
  <2>4. OfferHolds(c)
    BY <1>0, <1>3, <1>b, <2>3 DEF OfferHolds
  <2>5. OfferStands(c)
    BY <1>0, <1>3, <1>b, <2>3 DEF OfferStands
  <2> QED
    BY <1>0, <1>1, <1>3, <2>2, <2>3, <2>4, <2>5, OfferBegun
<1>4. ASSUME NEW b \in Offered, NEW op \in {"delete", "unlist"},
          OfferBegins(w, [NoOffer EXCEPT !.pc = "dropping", !.op = op, !.bundle = b,
                                !.slug = slugOf[b], !.drops = {slugOf[b]}])
    PROVE BundleFacts' /\ (~unsound' => EntriesFollow')
  <2>1. [NoOffer EXCEPT !.pc = "dropping", !.op = op, !.bundle = b,
                                !.slug = slugOf[b], !.drops = {slugOf[b]}] \in OfferRecord
    BY <1>0, <1>4, <1>b DEF NoOffer, OfferRecord
  <2>2. PICK c \in OfferRecord : c = [NoOffer EXCEPT !.pc = "dropping", !.op = op, !.bundle = b,
                                !.slug = slugOf[b], !.drops = {slugOf[b]}]
    BY <2>1
  <2>3. c.pc = "dropping" /\ c.op = op /\ c.bundle = b /\ c.slug = slugOf[b] /\ c.drops = {slugOf[b]}
    BY <2>2 DEF NoOffer
  <2>4. OfferHolds(c)
    BY <1>0, <1>4, <1>b, <2>3 DEF OfferHolds
  <2>5. OfferStands(c)
    BY <1>0, <1>4, <1>b, <2>3 DEF OfferStands
  <2> QED
    BY <1>0, <1>1, <1>4, <2>2, <2>3, <2>4, <2>5, OfferBegun
<1>5. ASSUME NEW b \in Offered,
          OfferBegins(w, [NoOffer EXCEPT !.pc = "loaded", !.op = "item", !.bundle = b,
                                !.slug = slugOf[b], !.drops = {slugOf[b]}])
    PROVE BundleFacts' /\ (~unsound' => EntriesFollow')
  <2>1. [NoOffer EXCEPT !.pc = "loaded", !.op = "item", !.bundle = b,
                                !.slug = slugOf[b], !.drops = {slugOf[b]}] \in OfferRecord
    BY <1>0, <1>5, <1>b DEF NoOffer, OfferRecord
  <2>2. PICK c \in OfferRecord : c = [NoOffer EXCEPT !.pc = "loaded", !.op = "item", !.bundle = b,
                                !.slug = slugOf[b], !.drops = {slugOf[b]}]
    BY <2>1
  <2>3. c.pc = "loaded" /\ c.op = "item" /\ c.bundle = b /\ c.slug = slugOf[b] /\ c.drops = {slugOf[b]}
    BY <2>2 DEF NoOffer
  <2>4. OfferHolds(c)
    BY <1>0, <1>5, <1>b, <2>3 DEF OfferHolds
  <2>5. OfferStands(c)
    BY <1>0, <1>5, <1>b, <2>3 DEF OfferStands
  <2> QED
    BY <1>0, <1>1, <1>5, <2>2, <2>3, <2>4, <2>5, OfferBegun
<1>6. ASSUME OfferBegins(w, [NoOffer EXCEPT !.pc = "loaded", !.op = "product"])
    PROVE BundleFacts' /\ (~unsound' => EntriesFollow')
  <2>1. [NoOffer EXCEPT !.pc = "loaded", !.op = "product"] \in OfferRecord
    BY <1>0, <1>6, <1>b DEF NoOffer, OfferRecord
  <2>2. PICK c \in OfferRecord : c = [NoOffer EXCEPT !.pc = "loaded", !.op = "product"]
    BY <2>1
  <2>3. c.pc = "loaded" /\ c.op = "product"
    BY <2>2 DEF NoOffer
  <2>4. OfferHolds(c)
    BY <1>0, <1>6, <1>b, <2>3 DEF OfferHolds
  <2>5. OfferStands(c)
    BY <1>0, <1>6, <1>b, <2>3 DEF OfferStands
  <2> QED
    BY <1>0, <1>1, <1>6, <2>2, <2>3, <2>4, <2>5, OfferBegun
<1> QED
  BY <1>0, <1>2, <1>3, <1>4, <1>5, <1>6 DEF BeginBundleWrite

\* A request that loads a bundle has in hand what the row is now.
LEMMA ReadBegins ==
    ASSUME NEW w \in Worker, BundleFacts, ~unsound => EntriesFollow, LoadOffer(w)
    PROVE  BundleFacts' /\ (~unsound' => EntriesFollow')
<1>0. /\ BundleFacts /\ (~unsound => EntriesFollow) /\ LoadOffer(w) /\ w \in Worker
      /\ slugOf \in [BundleId -> BundleSlug \cup {None}] /\ version \in [BundleId -> Nat]
  BY DEF BundleFacts
<1>b. \A b \in Offered : b \in BundleId /\ slugOf[b] \in BundleSlug /\ slugOf[b] # None
  BY <1>0 DEF Offered
<1>1. bundleChanges' \in 0 .. MaxBundleChanges
  BY DEF LoadOffer, BundleFacts
<1>2. PICK b \in Offered :
          OfferBegins(w, [NoOffer EXCEPT !.pc = "looking", !.op = "read", !.bundle = b,
                                         !.slug = slugOf[b], !.version = version[b]])
  BY DEF LoadOffer
<1>3. [NoOffer EXCEPT !.pc = "looking", !.op = "read", !.bundle = b, !.slug = slugOf[b],
                      !.version = version[b]] \in OfferRecord
  BY <1>0, <1>b DEF NoOffer, OfferRecord
<1>4. PICK c \in OfferRecord :
          c = [NoOffer EXCEPT !.pc = "looking", !.op = "read", !.bundle = b, !.slug = slugOf[b],
                              !.version = version[b]]
  BY <1>3
<1>5. c.pc = "looking" /\ c.op = "read" /\ c.bundle = b /\ c.slug = slugOf[b] /\ c.version = version[b]
  BY <1>4 DEF NoOffer
<1>6. OfferHolds(c) /\ OfferStands(c)
  BY <1>b, <1>5 DEF OfferHolds, OfferStands
<1> QED
  BY <1>0, <1>1, <1>2, <1>4, <1>5, <1>6, OfferBegun

\* A request that goes on, or ends, while the bundles stay as they are.
LEMMA OfferMoves ==
    ASSUME NEW w \in Worker, NEW c \in OfferRecord, OfferHolds(c), BundleFacts,
           ~unsound => EntriesFollow, offer' = [offer EXCEPT ![w] = c], offer[w] # NoOffer,
           UNCHANGED <<slugOf, version, bundleChanges>>,
           priceEntry' \in [BundleSlug -> PricedRecord \cup {None}],
           bundleCrashes' \in Nat, unsound' \in BOOLEAN, ~unsound' => ~unsound,
           ~unsound' /\ EntriesFollow =>
               /\ OfferStands(c)' /\ (c = NoOffer \/ c.op = offer[w].op)
               /\ \A b \in Offered :
                     /\ CurrentAt(b) => CurrentAt(b)'
                     /\ slugOf[b] \in Undropped(offer[w]) =>
                            slugOf[b] \in Undropped(c) \/ CurrentAt(b)'
    PROVE  BundleFacts' /\ (~unsound' => EntriesFollow')
<1>1. /\ offer' \in [Worker -> OfferRecord] /\ offer'[w] = c
      /\ \A v \in Worker \ {w} : offer'[v] = offer[v]
  BY DEF BundleFacts
<1>2. BundleFacts'
  BY <1>1 DEF BundleFacts, SlugsUnique, OffersHold, OfferHolds, Offered
<1>3. ASSUME ~unsound' PROVE EntriesFollow'
  <2>1. /\ EntriesFollow /\ OfferStands(c)' /\ (c = NoOffer \/ c.op = offer[w].op)
        /\ \A b \in Offered :
              /\ CurrentAt(b) => CurrentAt(b)'
              /\ slugOf[b] \in Undropped(offer[w]) => slugOf[b] \in Undropped(c) \/ CurrentAt(b)'
    BY <1>3
  <2>2. \A v \in Worker \ {w} : offer[v] = NoOffer \/ offer[v].op = "read"
    BY <2>1 DEF EntriesFollow
  <2>3. \A v \in Worker : OfferStands(offer[v])'
    BY <1>1, <2>1, <2>2, IdleOffer DEF EntriesFollow, OfferStands, Offered
  <2>4. ASSUME NEW u \in Worker, NEW v \in Worker, u # v,
               offer'[u] # NoOffer, offer'[v] # NoOffer
        PROVE  offer'[u].op = "read" /\ offer'[v].op = "read"
    BY <1>1, <2>1, <2>4 DEF EntriesFollow
  <2>5. ASSUME NEW b \in Offered'
        PROVE  CurrentAt(b)' \/ \E v \in Worker : slugOf'[b] \in Undropped(offer'[v])
    <3>1. b \in Offered /\ slugOf'[b] = slugOf[b]
      BY <2>5 DEF Offered
    <3>2. CASE CurrentAt(b)
      BY <2>1, <3>1, <3>2
    <3>3. CASE \E v \in Worker : slugOf[b] \in Undropped(offer[v])
      BY <1>1, <2>1, <3>1, <3>3
    <3> QED
      BY <2>1, <3>1, <3>2, <3>3 DEF EntriesFollow
  <2>6. \A b \in Offered' : CurrentAt(b)' \/ \E v \in Worker : slugOf'[b] \in Undropped(offer[v])'
    BY <2>5 DEF Undropped
  <2> QED
    BY <2>3, <2>4, <2>6 DEF EntriesFollow
<1> QED
  BY <1>2, <1>3

\* A writer whose rows commit, alone.
LEMMA WriterCommits ==
    ASSUME NEW w \in Worker, NEW c \in OfferRecord, OfferHolds(c), BundleFacts,
           ~unsound => EntriesFollow, offer' = [offer EXCEPT ![w] = c], offer[w] # NoOffer,
           offer[w].op # "read", UNCHANGED <<priceEntry, bundleChanges, unsound, bundleCrashes>>,
           slugOf' \in [BundleId -> BundleSlug \cup {None}], version' \in [BundleId -> Nat],
           SlugsUnique',
           EntriesFollow /\ (\A v \in Worker \ {w} : offer[v] = NoOffer) =>
               /\ OfferStands(c)'
               /\ \A b \in Offered' : CurrentAt(b)' \/ slugOf'[b] \in Undropped(c)
    PROVE  BundleFacts' /\ (~unsound' => EntriesFollow')
<1>1. /\ offer' \in [Worker -> OfferRecord] /\ offer'[w] = c
      /\ \A v \in Worker \ {w} : offer'[v] = offer[v]
  BY DEF BundleFacts
<1>2. BundleFacts'
  BY <1>1 DEF BundleFacts, OffersHold, OfferHolds
<1>3. ASSUME ~unsound' PROVE EntriesFollow'
  <2>1. EntriesFollow
    BY <1>3
  <2>2. \A v \in Worker \ {w} : offer[v] = NoOffer
    BY <2>1 DEF EntriesFollow
  <2>3. /\ OfferStands(c)'
        /\ \A b \in Offered' : CurrentAt(b)' \/ slugOf'[b] \in Undropped(c)
    BY <2>1, <2>2
  <2>4. \A v \in Worker : OfferStands(offer[v])'
    BY <1>1, <2>2, <2>3, IdleOffer DEF OfferStands
  <2>5. \A b \in Offered' : CurrentAt(b)' \/ \E v \in Worker : slugOf'[b] \in Undropped(offer'[v])
    BY <1>1, <2>3
  <2>6. \A b \in Offered' : CurrentAt(b)' \/ \E v \in Worker : slugOf'[b] \in Undropped(offer[v])'
    BY <2>5 DEF Undropped
  <2> QED
    BY <1>1, <2>2, <2>4, <2>6 DEF EntriesFollow
<1> QED
  BY <1>2, <1>3

\* What a change counts.
LEMMA VersionsCount ==
    ASSUME NEW t, version \in [BundleId -> Nat]
    PROVE  /\ Versions(t) \in [BundleId -> Nat]
           /\ \A b \in BundleId \ Touched(t) : Versions(t)[b] = version[b]
  BY DEF Versions

\* Save commits a change and leaves what it made stale to be dropped.
LEMMA SaveKeeps ==
    ASSUME NEW w \in Worker, BundleFacts, ~unsound => EntriesFollow, SaveOffer(w)
    PROVE  BundleFacts' /\ (~unsound' => EntriesFollow')
<1>0. /\ slugOf \in [BundleId -> BundleSlug \cup {None}] /\ version \in [BundleId -> Nat]
      /\ priceEntry \in [BundleSlug -> PricedRecord \cup {None}] /\ w \in Worker
      /\ offer \in [Worker -> OfferRecord] /\ unsound \in BOOLEAN /\ bundleCrashes \in Nat
      /\ SlugsUnique /\ OffersHold
  BY DEF BundleFacts
<1>1. PICK t \in OfferRecord : t = offer[w]
  BY <1>0
<1>2. /\ t.pc = "loaded" /\ t # NoOffer /\ OfferHolds(t) /\ t.op \in {"edit", "item", "product"}
      /\ t.op # "product" => t.bundle \in BundleId /\ t.slug \in BundleSlug /\ t.drops = {t.slug}
      /\ UNCHANGED <<priceEntry, bundleChanges, unsound, bundleCrashes>>
      /\ None \notin BundleSlug
  BY <1>0, <1>1, IdleOffer DEF SaveOffer, OffersHold, OfferHolds
<1>3. CASE \/ t.op = "edit" /\ \E b \in Offered \ {t.bundle} : slugOf[b] = t.slug
           \/ t.op = "item" /\ t.bundle \notin Offered
  <2>1. offer' = [offer EXCEPT ![w] = NoOffer] /\ UNCHANGED <<slugOf, version>>
    BY <1>1, <1>3 DEF SaveOffer
  <2>2. Undropped(offer[w]) = {}
    BY <1>1, <1>2 DEF Undropped
  <2>3. OfferStands(NoOffer)' /\ \A b \in Offered : CurrentAt(b) => CurrentAt(b)'
    BY <1>2, <2>1, IdleOffer DEF OfferStands, CurrentAt
  <2> QED
    BY <1>0, <1>1, <1>2, <2>1, <2>2, <2>3, OfferMoves, IdleOffer
<1>4. CASE ~(\/ t.op = "edit" /\ \E b \in Offered \ {t.bundle} : slugOf[b] = t.slug
             \/ t.op = "item" /\ t.bundle \notin Offered)
  <2>1. /\ slugOf' = IF t.op = "edit" THEN [slugOf EXCEPT ![t.bundle] = t.slug] ELSE slugOf
        /\ version' = Versions(t)
        /\ offer' = [offer EXCEPT ![w].pc = IF t.op = "product" THEN "listing" ELSE "dropping"]
    BY <1>1, <1>4 DEF SaveOffer
  <2>2. [t EXCEPT !.pc = IF t.op = "product" THEN "listing" ELSE "dropping"] \in OfferRecord
    BY DEF OfferRecord
  <2>3. PICK c \in OfferRecord :
            c = [t EXCEPT !.pc = IF t.op = "product" THEN "listing" ELSE "dropping"]
    BY <2>2
  <2>4. /\ c.pc = (IF t.op = "product" THEN "listing" ELSE "dropping") /\ c.op = t.op
        /\ c.bundle = t.bundle /\ c.slug = t.slug /\ c.drops = t.drops
    BY <2>3 DEF OfferRecord
  <2>5. offer' = [offer EXCEPT ![w] = c]
    BY <1>0, <1>1, <2>1, <2>3
  <2>6. OfferHolds(c)
    BY <1>2, <2>4 DEF OfferHolds
  <2>7. /\ slugOf' \in [BundleId -> BundleSlug \cup {None}] /\ version' \in [BundleId -> Nat]
        /\ \A b \in BundleId \ Touched(t) : version'[b] = version[b] /\ slugOf'[b] = slugOf[b]
    <3>1. slugOf' \in [BundleId -> BundleSlug \cup {None}]
      BY <1>0, <1>2, <2>1
    <3>2. \A b \in BundleId \ Touched(t) : slugOf'[b] = slugOf[b]
      BY <1>0, <1>2, <2>1 DEF Touched
    <3> QED
      BY <1>0, <2>1, <3>1, <3>2, VersionsCount
  <2>8. SlugsUnique'
    <3>1. CASE t.op = "edit"
      <4>1. \A b \in Offered \ {t.bundle} : slugOf[b] # t.slug
        BY <1>4, <3>1
      <4>2. slugOf'[t.bundle] = t.slug /\ \A b \in BundleId \ {t.bundle} : slugOf'[b] = slugOf[b]
        BY <1>0, <1>2, <2>1, <3>1
      <4> QED
        BY <1>0, <4>1, <4>2 DEF SlugsUnique, Offered
    <3>2. CASE t.op # "edit"
      BY <1>0, <2>1, <3>2 DEF SlugsUnique, Offered
    <3> QED
      BY <3>1, <3>2
  <2>9. ASSUME EntriesFollow, \A v \in Worker \ {w} : offer[v] = NoOffer
        PROVE  OfferStands(c)' /\ \A b \in Offered' : CurrentAt(b)' \/ slugOf'[b] \in Undropped(c)
    <3>1. t.op = "item" => t.bundle \in Offered /\ t.slug = slugOf[t.bundle]
      BY <1>1, <2>9 DEF EntriesFollow, OfferStands
    <3>2. OfferStands(c)'
      BY <1>2, <2>1, <2>4, <3>1 DEF OfferStands, Offered
    <3>3. Undropped(c) = IF t.op = "product" THEN BundleSlug ELSE {t.slug}
      BY <1>2, <2>4 DEF Undropped
    <3>4. \A v \in Worker : Undropped(offer[v]) = {}
      BY <1>1, <1>2, <2>9, IdleOffer DEF Undropped
    <3>5. ASSUME NEW b \in Offered' PROVE CurrentAt(b)' \/ slugOf'[b] \in Undropped(c)
      <4>1. b \in BundleId /\ slugOf'[b] \in BundleSlug
        BY <2>7, <3>5 DEF Offered
      <4>2. CASE b \in Touched(t)
        <5>1. CASE t.op = "product"
          BY <3>3, <4>1, <5>1
        <5>2. CASE t.op = "edit"
          BY <1>0, <1>2, <2>1, <3>3, <4>2, <5>2 DEF Touched
        <5>3. CASE t.op = "item"
          BY <2>1, <3>1, <3>3, <4>2, <5>3 DEF Touched
        <5> QED
          BY <1>2, <5>1, <5>2, <5>3
      <4>3. CASE b \notin Touched(t)
        <5>1. version'[b] = version[b] /\ slugOf'[b] = slugOf[b] /\ b \in Offered
          BY <2>7, <3>5, <4>1, <4>3 DEF Offered
        <5>2. CurrentAt(b)
          BY <2>9, <3>4, <5>1 DEF EntriesFollow
        <5> QED
          BY <1>2, <5>1, <5>2 DEF CurrentAt
      <4> QED
        BY <4>2, <4>3
    <3> QED
      BY <3>2, <3>5
  <2>10. offer[w] # NoOffer /\ offer[w].op # "read"
    BY <1>1, <1>2
  <2> QED
    BY <1>2, <2>5, <2>6, <2>7, <2>8, <2>9, <2>10, WriterCommits
<1> QED
  BY <1>3, <1>4

\* What commits at the end of its transaction has dropped its slug before.
LEMMA EndKeeps ==
    ASSUME NEW w \in Worker, BundleFacts, ~unsound => EntriesFollow, EndOffer(w)
    PROVE  BundleFacts' /\ (~unsound' => EntriesFollow')
<1>0. /\ slugOf \in [BundleId -> BundleSlug \cup {None}] /\ version \in [BundleId -> Nat]
      /\ priceEntry \in [BundleSlug -> PricedRecord \cup {None}] /\ w \in Worker
      /\ offer \in [Worker -> OfferRecord] /\ unsound \in BOOLEAN /\ bundleCrashes \in Nat
      /\ SlugsUnique /\ OffersHold
  BY DEF BundleFacts
<1>1. PICK t \in OfferRecord : t = offer[w]
  BY <1>0
<1>2. /\ t.pc = "dropping" /\ t.drops = {} /\ t # NoOffer /\ t.op # "read"
      /\ t.op # "product" => t.bundle \in BundleId /\ t.slug \in BundleSlug
      /\ UNCHANGED <<priceEntry, bundleChanges, unsound, bundleCrashes>>
      /\ None \notin BundleSlug
      /\ offer' = [offer EXCEPT ![w] = NoOffer]
  BY <1>0, <1>1, IdleOffer DEF EndOffer, OffersHold, OfferHolds
<1>3. Undropped(t) = {}
  BY <1>2 DEF Undropped
<1>4. CASE ~(t.op \in {"create", "delete", "unlist"} /\ ~(t.op = "create" /\ Taken(t.slug)))
  <2>1. UNCHANGED <<slugOf, version>>
    BY <1>1, <1>4 DEF EndOffer
  <2>2. OfferStands(NoOffer)' /\ \A b \in Offered : CurrentAt(b) => CurrentAt(b)'
    BY <1>2, <2>1, IdleOffer DEF OfferStands, CurrentAt
  <2> QED
    BY <1>0, <1>1, <1>2, <1>3, <2>1, <2>2, OfferMoves, IdleOffer
<1>5. CASE t.op \in {"create", "delete", "unlist"} /\ ~(t.op = "create" /\ Taken(t.slug))
  <2>1. /\ slugOf' = CASE t.op = "create" -> [slugOf EXCEPT ![t.bundle] = t.slug]
                       [] t.op = "delete" -> [slugOf EXCEPT ![t.bundle] = None]
                       [] OTHER -> slugOf
        /\ version' = Versions(t)
    BY <1>1, <1>5 DEF EndOffer
  <2>2. /\ slugOf' \in [BundleId -> BundleSlug \cup {None}]
        /\ \A b \in BundleId \ {t.bundle} : slugOf'[b] = slugOf[b]
        /\ slugOf'[t.bundle] = CASE t.op = "create" -> t.slug [] t.op = "delete" -> None
                                 [] OTHER -> slugOf[t.bundle]
    BY <1>0, <1>2, <1>5, <2>1
  <2>3. /\ version' \in [BundleId -> Nat]
        /\ \A b \in BundleId \ {t.bundle} : version'[b] = version[b]
    <3>1. Touched(t) = {t.bundle}
      BY <1>5 DEF Touched
    <3> QED
      BY <1>0, <2>1, <3>1, VersionsCount
  <2>4. SlugsUnique'
    <3>1. t.op = "create" => \A b \in Offered : slugOf[b] # t.slug
      BY <1>5 DEF Taken
    <3> QED
      BY <1>0, <1>5, <2>2, <3>1 DEF SlugsUnique, Offered
  <2>5. ASSUME EntriesFollow, \A v \in Worker \ {w} : offer[v] = NoOffer
        PROVE  OfferStands(NoOffer)' /\ \A b \in Offered' : CurrentAt(b)'
    <3>1. /\ t.op \in {"create", "unlist"} => priceEntry[t.slug] = None
          /\ t.op = "unlist" => t.slug = slugOf[t.bundle]
      BY <1>1, <1>2, <2>5 DEF EntriesFollow, OfferStands
    <3>2. \A v \in Worker : Undropped(offer[v]) = {}
      BY <1>1, <1>3, <2>5, IdleOffer
    <3>3. ASSUME NEW b \in Offered' PROVE CurrentAt(b)'
      <4>1. CASE b = t.bundle
        <5>1. t.op # "delete"
          BY <2>2, <3>3, <4>1 DEF Offered
        <5>2. slugOf'[b] = t.slug /\ priceEntry'[slugOf'[b]] = None
          BY <1>2, <1>5, <2>2, <3>1, <4>1, <5>1
        <5> QED
          BY <5>2 DEF CurrentAt
      <4>2. CASE b # t.bundle
        <5>1. version'[b] = version[b] /\ slugOf'[b] = slugOf[b] /\ b \in Offered
          BY <2>2, <2>3, <3>3, <4>2 DEF Offered
        <5>2. CurrentAt(b)
          BY <2>5, <3>2, <5>1 DEF EntriesFollow
        <5> QED
          BY <1>2, <5>1, <5>2 DEF CurrentAt
      <4> QED
        BY <4>1, <4>2
    <3>4. OfferStands(NoOffer)'
      BY IdleOffer DEF OfferStands
    <3> QED
      BY <3>3, <3>4
  <2>6. offer[w] # NoOffer /\ offer[w].op # "read"
    BY <1>1, <1>2
  <2> QED
    BY <1>2, <2>2, <2>3, <2>4, <2>5, <2>6, WriterCommits, IdleOffer
<1> QED
  BY <1>4, <1>5

\* The other moves of a request: it lists, it drops, it looks up, it stores, it dies.
LEMMA OthersKeep ==
    ASSUME NEW w \in Worker, BundleFacts, ~unsound => EntriesFollow,
           ListBundles(w) \/ DropPrice(w) \/ LookUpPrice(w) \/ StorePrice(w) \/ OfferDies(w)
    PROVE  BundleFacts' /\ (~unsound' => EntriesFollow')
<1>0. /\ slugOf \in [BundleId -> BundleSlug \cup {None}] /\ version \in [BundleId -> Nat]
      /\ priceEntry \in [BundleSlug -> PricedRecord \cup {None}] /\ w \in Worker
      /\ offer \in [Worker -> OfferRecord] /\ unsound \in BOOLEAN /\ bundleCrashes \in Nat
      /\ SlugsUnique /\ OffersHold
      /\ \A b \in Offered : b \in BundleId /\ slugOf[b] \in BundleSlug /\ slugOf[b] # None
  BY DEF BundleFacts, Offered
<1>1. PICK t \in OfferRecord : t = offer[w] /\ OfferHolds(t)
  BY <1>0 DEF OffersHold
<1>2. CASE ListBundles(w)
  <2>1. /\ t.pc = "listing" /\ t.op = "product" /\ t # NoOffer
        /\ offer' = [offer EXCEPT ![w].pc = "dropping", ![w].drops = {slugOf[b] : b \in Offered}]
        /\ UNCHANGED <<slugOf, version, priceEntry, bundleChanges, unsound, bundleCrashes>>
    BY <1>1, <1>2, IdleOffer DEF ListBundles, OfferHolds
  <2>2. PICK D \in SUBSET BundleSlug : D = {slugOf[b] : b \in Offered}
    BY <1>0
  <2>3. [t EXCEPT !.pc = "dropping", !.drops = D] \in OfferRecord
    BY DEF OfferRecord
  <2>4. PICK c \in OfferRecord : c = [t EXCEPT !.pc = "dropping", !.drops = D]
    BY <2>3
  <2>5. c.pc = "dropping" /\ c.op = "product" /\ c.drops = D
    BY <2>1, <2>4 DEF OfferRecord
  <2>6. offer' = [offer EXCEPT ![w] = c]
    BY <1>0, <1>1, <2>1, <2>2, <2>4
  <2>7. OfferHolds(c) /\ OfferStands(c)'
    BY <2>5 DEF OfferHolds, OfferStands
  <2>8. Undropped(c) = D
    BY <2>5 DEF Undropped
  <2>9. \A b \in Offered : slugOf[b] \in Undropped(c) /\ (CurrentAt(b) => CurrentAt(b)')
    BY <2>1, <2>2, <2>8 DEF CurrentAt
  <2> QED
    BY <1>0, <1>1, <2>1, <2>5, <2>6, <2>7, <2>9, OfferMoves
<1>3. CASE DropPrice(w)
  <2>1. PICK s \in t.drops :
          /\ t.pc = "dropping" /\ t.op # "read" /\ t # NoOffer
          /\ priceEntry' = [priceEntry EXCEPT ![s] = None]
          /\ offer' = [offer EXCEPT ![w].drops = @ \ {s}]
          /\ UNCHANGED <<slugOf, version, bundleChanges, unsound, bundleCrashes>>
    BY <1>1, <1>3, IdleOffer DEF DropPrice, OfferHolds
  <2>2. PICK D \in SUBSET BundleSlug : D = t.drops \ {s}
    BY DEF OfferRecord
  <2>3. [t EXCEPT !.drops = D] \in OfferRecord
    BY DEF OfferRecord
  <2>4. PICK c \in OfferRecord : c = [t EXCEPT !.drops = D]
    BY <2>3
  <2>5. /\ c.pc = "dropping" /\ c.op = t.op /\ c.drops = D
        /\ c.bundle = t.bundle /\ c.slug = t.slug
    BY <2>1, <2>4 DEF OfferRecord
  <2>6. offer' = [offer EXCEPT ![w] = c]
    BY <1>0, <1>1, <2>1, <2>2, <2>4
  <2>7. /\ priceEntry' \in [BundleSlug -> PricedRecord \cup {None}]
        /\ \A r \in BundleSlug : priceEntry'[r] = IF r = s THEN None ELSE priceEntry[r]
    BY <1>0, <2>1
  <2>8. OfferHolds(c)
    BY <1>1, <2>1, <2>5 DEF OfferHolds
  <2>9. Undropped(c) = Undropped(t) \ {s}
    BY <2>1, <2>2, <2>5 DEF Undropped
  <2>10. \A b \in Offered :
             /\ CurrentAt(b) => CurrentAt(b)'
             /\ slugOf[b] \in Undropped(t) => slugOf[b] \in Undropped(c) \/ CurrentAt(b)'
    BY <1>0, <2>1, <2>7, <2>9 DEF CurrentAt
  <2>11. EntriesFollow => OfferStands(c)'
    <3>1. SUFFICES ASSUME OfferStands(t) PROVE OfferStands(c)'
      BY <1>1 DEF EntriesFollow
    <3>2. t.op \in {"create", "unlist"} => t.slug \in BundleSlug
      BY <1>1, <2>1 DEF OfferHolds
    <3> QED
      BY <2>1, <2>2, <2>5, <2>7, <3>1, <3>2 DEF OfferStands, Offered
  <2> QED
    BY <1>0, <1>1, <2>1, <2>5, <2>6, <2>7, <2>8, <2>10, <2>11, OfferMoves
<1>4. CASE LookUpPrice(w)
  <2>1. /\ t.pc = "looking" /\ t.op = "read" /\ t # NoOffer
        /\ offer' = [offer EXCEPT ![w] = IF priceEntry[t.slug] # None THEN NoOffer
                                         ELSE [t EXCEPT !.pc = "computed"]]
        /\ UNCHANGED <<slugOf, version, priceEntry, bundleChanges, unsound, bundleCrashes>>
    BY <1>1, <1>4, IdleOffer DEF LookUpPrice, OfferHolds
  <2>2. [t EXCEPT !.pc = "computed"] \in OfferRecord
    BY DEF OfferRecord
  <2>3. PICK d \in OfferRecord : d = [t EXCEPT !.pc = "computed"]
    BY <2>2
  <2>4. /\ d.pc = "computed" /\ d.op = "read" /\ d.bundle = t.bundle /\ d.slug = t.slug
        /\ d.version = t.version
    BY <2>1, <2>3 DEF OfferRecord
  <2>5. PICK c \in OfferRecord : c = IF priceEntry[t.slug] # None THEN NoOffer ELSE d
    BY IdleOffer
  <2>6. offer' = [offer EXCEPT ![w] = c]
    BY <2>1, <2>3, <2>5
  <2>7. OfferHolds(c)
    BY <1>1, <2>1, <2>4, <2>5, IdleOffer DEF OfferHolds
  <2>8. Undropped(t) = {} /\ \A b \in Offered : CurrentAt(b) => CurrentAt(b)'
    BY <2>1 DEF Undropped, CurrentAt
  <2>9. EntriesFollow => OfferStands(c)'
    BY <1>1, <2>1, <2>4, <2>5, IdleOffer DEF EntriesFollow, OfferStands, Offered
  <2>10. c = NoOffer \/ c.op = t.op
    BY <2>1, <2>4, <2>5
  <2> QED
    BY <1>0, <1>1, <2>1, <2>6, <2>7, <2>8, <2>9, <2>10, OfferMoves
<1>5. CASE StorePrice(w)
  <2>1. /\ t.pc = "computed" /\ t.op = "read" /\ t # NoOffer
        /\ t.bundle \in BundleId /\ t.slug \in BundleSlug /\ t.version \in Nat
        /\ priceEntry' = [priceEntry EXCEPT ![t.slug] = [bundle |-> t.bundle, version |-> t.version]]
        /\ offer' = [offer EXCEPT ![w] = NoOffer]
        /\ UNCHANGED <<slugOf, version, bundleChanges, unsound, bundleCrashes>>
    BY <1>1, <1>5, IdleOffer DEF StorePrice, OfferHolds, OfferRecord
  <2>2. PICK e \in PricedRecord : e = [bundle |-> t.bundle, version |-> t.version]
    BY <2>1 DEF PricedRecord
  <2>3. /\ priceEntry' \in [BundleSlug -> PricedRecord \cup {None}]
        /\ \A r \in BundleSlug : priceEntry'[r] = IF r = t.slug THEN e ELSE priceEntry[r]
    BY <1>0, <2>1, <2>2
  <2>4. Undropped(t) = {} /\ OfferStands(NoOffer)'
    BY <2>1, IdleOffer DEF Undropped, OfferStands
  <2>5. EntriesFollow => \A b \in Offered : CurrentAt(b) => CurrentAt(b)'
    <3> SUFFICES ASSUME OfferStands(t), NEW b \in Offered, CurrentAt(b) PROVE CurrentAt(b)'
      BY <1>1 DEF EntriesFollow
    <3>1. CASE slugOf[b] = t.slug
      <4>1. b = t.bundle /\ t.version = version[b]
        BY <1>0, <2>1, <3>1 DEF OfferStands, SlugsUnique
      <4> QED
        BY <2>1, <2>2, <2>3, <3>1, <4>1 DEF CurrentAt
    <3>2. CASE slugOf[b] # t.slug
      BY <1>0, <2>1, <2>3, <3>2 DEF CurrentAt
    <3> QED
      BY <3>1, <3>2
  <2> QED
    BY <1>0, <1>1, <2>1, <2>3, <2>4, <2>5, OfferMoves, IdleOffer
<1>6. CASE OfferDies(w)
  <2>1. /\ t # NoOffer /\ offer' = [offer EXCEPT ![w] = NoOffer]
        /\ bundleCrashes' = bundleCrashes + 1
        /\ unsound' = (unsound \/ (/\ t.op \in {"edit", "item", "product"}
                                   /\ t.pc \in {"listing", "dropping"}))
        /\ UNCHANGED <<slugOf, version, priceEntry, bundleChanges>>
    BY <1>1, <1>6 DEF OfferDies
  <2>2. unsound' \in BOOLEAN
    BY <2>1, Zenon
  <2>a. ~unsound' => ~unsound /\ ~(t.op \in {"edit", "item", "product"} /\ t.pc \in {"listing", "dropping"})
    BY <2>1, Zenon
  <2>3. /\ ~unsound' => ~unsound /\ Undropped(t) = {}
        /\ bundleCrashes' \in Nat
    BY <1>0, <2>1, <2>a DEF Undropped
  <2>4. OfferStands(NoOffer)' /\ \A b \in Offered : CurrentAt(b) => CurrentAt(b)'
    BY <2>1, IdleOffer DEF OfferStands, CurrentAt
  <2> QED
    BY <1>0, <1>1, <2>1, <2>2, <2>3, <2>4, OfferMoves, IdleOffer
<1> QED
  BY <1>2, <1>3, <1>4, <1>5, <1>6

\* Every step keeps the invariant.
LEMMA BundlesStepKeeps == BundlesInv /\ [BundlesNext]_bundleVars => BundlesInv'
<1> SUFFICES ASSUME BundlesInv, [BundlesNext]_bundleVars PROVE BundlesInv'
  OBVIOUS
<1>0. BundleFacts /\ (~unsound => EntriesFollow)
  BY BundleParts
<1>p. SUFFICES BundleFacts' /\ (~unsound' => EntriesFollow')
  BY BundleParts, PTL
<1>1. ASSUME NEW w \in Worker, BeginBundleWrite(w) PROVE BundleFacts' /\ (~unsound' => EntriesFollow')
  BY <1>0, <1>1, WriteBegins
<1>2. ASSUME NEW w \in Worker, LoadOffer(w) PROVE BundleFacts' /\ (~unsound' => EntriesFollow')
  BY <1>0, <1>2, ReadBegins
<1>3. ASSUME NEW w \in Worker, SaveOffer(w) PROVE BundleFacts' /\ (~unsound' => EntriesFollow')
  BY <1>0, <1>3, SaveKeeps
<1>4. ASSUME NEW w \in Worker, EndOffer(w) PROVE BundleFacts' /\ (~unsound' => EntriesFollow')
  BY <1>0, <1>4, EndKeeps
<1>5. ASSUME NEW w \in Worker,
             ListBundles(w) \/ DropPrice(w) \/ LookUpPrice(w) \/ StorePrice(w) \/ OfferDies(w)
      PROVE BundleFacts' /\ (~unsound' => EntriesFollow')
  BY <1>0, <1>5, OthersKeep
<1>6. CASE DiscountChanges
  <2>1. /\ bundleChanges < MaxBundleChanges /\ bundleChanges' = bundleChanges + 1
        /\ version' = Versions([op |-> "product"]) /\ unsound' = TRUE
        /\ UNCHANGED <<slugOf, priceEntry, offer, bundleCrashes>>
    BY <1>6 DEF DiscountChanges
  <2>2. version' \in [BundleId -> Nat]
    BY <1>0, <2>1, VersionsCount DEF BundleFacts
  <2>3. bundleChanges' \in 0 .. MaxBundleChanges
    BY <1>0, <2>1, IdleOffer DEF BundleFacts
  <2> QED
    BY <1>0, <2>1, <2>2, <2>3 DEF BundleFacts, SlugsUnique, OffersHold, OfferHolds, Offered
<1>7. CASE ExpirePrice
  <2>1. PICK s \in BundleSlug :
          /\ priceEntry' = [priceEntry EXCEPT ![s] = None]
          /\ UNCHANGED <<slugOf, version, offer, bundleChanges, unsound, bundleCrashes>>
    BY <1>7 DEF ExpirePrice
  <2>2. priceEntry \in [BundleSlug -> PricedRecord \cup {None}] /\ OffersHold
    BY <1>0 DEF BundleFacts
  <2>3. /\ priceEntry' \in [BundleSlug -> PricedRecord \cup {None}]
        /\ \A r \in BundleSlug : priceEntry'[r] = IF r = s THEN None ELSE priceEntry[r]
    BY <2>1, <2>2
  <2>4. BundleFacts'
    BY <1>0, <2>1, <2>3 DEF BundleFacts, SlugsUnique, OffersHold, OfferHolds, Offered
  <2>5. ASSUME EntriesFollow PROVE EntriesFollow'
    <3>1. \A w \in Worker : OfferStands(offer[w])'
      <4> SUFFICES ASSUME NEW w \in Worker PROVE OfferStands(offer[w])'
        OBVIOUS
      <4>1. /\ OfferStands(offer[w]) /\ OfferHolds(offer[w])
        BY <2>2, <2>5 DEF EntriesFollow, OffersHold
      <4>2. offer[w].op \in {"create", "unlist"} =>
               offer[w].slug \in BundleSlug \/ offer[w].pc = "idle"
        BY <4>1 DEF OfferHolds
      <4>3. offer[w].pc = "idle" => offer[w].op \notin {"create", "unlist"}
        BY <1>0, <4>1 DEF OfferHolds, BundleFacts
      <4> QED
        BY <2>1, <2>3, <4>1, <4>2, <4>3 DEF OfferStands, Offered
    <3>2. \A b \in Offered : CurrentAt(b) => CurrentAt(b)'
      BY <1>0, <2>1, <2>3 DEF CurrentAt, Offered, BundleFacts
    <3> QED
      BY <2>1, <2>5, <3>1, <3>2 DEF EntriesFollow, Offered, Undropped
  <2> QED
    BY <1>0, <2>1, <2>4, <2>5
<1>8. CASE UNCHANGED bundleVars
  BY <1>0, <1>8 DEF bundleVars, BundleFacts, SlugsUnique, OffersHold, OfferHolds, Offered,
                    EntriesFollow, OfferStands, CurrentAt, Undropped
<1> QED
  BY <1>1, <1>2, <1>3, <1>4, <1>5, <1>6, <1>7, <1>8 DEF BundlesNext
-----------------------------------------------------------------------------
\* The types of the variables, and slugs that are unique, in every state.
THEOREM BundleTypes == BundlesSpec => []BundlesTypeOK
<1>1. BundlesInv => BundlesTypeOK
  BY DEF BundlesInv
<1> QED
  BY <1>1, BundlesStart, BundlesStepKeeps, PTL DEF BundlesSpec

\* What is cached under the slug of a bundle at rest is its price of now, as
\* long as no write overlapped another request or died before its drops and no
\* discount changed: signals drop the slug the bundle has, the one it had is
\* dropped when another bundle takes it.
THEOREM BundlePricesAreFresh == BundlesSpec => []BundlePriceFresh
<1>1. BundlesInv => BundlePriceFresh
  BY IdleOffer DEF BundlesInv, BundlePriceFresh, EntriesFollow, CurrentAt
<1> QED
  BY <1>1, BundlesStart, BundlesStepKeeps, PTL DEF BundlesSpec

===============================================================================
