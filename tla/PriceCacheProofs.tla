--------------------------- MODULE PriceCacheProofs ---------------------------
(***************************************************************************)
(* The cached price, for every set of readers, writers and changes and     *)
(* every bound: entries hold versions that were committed, and a bump      *)
(* reaches every price that was computed before it.                        *)
(***************************************************************************)
EXTENDS PriceCache, FiniteSetTheorems, TLAPS

ReaderRow(b, d) == [pc : {"idle", "loaded", "tagged", "missed", "computed"},
                    base : 0 .. b, gen : Nat, disc : 0 .. d]
WriterRow == [pc : {"idle", "bumping", "setting", "bumped"}, op : ChangeKinds \cup {"none"}]
EntryRow(b, d) == [gen : Nat, price : (0 .. b) \X (0 .. d)]

\* A change whose rows are still to be committed, and the writers that have one.
Early(t) == t.pc # "idle" /\ t.op \in EarlyBump
Pending == {w \in Writers : Early(writer[w])}
Weight(t) == IF Early(t) THEN 1 ELSE 0

\* What bounds the versions: every change that is begun is counted at once, and
\* makes one version when it commits, if it ever does.
Budget ==
    /\ \A w \in Writers : writer[w].pc = "bumped" => writer[w].op \in EarlyBump
    /\ IsFiniteSet(Pending)
    /\ base + disc + Cardinality(Pending) <= changes

PriceInv == TypeOK /\ Budget
-----------------------------------------------------------------------------
\* The type invariant, with the records named.
LEMMA PriceShapes ==
    TypeOK <=>
        /\ base \in 0 .. changes /\ disc \in 0 .. changes
        /\ gen \in Nat
        /\ entry = NoEntry \/ entry \in EntryRow(base, disc)
        /\ reader \in [Readers -> ReaderRow(base, disc)]
        /\ writer \in [Writers -> WriterRow]
        /\ announced \in 0 .. disc /\ rewound \in BOOLEAN
        /\ changes \in 0 .. MaxChanges /\ expiries \in 0 .. MaxExpiries
        /\ crashes \in 0 .. MaxCrashes
  BY Zenon DEF TypeOK, ReaderRow, WriterRow, EntryRow

\* What was well typed stays so when versions only grow.
LEMMA RowsGrow ==
    ASSUME NEW b \in Nat, NEW d \in Nat, NEW c \in Nat, NEW e \in Nat, b <= c, d <= e
    PROVE  ReaderRow(b, d) \subseteq ReaderRow(c, e) /\ EntryRow(b, d) \subseteq EntryRow(c, e)
  BY DEF ReaderRow, EntryRow

\* An idle reader and an idle writer are of the types.
LEMMA IdleRows ==
    /\ \A b, d \in Nat : IdleReader \in ReaderRow(b, d)
    /\ IdleWriter \in WriterRow /\ IdleReader.pc = "idle" /\ IdleWriter.pc = "idle"
  BY DEF IdleReader, IdleWriter, ReaderRow, WriterRow

\* A step of one reader: its row, and perhaps the entry, changes.
LEMMA ReaderMoves ==
    ASSUME TypeOK, NEW r \in Readers, NEW t \in ReaderRow(base, disc),
           reader' = [reader EXCEPT ![r] = t],
           entry' = entry \/ entry' \in EntryRow(base, disc),
           UNCHANGED <<base, disc, gen, writer, announced, rewound, changes, expiries, crashes>>
    PROVE  TypeOK'
<1>1. reader' \in [Readers -> ReaderRow(base, disc)]
  BY PriceShapes
<1>2. entry' = NoEntry \/ entry' \in EntryRow(base, disc)
  BY PriceShapes
<1> QED
  BY <1>1, <1>2, PriceShapes, Zenon DEF TypeOK, ReaderRow, EntryRow

\* A step of a writer or of time: versions may grow.
LEMMA VersionsGrow ==
    ASSUME TypeOK, writer' \in [Writers -> WriterRow],
           base' \in Nat, disc' \in Nat, base <= base', disc <= disc',
           base' <= changes', disc' <= changes',
           gen' \in Nat, announced' \in 0 .. disc', rewound' \in BOOLEAN,
           entry' \in {entry, NoEntry}, UNCHANGED reader,
           changes' \in 0 .. MaxChanges, expiries' \in 0 .. MaxExpiries,
           crashes' \in 0 .. MaxCrashes
    PROVE  TypeOK'
<1>0. base \in Nat /\ disc \in Nat
  BY PriceShapes
<1>1. reader' \in [Readers -> ReaderRow(base', disc')]
  BY <1>0, RowsGrow, PriceShapes
<1>2. entry' = NoEntry \/ entry' \in EntryRow(base', disc')
  BY <1>0, RowsGrow, PriceShapes
<1> QED
  BY <1>1, <1>2 DEF TypeOK, ReaderRow, WriterRow, EntryRow

\* The pending changes after a step of one writer.
LEMMA PendingMoves ==
    ASSUME writer \in [Writers -> WriterRow], NEW w \in Writers, NEW t \in WriterRow,
           writer' = [writer EXCEPT ![w] = t]
    PROVE  Pending' = IF Early(t) THEN Pending \cup {w} ELSE Pending \ {w}
<1>1. \A v \in Writers : writer'[v] = IF v = w THEN t ELSE writer[v]
  OBVIOUS
<1>2. CASE Early(t)
  BY <1>1, <1>2, Zenon DEF Pending
<1>3. CASE ~Early(t)
  BY <1>1, <1>3, Zenon DEF Pending
<1> QED
  BY <1>2, <1>3

\* A writer that turns pending counts one more, one that is done one less.
LEMMA PendingCounts ==
    ASSUME writer \in [Writers -> WriterRow], NEW w \in Writers, NEW t \in WriterRow,
           writer' = [writer EXCEPT ![w] = t], IsFiniteSet(Pending)
    PROVE  /\ IsFiniteSet(Pending')
           /\ Cardinality(Pending) \in Nat /\ Cardinality(Pending') \in Nat
           /\ Cardinality(Pending') = (Cardinality(Pending) + Weight(t)) - Weight(writer[w])
<1>1. Pending' = IF Early(t) THEN Pending \cup {w} ELSE Pending \ {w}
  BY PendingMoves
<1>2. w \in Pending <=> Early(writer[w])
  BY Zenon DEF Pending
<1>3. IsFiniteSet(Pending \cup {w})
      /\ Cardinality(Pending \cup {w})
         = IF w \in Pending THEN Cardinality(Pending) ELSE Cardinality(Pending) + 1
  BY FS_AddElement
<1>4. IsFiniteSet(Pending \ {w})
      /\ Cardinality(Pending \ {w})
         = IF w \in Pending THEN Cardinality(Pending) - 1 ELSE Cardinality(Pending)
  BY FS_RemoveElement
<1>5. Cardinality(Pending) \in Nat /\ Cardinality(Pending \cup {w}) \in Nat
      /\ Cardinality(Pending \ {w}) \in Nat
  BY <1>3, <1>4, FS_CardinalityType
<1>6. CASE Early(t)
  BY <1>1, <1>2, <1>3, <1>5, <1>6 DEF Weight
<1>7. CASE ~Early(t)
  BY <1>1, <1>2, <1>4, <1>5, <1>7 DEF Weight
<1> QED
  BY <1>6, <1>7

\* A writer has at most one change that is still to be committed.
LEMMA WeightIsBit == \A t : Weight(t) \in {0, 1}
  BY DEF Weight

\* Types and budget hold at the start.
LEMMA PriceInvStarts == Init => PriceInv
<1> SUFFICES ASSUME Init PROVE PriceInv
  OBVIOUS
<1>1. writer \in [Writers -> WriterRow] /\ \A w \in Writers : writer[w] = IdleWriter
  BY IdleRows DEF Init
<1>2. reader \in [Readers -> ReaderRow(0, 0)]
  BY IdleRows DEF Init
<1>3. Pending = {}
  BY <1>1, IdleRows, Zenon DEF Pending, Early
<1>4. TypeOK
  <2>1. rewound \in BOOLEAN
    BY Zenon DEF Init
  <2> QED
    BY <1>1, <1>2, <2>1, LimitsAssumption, PriceShapes DEF Init
<1>5. \A w \in Writers : writer[w].pc # "bumped"
  BY <1>1, IdleRows
<1>6. IsFiniteSet(Pending) /\ Cardinality(Pending) = 0
  BY <1>3, FS_EmptySet
<1> QED
  BY <1>4, <1>5, <1>6 DEF PriceInv, Budget, Init

\* Steps of a reader keep the types; the budget is not theirs.
LEMMA ReaderKeepsPrices ==
    ASSUME PriceInv, NEW r \in Readers, ReaderStep(r)
    PROVE  PriceInv'
<1>0. /\ base \in Nat /\ disc \in Nat /\ gen \in Nat /\ reader[r] \in ReaderRow(base, disc)
      /\ base \in 0 .. base /\ disc \in 0 .. disc
      /\ reader \in [Readers -> ReaderRow(base, disc)] /\ TypeOK
  BY PriceShapes DEF PriceInv
<1>1. UNCHANGED <<base, disc, gen, writer, announced, rewound, changes, expiries, crashes>>
  BY DEF ReaderStep, LoadProduct, ReadGeneration, LookUp, ReadDiscounts, StoreEntry
<1>2. Budget'
  BY <1>1 DEF PriceInv, Budget, Pending, Early
<1>3. CASE LoadProduct(r)
  <2> DEFINE t == [IdleReader EXCEPT !.pc = "loaded", !.base = base]
  <2>1. t \in ReaderRow(base, disc)
    BY <1>0, 0 \in 0 .. disc DEF IdleReader, ReaderRow
  <2> QED
    BY <1>0, <1>1, <1>2, <1>3, <2>1, ReaderMoves DEF LoadProduct, PriceInv
<1>4. CASE ReadGeneration(r)
  <2> DEFINE t == [reader[r] EXCEPT !.pc = "tagged", !.gen = gen]
  <2>1. t \in ReaderRow(base, disc)
    BY <1>0 DEF ReaderRow
  <2>2. reader' = [reader EXCEPT ![r] = t]
    BY <1>4, <1>0 DEF ReadGeneration, ReaderRow
  <2> QED
    BY <1>0, <1>1, <1>2, <1>4, <2>1, <2>2, ReaderMoves DEF ReadGeneration, PriceInv
<1>5. CASE LookUp(r)
  <2> DEFINE t == IF entry # NoEntry /\ entry.gen = reader[r].gen THEN IdleReader
                  ELSE [reader[r] EXCEPT !.pc = "missed"]
  <2>1. t \in ReaderRow(base, disc)
    BY <1>0, IdleRows DEF ReaderRow
  <2>2. reader' = [reader EXCEPT ![r] = t]
    BY <1>5 DEF LookUp
  <2> QED
    BY <1>0, <1>1, <1>2, <1>5, <2>1, <2>2, ReaderMoves DEF LookUp, PriceInv
<1>6. CASE ReadDiscounts(r)
  <2> DEFINE t == [reader[r] EXCEPT !.pc = "computed", !.disc = disc]
  <2>1. t \in ReaderRow(base, disc)
    BY <1>0 DEF ReaderRow
  <2>2. reader' = [reader EXCEPT ![r] = t]
    BY <1>6, <1>0 DEF ReadDiscounts, ReaderRow
  <2> QED
    BY <1>0, <1>1, <1>2, <1>6, <2>1, <2>2, ReaderMoves DEF ReadDiscounts, PriceInv
<1>7. CASE StoreEntry(r)
  <2>1. entry' \in EntryRow(base, disc)
    BY <1>7, <1>0 DEF StoreEntry, ReaderRow, EntryRow
  <2> QED
    BY <1>7, <1>1, <1>2, <2>1, <1>0, IdleRows, ReaderMoves DEF StoreEntry, PriceInv
<1> QED
  BY <1>3, <1>4, <1>5, <1>6, <1>7 DEF ReaderStep

\* A writer that moves x and y between the counters keeps their sum within the budget.
LEMMA BudgetSum ==
    ASSUME NEW a \in Nat, NEW b \in Nat, NEW a1 \in Nat, NEW b1 \in Nat, NEW c \in Nat,
           NEW c1 \in Nat, NEW p \in Nat, NEW q \in Nat, NEW x \in Nat, NEW y \in Nat,
           q = (p + x) - y, a + b + p <= c, a1 + b1 + x + c <= a + b + y + c1
    PROVE  a1 + b1 + q <= c1
  OBVIOUS

\* A commit makes one version of one pending change.
LEMMA CommitSum ==
    ASSUME NEW a \in Nat, NEW b \in Nat, NEW a1 \in Nat, NEW b1 \in Nat, NEW c \in Nat,
           a1 + b1 = a + b + 1
    PROVE  a1 + b1 + 0 + c <= a + b + 1 + c
  OBVIOUS

\* A step of one writer, in terms of its row before and after: the versions may
\* grow by what the budget allows.
WriterMove(w, t) ==
    /\ writer' = [writer EXCEPT ![w] = t] /\ t \in WriterRow
    /\ t.pc = "bumped" => t.op \in EarlyBump
    /\ base' \in Nat /\ disc' \in Nat /\ base <= base' /\ disc <= disc'
    /\ changes' \in 0 .. MaxChanges
    /\ base' + disc' + Weight(t) + changes <= base + disc + Weight(writer[w]) + changes'
    /\ gen' \in Nat /\ announced' \in 0 .. disc' /\ rewound' \in BOOLEAN
    /\ UNCHANGED <<entry, reader, expiries>> /\ crashes' \in 0 .. MaxCrashes

\* Such a step keeps types and budget.
LEMMA WriterMoves ==
    ASSUME PriceInv, NEW w \in Writers, NEW t, WriterMove(w, t)
    PROVE  PriceInv'
<1> USE DEF WriterMove
<1>0. /\ writer \in [Writers -> WriterRow] /\ IsFiniteSet(Pending)
      /\ base \in Nat /\ disc \in Nat /\ changes \in Nat /\ changes' \in Nat
      /\ expiries \in 0 .. MaxExpiries /\ base + disc + Cardinality(Pending) <= changes
      /\ TypeOK
  BY PriceShapes, LimitsAssumption DEF PriceInv, Budget
<1>1. /\ IsFiniteSet(Pending') /\ Cardinality(Pending) \in Nat /\ Cardinality(Pending') \in Nat
      /\ Cardinality(Pending') = (Cardinality(Pending) + Weight(t)) - Weight(writer[w])
  BY <1>0, PendingCounts
<1>2. base' + disc' + Cardinality(Pending') <= changes'
  <2>1. /\ Weight(t) \in Nat /\ Weight(writer[w]) \in Nat
        /\ base + disc + Cardinality(Pending) <= changes
    BY <1>0, WeightIsBit
  <2> QED
    BY <1>0, <1>1, <2>1, BudgetSum
<1>3. writer' \in [Writers -> WriterRow]
  BY <1>0
<1>4. base' <= changes' /\ disc' <= changes'
  BY <1>2, <1>1, <1>0
<1>5. TypeOK'
  BY <1>0, <1>3, <1>4, VersionsGrow
<1>6. \A v \in Writers : writer'[v].pc = "bumped" => writer'[v].op \in EarlyBump
  <2> SUFFICES ASSUME NEW v \in Writers, writer'[v].pc = "bumped"
               PROVE  writer'[v].op \in EarlyBump
    OBVIOUS
  <2>1. writer'[v] = IF v = w THEN t ELSE writer[v]
    BY <1>0
  <2> QED
    BY <2>1, Zenon DEF PriceInv, Budget
<1>7. Budget'
  BY <1>1, <1>2, <1>6 DEF Budget
<1> QED
  BY <1>5, <1>7 DEF PriceInv

\* Steps of a writer keep types and budget.
LEMMA WriterKeepsPrices ==
    ASSUME PriceInv, NEW w \in Writers, WriterStep(w)
    PROVE  PriceInv'
<1>0. /\ base \in Nat /\ disc \in Nat /\ gen \in Nat /\ changes \in 0 .. MaxChanges
      /\ writer \in [Writers -> WriterRow] /\ writer[w] \in WriterRow
      /\ announced \in 0 .. disc /\ rewound \in BOOLEAN
      /\ crashes \in 0 .. MaxCrashes /\ MaxChanges \in Nat
      /\ MaxCrashes \in Nat /\ (writer[w].pc = "bumped" => writer[w].op \in EarlyBump)
  BY PriceShapes, LimitsAssumption DEF PriceInv, Budget
<1>1. CASE StartChange(w)
  <2>1. PICK op \in Changes : BeginChange(w, op) \/ SaveUpdate(w, op)
    BY <1>1 DEF StartChange
  <2> DEFINE t == [pc |-> "bumping", op |-> op]
  <2>2. t \in WriterRow /\ writer' = [writer EXCEPT ![w] = t] /\ ~Early(writer[w])
    BY <1>1, <2>1, ChangesAssumption DEF StartChange, BeginChange, SaveUpdate, WriterRow, Early
  <2>3. /\ base' \in Nat /\ disc' \in Nat /\ base <= base' /\ disc <= disc'
        /\ changes' \in 0 .. MaxChanges /\ changes' = changes + 1
        /\ base' + disc' + Weight(t) <= base + disc + 1 /\ Weight(writer[w]) = 0
    BY <1>0, <1>1, <2>1, <2>2
       DEF StartChange, BeginChange, SaveUpdate, Commit, Weight, Early, EarlyBump
  <2> QED
    <3>1. WriterMove(w, t)
      BY <1>0, <1>1, <2>2, <2>3, WeightIsBit DEF StartChange, WriterMove
    <3> QED
      BY <3>1, WriterMoves
<1>2. CASE BumpGeneration(w)
  <2>1. CASE gen = 0
    <3> DEFINE t == [writer[w] EXCEPT !.pc = "setting"]
    <3>1. t \in WriterRow /\ writer' = [writer EXCEPT ![w] = t] /\ t.pc = "setting"
          /\ Weight(t) = Weight(writer[w])
      BY <1>0, <1>2, <2>1 DEF BumpGeneration, WriterRow, Weight, Early
    <3>9. WriterMove(w, t)
      BY <1>0, <1>2, <2>1, <3>1, WeightIsBit DEF BumpGeneration, WriterMove
    <3> QED
      BY <3>9, WriterMoves
  <2>2. CASE gen # 0
    <3> DEFINE t == IF writer[w].op \in EarlyBump THEN [writer[w] EXCEPT !.pc = "bumped"]
                    ELSE IdleWriter
    <3>1. t \in WriterRow /\ writer' = [writer EXCEPT ![w] = t]
          /\ Weight(t) = Weight(writer[w]) /\ (t.pc = "bumped" => t.op \in EarlyBump)
      BY <1>0, <1>2, <2>2, IdleRows DEF BumpGeneration, AfterBump, WriterRow, Weight, Early
    <3> HIDE DEF t
    <3>2. gen' \in Nat /\ announced' \in 0 .. disc
      BY <1>0, <1>2, <2>2 DEF BumpGeneration
    <3>9. WriterMove(w, t)
      BY <1>0, <1>2, <2>2, <3>1, <3>2, WeightIsBit DEF BumpGeneration, WriterMove
    <3> QED
      BY <3>9, WriterMoves
  <2> QED
    BY <2>1, <2>2
<1>3. CASE SetGeneration(w)
  <2> DEFINE t == IF writer[w].op \in EarlyBump THEN [writer[w] EXCEPT !.pc = "bumped"]
                  ELSE IdleWriter
  <2>1. t \in WriterRow /\ writer' = [writer EXCEPT ![w] = t]
        /\ Weight(t) = Weight(writer[w]) /\ (t.pc = "bumped" => t.op \in EarlyBump)
    BY <1>0, <1>3, IdleRows DEF SetGeneration, AfterBump, WriterRow, Weight, Early
  <2> HIDE DEF t
  <2>9. WriterMove(w, t)
    BY <1>0, <1>3, <2>1, WeightIsBit DEF SetGeneration, WriterMove
  <2> QED
    BY <2>9, WriterMoves
<1>4. CASE CommitChange(w)
  <2>1. IdleWriter \in WriterRow /\ Weight(IdleWriter) = 0 /\ Weight(writer[w]) = 1
        /\ IdleWriter.pc # "bumped"
    BY <1>0, <1>4, IdleRows DEF CommitChange, Weight, Early
  <2>2. /\ base' \in Nat /\ disc' \in Nat /\ base <= base' /\ disc <= disc'
        /\ base' + disc' = base + disc + 1 /\ announced' \in 0 .. disc'
    BY <1>0, <1>4 DEF CommitChange, Commit
  <2>3. base' + disc' + 0 + changes <= base + disc + 1 + changes'
    <3>1. changes' = changes /\ changes \in Nat
      BY <1>0, <1>4 DEF CommitChange
    <3>2. base' + disc' + 0 + changes <= base + disc + 1 + changes
      BY <1>0, <2>2, <3>1, CommitSum
    <3> QED
      BY <3>1, <3>2
  <2>9. WriterMove(w, IdleWriter)
    BY <1>0, <1>4, <2>1, <2>2, <2>3 DEF CommitChange, WriterMove
  <2> QED
    BY <2>9, WriterMoves
<1>5. CASE CrashWriter(w)
  <2>1. IdleWriter \in WriterRow /\ Weight(IdleWriter) = 0 /\ IdleWriter.pc # "bumped"
    BY IdleRows DEF Weight, Early
  <2>9. WriterMove(w, IdleWriter)
    BY <1>0, <1>5, <2>1, WeightIsBit DEF CrashWriter, WriterMove
  <2> QED
    BY <2>9, WriterMoves
<1> QED
  BY <1>1, <1>2, <1>3, <1>4, <1>5 DEF WriterStep

\* Types and budget after every step.
LEMMA PriceStepKeeps == PriceInv /\ [Next]_vars => PriceInv'
<1> SUFFICES ASSUME PriceInv, [Next]_vars PROVE PriceInv'
  OBVIOUS
<1>0. /\ base \in Nat /\ disc \in Nat /\ gen \in Nat /\ changes \in 0 .. MaxChanges
      /\ announced \in 0 .. disc /\ rewound \in BOOLEAN /\ expiries \in 0 .. MaxExpiries /\ MaxExpiries \in Nat
      /\ crashes \in 0 .. MaxCrashes /\ base <= changes /\ disc <= changes
      /\ writer \in [Writers -> WriterRow] /\ MaxChanges \in Nat
      /\ IsFiniteSet(Pending) /\ base + disc + Cardinality(Pending) <= changes /\ TypeOK
  BY PriceShapes, LimitsAssumption DEF PriceInv, Budget
<1>a. Cardinality(Pending) \in Nat
  BY <1>0, FS_CardinalityType
<1>b. ASSUME UNCHANGED writer
      PROVE  Pending' = Pending
             /\ \A w \in Writers : writer'[w].pc = "bumped" => writer'[w].op \in EarlyBump
  BY <1>b DEF Pending, Early, PriceInv, Budget
<1>1. CASE WindowTurns
  <2>1. TypeOK'
    BY <1>0, <1>1, VersionsGrow DEF WindowTurns, Commit
  <2>2. base' + disc' + Cardinality(Pending) <= changes'
    BY <1>0, <1>1, <1>a DEF WindowTurns, Commit
  <2> QED
    BY <1>0, <1>1, <1>b, <2>1, <2>2 DEF WindowTurns, PriceInv, Budget
<1>2. CASE GenerationExpires
  <2>1. TypeOK'
    BY <1>0, <1>2, VersionsGrow DEF GenerationExpires
  <2> QED
    BY <1>0, <1>2, <1>b, <2>1 DEF GenerationExpires, PriceInv, Budget
<1>3. CASE EntryExpires
  <2>1. TypeOK'
    BY <1>0, <1>3, VersionsGrow DEF EntryExpires
  <2> QED
    BY <1>0, <1>3, <1>b, <2>1 DEF EntryExpires, PriceInv, Budget
<1>4. CASE UNCHANGED vars
  BY <1>4 DEF vars, PriceInv, TypeOK, Budget, Pending, Early
<1> QED
  BY <1>1, <1>2, <1>3, <1>4, ReaderKeepsPrices, WriterKeepsPrices DEF Next

\* Types and budget hold of every behaviour.
LEMMA PriceInvHolds == Spec => []PriceInv
  BY PriceInvStarts, PriceStepKeeps, PTL DEF Spec

\* Versions, entries, readers and writers keep their types, and no more versions
\* exist than changes were begun: in every interleaving of any readers and writers.
THEOREM PriceTypes == Spec => []TypeOK
<1>1. PriceInv => TypeOK
  BY DEF PriceInv
<1> QED
  BY <1>1, PriceInvHolds, PTL
-----------------------------------------------------------------------------
Tagged(r) == reader[r].pc \in {"tagged", "missed", "computed"}

\* As long as the key has not expired the counter only grows, past every entry and
\* past every reader under way; what carries its value of now was computed from
\* discounts no older than those it announced.
Reach ==
    /\ entry # NoEntry => entry.gen <= gen
    /\ Served => entry.price[2] >= announced
    /\ \A r \in Readers : Tagged(r) => reader[r].gen <= gen
    /\ \A r \in Readers : reader[r].pc = "computed" /\ reader[r].gen = gen
                             => reader[r].disc >= announced
    /\ gen = 0 => announced = 0

ReachInv == PriceInv /\ (expiries = 0 /\ ~rewound => Reach)

\* Nothing is stored and nobody computes at the start.
LEMMA ReachStarts == Init => ReachInv
  BY PriceInvStarts, IdleRows DEF Init, ReachInv, Reach, Served, Tagged

\* A reader's step before it stores.
LEMMA ReaderReaches ==
    ASSUME PriceInv, Reach, NEW r \in Readers, NEW t \in ReaderRow(base, disc),
           reader' = [reader EXCEPT ![r] = t],
           t.pc \in {"tagged", "missed", "computed"} => t.gen <= gen,
           t.pc = "computed" /\ t.gen = gen => t.disc >= announced,
           UNCHANGED <<entry, gen, announced>>
    PROVE  Reach'
<1>1. reader \in [Readers -> ReaderRow(base, disc)]
  BY PriceShapes DEF PriceInv
<1>2. \A q \in Readers : reader'[q] = IF q = r THEN t ELSE reader[q]
  BY <1>1
<1>3. \A q \in Readers : Tagged(q)' => reader'[q].gen <= gen
  BY <1>2 DEF Reach, Tagged
<1>4. \A q \in Readers : reader'[q].pc = "computed" /\ reader'[q].gen = gen
                            => reader'[q].disc >= announced
  BY <1>2 DEF Reach
<1>5. Served' <=> Served
  BY DEF Served
<1> QED
  BY <1>3, <1>4, <1>5 DEF Reach

\* A reader stores a price under the generation it had read before the discounts,
\* so a later bump has left behind what it stores.
LEMMA ReaderStepReaches ==
    ASSUME PriceInv, Reach, NEW r \in Readers, ReaderStep(r)
    PROVE  Reach'
<1>0. /\ base \in Nat /\ disc \in Nat /\ gen \in Nat /\ reader[r] \in ReaderRow(base, disc)
      /\ base \in 0 .. base /\ disc \in 0 .. disc /\ 0 \in 0 .. disc
      /\ reader \in [Readers -> ReaderRow(base, disc)] /\ announced \in 0 .. disc
      /\ entry = NoEntry \/ entry \in EntryRow(base, disc)
  BY PriceShapes DEF PriceInv
<1>a. /\ Tagged(r) => reader[r].gen <= gen
      /\ reader[r].pc = "computed" /\ reader[r].gen = gen => reader[r].disc >= announced
  BY DEF Reach
<1>1. CASE LoadProduct(r)
  <2> DEFINE t == [IdleReader EXCEPT !.pc = "loaded", !.base = base]
  <2>1. t \in ReaderRow(base, disc) /\ t.pc = "loaded"
    BY <1>0 DEF IdleReader, ReaderRow
  <2> HIDE DEF t
  <2> QED
    BY <1>1, <2>1, ReaderReaches DEF LoadProduct, t
<1>2. CASE ReadGeneration(r)
  <2> DEFINE t == [reader[r] EXCEPT !.pc = "tagged", !.gen = gen]
  <2>1. t \in ReaderRow(base, disc) /\ reader' = [reader EXCEPT ![r] = t]
        /\ t.pc = "tagged" /\ t.gen = gen
    BY <1>0, <1>2 DEF ReadGeneration, ReaderRow
  <2>2. t.gen <= gen /\ t.pc # "computed"
    BY <1>0, <2>1
  <2> HIDE DEF t
  <2> QED
    BY <1>2, <2>1, <2>2, ReaderReaches DEF ReadGeneration
<1>3. CASE LookUp(r)
  <2> DEFINE t == IF entry # NoEntry /\ entry.gen = reader[r].gen THEN IdleReader
                  ELSE [reader[r] EXCEPT !.pc = "missed"]
  <2>1. t \in ReaderRow(base, disc)
    BY <1>0, IdleRows DEF ReaderRow
  <2>2. reader' = [reader EXCEPT ![r] = t]
    BY <1>3 DEF LookUp
  <2>3. t.pc = "idle" \/ (t.pc = "missed" /\ t.gen = reader[r].gen)
    BY <1>0, IdleRows DEF ReaderRow
  <2>4. reader[r].gen <= gen
    BY <1>3, <1>a DEF LookUp, Tagged
  <2> HIDE DEF t
  <2> QED
    BY <1>3, <2>1, <2>2, <2>3, <2>4, ReaderReaches DEF LookUp
<1>4. CASE ReadDiscounts(r)
  <2> DEFINE t == [reader[r] EXCEPT !.pc = "computed", !.disc = disc]
  <2>1. t \in ReaderRow(base, disc) /\ reader' = [reader EXCEPT ![r] = t]
        /\ t.gen = reader[r].gen /\ t.disc = disc
    BY <1>4, <1>0 DEF ReadDiscounts, ReaderRow
  <2>2. reader[r].gen <= gen /\ disc >= announced
    BY <1>0, <1>4, <1>a DEF ReadDiscounts, Tagged
  <2> HIDE DEF t
  <2> QED
    BY <1>4, <2>1, <2>2, ReaderReaches DEF ReadDiscounts
<1>5. CASE StoreEntry(r)
  <2>1. \A q \in Readers : reader'[q] = IF q = r THEN IdleReader ELSE reader[q]
    BY <1>0, <1>5 DEF StoreEntry
  <2>2. entry'.gen = reader[r].gen /\ entry'.price[2] = reader[r].disc
    BY <1>5 DEF StoreEntry
  <2>3. reader[r].gen <= gen
    BY <1>5, <1>a DEF StoreEntry, Tagged
  <2>4. gen' = gen /\ announced' = announced
    BY <1>5 DEF StoreEntry
  <2>5. \A q \in Readers : Tagged(q)' => reader'[q].gen <= gen
    BY <2>1, IdleRows DEF Reach, Tagged
  <2>6. \A q \in Readers : reader'[q].pc = "computed" /\ reader'[q].gen = gen
                              => reader'[q].disc >= announced
    BY <2>1, IdleRows DEF Reach
  <2>7. Served' => entry'.price[2] >= announced
    BY <1>5, <1>a, <2>2, <2>4 DEF Served, StoreEntry
  <2> QED
    BY <2>2, <2>3, <2>4, <2>5, <2>6, <2>7 DEF Reach
<1> QED
  BY <1>1, <1>2, <1>3, <1>4, <1>5 DEF ReaderStep

\* A bump leaves everything computed before it behind.
LEMMA BumpLeavesBehind ==
    ASSUME PriceInv, Reach, gen' \in Nat, gen' > gen, UNCHANGED <<entry, reader>>
    PROVE  Reach'
<1>0. /\ gen \in Nat /\ (entry = NoEntry \/ entry \in EntryRow(base, disc))
      /\ reader \in [Readers -> ReaderRow(base, disc)]
  BY PriceShapes DEF PriceInv
<1>1. \A q \in Readers : Tagged(q) => reader[q].gen \in Nat /\ reader[q].gen <= gen
  BY <1>0 DEF Reach, ReaderRow
<1>2. \A q \in Readers : Tagged(q)' => reader'[q].gen <= gen' /\ reader'[q].gen # gen'
  BY <1>0, <1>1 DEF Tagged
<1>3. entry # NoEntry => entry.gen \in Nat /\ entry.gen <= gen
  BY <1>0 DEF Reach, EntryRow
<1>4. ~Served'
  BY <1>0, <1>3 DEF Served
<1>5. entry' # NoEntry => entry'.gen <= gen'
  BY <1>0, <1>3
<1>6. gen' # 0
  BY <1>0
<1> QED
  BY <1>2, <1>4, <1>5, <1>6 DEF Reach, Tagged

\* A writer that does not set the counter back makes it larger or leaves it alone.
LEMMA WriterStepReaches ==
    ASSUME PriceInv, Reach, NEW w \in Writers, WriterStep(w), ~rewound'
    PROVE  Reach'
<1>0. gen \in Nat
  BY PriceShapes DEF PriceInv
<1>1. ASSUME UNCHANGED <<gen, announced, entry, reader>>
      PROVE  Reach'
  BY <1>1 DEF Reach, Served, Tagged
<1>2. CASE StartChange(w)
  BY <1>1, <1>2 DEF StartChange
<1>3. CASE BumpGeneration(w)
  <2>1. CASE gen = 0
    BY <1>1, <1>3, <2>1 DEF BumpGeneration
  <2>2. CASE gen # 0
    BY <1>0, <1>3, <2>2, BumpLeavesBehind DEF BumpGeneration
  <2> QED
    BY <2>1, <2>2
<1>4. CASE SetGeneration(w)
  <2>1. gen = 0
    BY <1>4, Zenon DEF SetGeneration
  <2> QED
    BY <1>4, <2>1, BumpLeavesBehind DEF SetGeneration
<1>5. CASE CommitChange(w)
  BY <1>1, <1>5 DEF CommitChange
<1>6. CASE CrashWriter(w)
  BY <1>1, <1>6 DEF CrashWriter
<1> QED
  BY <1>2, <1>3, <1>4, <1>5, <1>6 DEF WriterStep

\* Neither an expiry nor a counter that was set back is ever forgotten.
LEMMA HistoryStays ==
    ASSUME PriceInv, [Next]_vars, expiries' = 0, ~rewound'
    PROVE  expiries = 0 /\ ~rewound
<1>0. expiries \in Nat
  BY PriceShapes, LimitsAssumption DEF PriceInv
<1>1. expiries' = expiries \/ expiries' = expiries + 1
  BY DEF Next, vars, WindowTurns, GenerationExpires, EntryExpires, ReaderStep, WriterStep,
         LoadProduct, ReadGeneration, LookUp, ReadDiscounts, StoreEntry, StartChange,
         BumpGeneration, SetGeneration, CommitChange, CrashWriter
<1>2. rewound' = rewound \/ rewound' = (rewound \/ gen # 0)
  BY Zenon DEF Next, vars, WindowTurns, GenerationExpires, EntryExpires, ReaderStep, WriterStep,
         LoadProduct, ReadGeneration, LookUp, ReadDiscounts, StoreEntry, StartChange,
         BumpGeneration, SetGeneration, CommitChange, CrashWriter
<1>3. ~rewound
  BY <1>2, Zenon
<1> QED
  BY <1>0, <1>1, <1>3

\* What the entry and the readers carry stays reached, by every step.
LEMMA ReachStepKeeps == ReachInv /\ [Next]_vars => ReachInv'
<1> SUFFICES ASSUME ReachInv, [Next]_vars, expiries' = 0, ~rewound' PROVE Reach'
  BY PriceStepKeeps DEF ReachInv
<1>0. PriceInv
  BY DEF ReachInv
<1>1. expiries = 0 /\ ~rewound
  BY <1>0, HistoryStays
<1>2. Reach
  BY <1>1 DEF ReachInv
<1>3. CASE WindowTurns
  BY <1>2, <1>3 DEF WindowTurns, Reach, Served, Tagged
<1>4. CASE GenerationExpires
  <2>1. expiries' = 1
    BY <1>1, <1>4 DEF GenerationExpires
  <2> QED
    BY <2>1
<1>5. CASE EntryExpires
  BY <1>2, <1>5 DEF EntryExpires, Reach, Served, Tagged
<1>6. CASE UNCHANGED vars
  BY <1>2, <1>6 DEF vars, Reach, Served, Tagged
<1> QED
  BY <1>0, <1>2, <1>3, <1>4, <1>5, <1>6, ReaderStepReaches, WriterStepReaches DEF Next

\* Any readers and writers, however slow: while the counter's key lives and is not set
\* back, no read is served a price from discounts older than the last bump announced.
THEOREM BumpsReachEntries == Spec => []BumpReachesEntries
<1>1. ReachInv => BumpReachesEntries
  BY DEF ReachInv, Reach, BumpReachesEntries
<1> QED
  BY <1>1, ReachStepKeeps, ReachStarts, PTL DEF Spec
-----------------------------------------------------------------------------
\* A step that leaves the discounts, the counter and the entry alone is none of the
\* read-through cache.
LEMMA AsideReads ==
    ASSUME UNCHANGED <<disc, gen, announced, entry>>, CounterLost' = CounterLost
    PROVE  UNCHANGED Discounts!vars
  BY DEF Discounts!vars, ServedDiscounts, Served

\* A change of the rows: of the discounts, or of the product alone.
LEMMA CommitReads ==
    ASSUME NEW op, Commit(op), UNCHANGED <<gen, announced, entry>>,
           ~CounterLost, CounterLost' = CounterLost
    PROVE  [Discounts!Next]_(Discounts!vars)
<1>1. ServedDiscounts' = ServedDiscounts
  BY DEF ServedDiscounts, Served
<1>2. CASE op = "product"
  BY <1>2, AsideReads DEF Commit
<1>3. CASE op # "product"
  BY <1>1, <1>3 DEF Commit, Discounts!Next, Discounts!Change
<1> QED
  BY <1>2, <1>3

\* A bump announces, and leaves nothing to be served.
LEMMA BumpReads ==
    ASSUME PriceInv, Reach, gen' \in Nat, gen' > gen, UNCHANGED <<entry, disc>>,
           announced' = disc, ~CounterLost, CounterLost' = CounterLost
    PROVE  [Discounts!Next]_(Discounts!vars)
<1>0. /\ gen \in Nat /\ announced \in 0 .. disc /\ disc \in Nat
      /\ entry = NoEntry \/ entry \in EntryRow(base, disc)
  BY PriceShapes DEF PriceInv
<1>1. entry # NoEntry => entry.gen \in Nat /\ entry.gen <= gen
  BY <1>0 DEF Reach, EntryRow
<1>2. (entry = NoEntry \/ entry.gen # gen)'
  BY <1>0, <1>1
<1>3. ServedDiscounts' = {}
  BY <1>2 DEF ServedDiscounts, Served
<1>4. announced' \in announced .. disc
  BY <1>0
<1> QED
  BY <1>3, <1>4 DEF Discounts!Next, Discounts!Announce

\* A reader's store fills the cache, or overwrites what was served with what nobody
\* will look up.
LEMMA StoreReads ==
    ASSUME PriceInv, Reach, NEW r \in Readers, StoreEntry(r),
           ~CounterLost, CounterLost' = CounterLost
    PROVE  [Discounts!Next]_(Discounts!vars)
<1>0. reader[r] \in ReaderRow(base, disc) /\ disc \in Nat /\ announced \in 0 .. disc
  BY PriceShapes DEF PriceInv
<1>1. /\ UNCHANGED <<disc, gen, announced>>
      /\ entry' = [gen |-> reader[r].gen, price |-> <<reader[r].base, reader[r].disc>>]
      /\ reader[r].pc = "computed"
  BY DEF StoreEntry
<1>2. entry' # NoEntry
  BY <1>1 DEF NoEntry
<1>3. CASE reader[r].gen = gen
  <2>1. reader[r].disc \in announced .. disc
    BY <1>0, <1>1, <1>3 DEF Reach, ReaderRow
  <2>2. ServedDiscounts' = {reader[r].disc}
    BY <1>1, <1>2, <1>3 DEF ServedDiscounts, Served
  <2> QED
    BY <1>1, <2>1, <2>2 DEF Discounts!Next, Discounts!Fill
<1>4. CASE reader[r].gen # gen
  <2>1. ServedDiscounts' = {}
    BY <1>1, <1>4 DEF ServedDiscounts, Served
  <2> QED
    BY <1>1, <2>1 DEF Discounts!Next, Discounts!Drop
<1> QED
  BY <1>3, <1>4

\* Every step is one of the read-through cache, or none.
LEMMA StepReadsThrough == ReachInv /\ [Next]_vars => [Discounts!Next]_(Discounts!vars)
<1> SUFFICES ASSUME ReachInv, [Next]_vars PROVE [Discounts!Next]_(Discounts!vars)
  OBVIOUS
<1>0. PriceInv /\ PriceInv' /\ expiries \in Nat /\ expiries' \in Nat
  BY PriceStepKeeps, PriceShapes, LimitsAssumption DEF ReachInv, PriceInv, TypeOK
<1>1. CASE CounterLost'
  <2>1. CounterLost' = TRUE
    BY <1>1 DEF CounterLost
  <2> QED
    BY <2>1 DEF Discounts!Next, Discounts!Break
<1>2. CASE ~CounterLost'
  <2>1. expiries' = 0 /\ ~rewound'
    BY <1>0, <1>2 DEF CounterLost
  <2>2. expiries = 0 /\ ~rewound
    BY <1>0, <2>1, HistoryStays
  <2>3. Reach /\ ~CounterLost
    BY <2>2 DEF ReachInv, CounterLost
  <2>4. CounterLost' = CounterLost
    BY <1>2, <2>3 DEF CounterLost
  <2>5. ASSUME UNCHANGED <<disc, gen, announced, entry>>
        PROVE  [Discounts!Next]_(Discounts!vars)
    BY <2>4, <2>5, AsideReads
  <2>6. CASE WindowTurns
    BY <2>3, <2>4, <2>6, CommitReads DEF WindowTurns
  <2>7. CASE GenerationExpires
    BY <2>1, <2>2, <2>7 DEF GenerationExpires
  <2>8. CASE EntryExpires
    <3>1. ServedDiscounts' = {}
      BY <2>8 DEF EntryExpires, ServedDiscounts, Served
    <3> QED
      BY <2>3, <2>4, <2>8, <3>1 DEF EntryExpires, Discounts!Next, Discounts!Drop
  <2>9. ASSUME NEW r \in Readers, ReaderStep(r)
        PROVE  [Discounts!Next]_(Discounts!vars)
    <3>1. CASE StoreEntry(r)
      BY <1>0, <2>3, <2>4, <3>1, StoreReads
    <3>2. CASE LoadProduct(r) \/ ReadGeneration(r) \/ LookUp(r) \/ ReadDiscounts(r)
      BY <2>5, <3>2 DEF LoadProduct, ReadGeneration, LookUp, ReadDiscounts
    <3> QED
      BY <2>9, <3>1, <3>2 DEF ReaderStep
  <2>10. ASSUME NEW w \in Writers, WriterStep(w)
         PROVE  [Discounts!Next]_(Discounts!vars)
    <3>1. CASE StartChange(w)
      <4>1. PICK op \in Changes : BeginChange(w, op) \/ SaveUpdate(w, op)
        BY <3>1 DEF StartChange
      <4>2. CASE BeginChange(w, op)
        BY <2>5, <3>1, <4>2 DEF StartChange, BeginChange
      <4>3. CASE SaveUpdate(w, op)
        BY <2>3, <2>4, <3>1, <4>3, CommitReads DEF StartChange, SaveUpdate
      <4> QED
        BY <4>1, <4>2, <4>3
    <3>2. CASE BumpGeneration(w)
      <4>1. CASE gen = 0
        BY <2>5, <3>2, <4>1 DEF BumpGeneration
      <4>2. CASE gen # 0
        <5>1. gen \in Nat
          BY <1>0, PriceShapes DEF PriceInv
        <5>2. /\ gen' \in Nat /\ gen' > gen /\ announced' = disc
              /\ UNCHANGED <<entry, disc>>
          BY <3>2, <4>2, <5>1 DEF BumpGeneration
        <5> QED
          BY <1>0, <2>3, <2>4, <5>2, BumpReads
      <4> QED
        BY <4>1, <4>2
    <3>3. CASE SetGeneration(w)
      <4>1. gen = 0
        BY <2>1, <3>3, Zenon DEF SetGeneration
      <4>2. /\ gen' \in Nat /\ gen' > gen /\ announced' = disc
            /\ UNCHANGED <<entry, disc>>
        BY <3>3, <4>1 DEF SetGeneration
      <4> QED
        BY <1>0, <2>3, <2>4, <4>2, BumpReads
    <3>4. CASE CommitChange(w)
      <4>1. PICK op : op = writer[w].op
        OBVIOUS
      <4> QED
        BY <2>3, <2>4, <3>4, <4>1, CommitReads DEF CommitChange
    <3>5. CASE CrashWriter(w)
      BY <2>5, <3>5 DEF CrashWriter
    <3> QED
      BY <2>10, <3>1, <3>2, <3>3, <3>4, <3>5 DEF WriterStep
  <2>11. CASE UNCHANGED vars
    BY <2>5, <2>11 DEF vars
  <2> QED
    BY <2>6, <2>7, <2>8, <2>9, <2>10, <2>11 DEF Next
<1> QED
  BY <1>1, <1>2

\* The cached price is a read-through cache of the discounts, for any readers and
\* writers, however slow, whoever dies (cache.py and signals.py of apps/promotions).
THEOREM PricesReadThrough == Spec => ImplementsReadThrough
<1>1. Init => Discounts!Init
  BY DEF Init, Discounts!Init, ServedDiscounts, Served, CounterLost
<1> QED
  BY <1>1, ReachStarts, ReachStepKeeps, StepReadsThrough, PTL
     DEF Spec, ImplementsReadThrough, Discounts!Spec
-----------------------------------------------------------------------------
\* The inductive invariant of the abstract cache, seen through the prices.
Promised ==
    /\ CounterLost \in BOOLEAN
    /\ ~CounterLost => disc \in Nat /\ announced \in 0 .. disc /\ ServedDiscounts \subseteq announced .. disc

\* The abstract cache keeps its promise: each of its steps serves nothing from
\* before the last announcement and nothing that is not committed.
LEMMA PromiseKept ==
    ASSUME Promised, [Discounts!Next]_(Discounts!vars)
    PROVE  Promised'
<1>1. CASE Discounts!Break
  BY <1>1, Zenon DEF Discounts!Break, Promised
<1>2. CASE UNCHANGED Discounts!vars
  BY <1>2, Zenon DEF Discounts!vars, Promised
<1>3. CASE ~CounterLost /\ (Discounts!Change \/ Discounts!Announce \/ Discounts!Fill \/ Discounts!Drop)
  <2>1. CounterLost' = CounterLost
    BY <1>3 DEF Discounts!Change, Discounts!Announce, Discounts!Fill, Discounts!Drop
  <2>2. CounterLost' \in BOOLEAN
    BY <2>1, Zenon DEF Promised
  <2>3. /\ disc \in Nat /\ announced \in 0 .. disc
        /\ \A v \in ServedDiscounts : v \in announced .. disc
    BY <1>3 DEF Promised
  <2>4. /\ disc' \in Nat /\ announced' \in 0 .. disc'
        /\ \A v \in ServedDiscounts' : v \in announced' .. disc'
    <3>1. CASE Discounts!Change
      BY <2>3, <3>1 DEF Discounts!Change
    <3>2. CASE Discounts!Announce
      BY <2>3, <3>2 DEF Discounts!Announce
    <3>3. CASE Discounts!Fill
      BY <2>3, <3>3 DEF Discounts!Fill
    <3>4. CASE Discounts!Drop
      BY <2>3, <3>4 DEF Discounts!Drop
    <3> QED
      BY <1>3, <3>1, <3>2, <3>3, <3>4
  <2> QED
    BY <2>2, <2>4 DEF Promised
<1> QED
  BY <1>1, <1>2, <1>3 DEF Discounts!Next

\* What the read-through cache promises its readers, it promises the readers of
\* prices: until the counter is lost, what is served is committed, and no older
\* than the last bump (get_cached_effective_price in apps/promotions/cache.py).
THEOREM PricesServedFresh == Spec => []Discounts!Fresh
<1>1. Discounts!Init => Promised
  <2> SUFFICES ASSUME Discounts!Init PROVE Promised
    OBVIOUS
  <2>1. CounterLost = FALSE
    BY DEF Discounts!Init
  <2>2. CounterLost \in BOOLEAN
    BY <2>1, Zenon
  <2>3. disc \in Nat /\ announced \in 0 .. disc /\ ServedDiscounts \subseteq announced .. disc
    BY DEF Discounts!Init
  <2> QED
    BY <2>2, <2>3 DEF Promised
<1>2. Promised /\ [Discounts!Next]_(Discounts!vars) => Promised'
  BY PromiseKept
<1>3. Promised => Discounts!Fresh
  <2> SUFFICES ASSUME Promised, ~CounterLost, NEW v \in ServedDiscounts
               PROVE  announced <= v /\ v <= disc
    BY DEF Discounts!Fresh
  <2> QED
    BY DEF Promised
<1> QED
  BY <1>1, <1>2, <1>3, PricesReadThrough, PTL DEF ImplementsReadThrough, Discounts!Spec
=============================================================================
