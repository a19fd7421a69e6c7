-------------------------- MODULE GenerationCache --------------------------
(***************************************************************************)
(* The caches of lists and pages that are keyed by a generation            *)
(* (apps/catalog/cache.py, apps/content/cache.py).  A write does not touch *)
(* the entries: it increments the counter of its namespace, and a request  *)
(* looks entries up under the generation it has just read.  Namespaces do  *)
(* not interact: a write that increments several may die before any one of *)
(* them, so a behaviour is about one namespace.  An entry is the version   *)
(* of the data it was computed from.                                       *)
(***************************************************************************)
EXTENDS Workers

CONSTANTS
    Namespaces,   \* the namespaces to look at, of categories, facets, product_list, banners, pages, blog
    MaxVersions,  \* bound: changes of the data
    MaxBumps,     \* bound: the highest generation
    MaxLosses     \* bound: counters that expire, caches and writers that die

ASSUME GenerationAssumption ==
    None \notin Nat /\ {MaxVersions, MaxBumps, MaxLosses} \subseteq Nat /\ MaxBumps # 0

VARIABLES
    space,      \* the namespace
    data,       \* the version of the committed data
    counter,    \* the generation counter, None when it is missing
    entry,      \* the entries, by generation
    reader,     \* what each reading request has in hand
    writer,     \* what each writing request has left to do
    announced,  \* (history) the last write that was committed before it incremented the counter
    unsettled,  \* (history) whether the counter was ever lost or set back
    cacheLosses

generationVars == <<space, data, counter, entry, reader, writer, announced, unsettled, cacheLosses>>
-----------------------------------------------------------------------------
\* Changes that increment no counter: brands and ratings in the product list,
\* schedules that turn and relations set after the row was saved.
Silent == {"product_list", "banners", "blog"}

Generations == 0 .. MaxBumps

NoReader == [pc |-> "idle", generation |-> 0, found |-> 0]
NoWriter == [pc |-> "idle", kind |-> "none", version |-> 0]

\* get_..._generation: a missing counter reads as 0.
Generation == IF counter = None THEN 0 ELSE counter

GenerationInit ==
    /\ space \in Namespaces
    /\ data = 0 /\ counter = None /\ entry = [g \in Generations |-> None]
    /\ reader = [w \in Worker |-> NoReader] /\ writer = [w \in Worker |-> NoWriter]
    /\ announced = 0 /\ unsettled = FALSE /\ cacheLosses = 0

ReaderFree(w) == reader[w] = NoReader /\ writer[w] = NoWriter
-----------------------------------------------------------------------------
\* A storefront view reads the generation; an entry found under it is served.
ReadGeneration(w) ==
    /\ ReaderFree(w)
    /\ reader' = [reader EXCEPT ![w] = [NoReader EXCEPT !.pc = "keyed", !.generation = Generation]]
    /\ UNCHANGED <<space, data, counter, entry, writer, announced, unsettled, cacheLosses>>

\* There is none, and the payload is computed from the database ...
Compute(w) ==
    /\ reader[w].pc = "keyed" /\ entry[reader[w].generation] = None
    /\ reader' = [reader EXCEPT ![w].pc = "computed", ![w].found = data]
    /\ UNCHANGED <<space, data, counter, entry, writer, announced, unsettled, cacheLosses>>

\* Mutant of StoreEntry: it is stored under the generation of now.
StoreUnderLatest(w) ==
    /\ reader[w].pc = "computed"
    /\ entry' = [entry EXCEPT ![Generation] = reader[w].found]
    /\ reader' = [reader EXCEPT ![w] = NoReader]
    /\ UNCHANGED <<space, data, counter, writer, announced, unsettled, cacheLosses>>

\* ... and stored under the generation that was read.
StoreEntry(w) ==
    /\ reader[w].pc = "computed"
    /\ entry' = [entry EXCEPT ![reader[w].generation] = reader[w].found]
    /\ reader' = [reader EXCEPT ![w] = NoReader]
    /\ UNCHANGED <<space, data, counter, writer, announced, unsettled, cacheLosses>>

\* The view serves an entry, or dies.
Served(w) ==
    /\ reader[w].pc = "keyed"
    /\ reader' = [reader EXCEPT ![w] = NoReader]
    /\ UNCHANGED <<space, data, counter, entry, writer, announced, unsettled, cacheLosses>>
-----------------------------------------------------------------------------
\* A save outside a transaction: it is committed when post_save runs.
CommitFirst(w) ==
    /\ ReaderFree(w) /\ data < MaxVersions
    /\ data' = data + 1
    /\ writer' = [writer EXCEPT ![w] = [pc |-> "bump", kind |-> "late", version |-> data + 1]]
    /\ UNCHANGED <<space, counter, entry, reader, announced, unsettled, cacheLosses>>

\* A save inside a transaction, or a deletion: the signal runs before the commit.
BeginWrite(w) ==
    /\ ReaderFree(w)
    /\ writer' = [writer EXCEPT ![w] = [NoWriter EXCEPT !.pc = "bump", !.kind = "early"]]
    /\ UNCHANGED <<space, data, counter, entry, reader, announced, unsettled, cacheLosses>>

SilentWrite ==
    /\ space \in Silent /\ data < MaxVersions
    /\ data' = data + 1
    /\ UNCHANGED <<space, counter, entry, reader, writer, announced, unsettled, cacheLosses>>

\* What is left to do once the counter is incremented.
Bumped(w) ==
    /\ writer' = [writer EXCEPT ![w] = IF @.kind = "early" THEN [@ EXCEPT !.pc = "commit"] ELSE NoWriter]
    /\ announced' = IF writer[w].version > announced THEN writer[w].version ELSE announced

\* bump_..._generation: incr, which fails on a missing counter ...
BumpGeneration(w) ==
    /\ writer[w].pc = "bump"
    /\ IF counter # None
       THEN /\ counter < MaxBumps /\ counter' = counter + 1
            /\ Bumped(w)
       ELSE /\ writer' = [writer EXCEPT ![w].pc = "reset"]
            /\ UNCHANGED <<counter, announced>>
    /\ UNCHANGED <<space, data, entry, reader, unsettled, cacheLosses>>

\* ... and then set to 1, over whatever another request has done meanwhile.
ResetGeneration(w) ==
    /\ writer[w].pc = "reset"
    /\ counter' = 1
    /\ unsettled' = (unsettled \/ (counter # None /\ counter # 1))
    /\ Bumped(w)
    /\ UNCHANGED <<space, data, entry, reader, cacheLosses>>

\* The transaction commits.
CommitEarly(w) ==
    /\ writer[w].pc = "commit" /\ data < MaxVersions
    /\ data' = data + 1
    /\ writer' = [writer EXCEPT ![w] = NoWriter]
    /\ UNCHANGED <<space, counter, entry, reader, announced, unsettled, cacheLosses>>
-----------------------------------------------------------------------------
\* An entry reaches the end of its time to live.
ExpireEntry ==
    \E g \in Generations :
        /\ entry[g] # None
        /\ entry' = [entry EXCEPT ![g] = None]
        /\ UNCHANGED <<space, data, counter, reader, writer, announced, unsettled, cacheLosses>>

\* The counter does: it was set with the default timeout, which incr keeps.
ExpireCounter ==
    /\ counter # None /\ cacheLosses < MaxLosses
    /\ counter' = None /\ unsettled' = TRUE /\ cacheLosses' = cacheLosses + 1
    /\ UNCHANGED <<space, data, entry, reader, writer, announced>>

\* The cache restarts empty.
RestartCache ==
    /\ cacheLosses < MaxLosses
    /\ counter' = None /\ entry' = [g \in Generations |-> None] /\ cacheLosses' = cacheLosses + 1
    /\ unsettled' = (unsettled \/ \E w \in Worker : reader[w] # NoReader)
    /\ UNCHANGED <<space, data, reader, writer, announced>>

\* A writing request dies before it is through, or the cache refuses the
\* increment: what was committed stays, an open transaction is rolled back.
WriterDies(w) ==
    /\ writer[w] # NoWriter /\ cacheLosses < MaxLosses
    /\ writer' = [writer EXCEPT ![w] = NoWriter] /\ cacheLosses' = cacheLosses + 1
    /\ UNCHANGED <<space, data, counter, entry, reader, announced, unsettled>>

GenerationNext ==
    \/ \E w \in Worker : \/ ReadGeneration(w) \/ Compute(w) \/ StoreEntry(w) \/ Served(w)
                         \/ CommitFirst(w) \/ BeginWrite(w) \/ BumpGeneration(w)
                         \/ ResetGeneration(w) \/ CommitEarly(w) \/ WriterDies(w)
    \/ SilentWrite \/ ExpireEntry \/ ExpireCounter \/ RestartCache

GenerationSpec == GenerationInit /\ [][GenerationNext]_generationVars
-----------------------------------------------------------------------------
\* The types of the variables.
GenerationTypeOK ==
    /\ space \in Namespaces
    /\ data \in 0 .. MaxVersions /\ announced \in 0 .. data
    /\ counter \in Generations \cup {None}
    /\ entry \in [Generations -> 0 .. MaxVersions \cup {None}]
    /\ reader \in [Worker -> [pc : {"idle", "keyed", "computed"}, generation : Generations,
                              found : 0 .. MaxVersions]]
    /\ writer \in [Worker -> [pc : {"idle", "bump", "reset", "commit"},
                              kind : {"none", "late", "early"}, version : 0 .. data]]
    /\ unsettled \in BOOLEAN /\ cacheLosses \in Nat

\* Once a write that commits before it increments the counter has done so, no
\* request that reads the generation from then on finds an entry from before
\* the write, whatever fills were under way: as long as the counter was never
\* lost while entries outlived it, or set back to 1 by a late reset.  (Writes
\* that increment inside their transaction, or not at all, promise nothing.)
FreshOnceBumped ==
    ~unsettled => \/ entry[Generation] = None
                  \/ entry[Generation] >= announced

\* The entries of a namespace are a read-through cache: the page a read would be
\* served was computed from committed data, no older than the last write that
\* committed before it incremented the counter.
ServedPages == {entry[Generation]} \ {None}

Pages == INSTANCE ReadThrough WITH
    version <- data, served <- ServedPages, broken <- unsettled

PagesReadThrough == Pages!Spec
=============================================================================
