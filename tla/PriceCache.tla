----------------------------- MODULE PriceCache -----------------------------
(***************************************************************************)
(* The effective price of one product and its generation-tagged cache      *)
(* entry (apps/promotions/cache.py, signals.py and get_effective_price in  *)
(* services.py).  A price is a function of the product's row and of the    *)
(* discount rows; both are version counters here, and a price is the pair  *)
(* of versions it was computed from.  Readers carry the product they       *)
(* loaded, read the generation, then the entry, and on a miss compute and  *)
(* store.  Writers bump the generation from a signal: before their rows    *)
(* are committed for a product save and for the creation and deletion of a *)
(* discount, after it for the update of a discount.                        *)
(***************************************************************************)
EXTENDS Naturals

CONSTANTS
    Readers,      \* requests that price the product
    Writers,      \* staff requests that change a price or a discount
    Changes,      \* the kinds of change made
    MaxChanges,   \* bound: changes made
    MaxExpiries,  \* bound: times the generation key expires
    MaxCrashes    \* bound: writers killed half-way

\* "product": update_product.  "create", "delete", "update": a discount is
\* created, deleted, updated.  "window": a discount's dates come or go.
ChangeKinds == {"product", "create", "delete", "update", "window"}

ASSUME ChangesAssumption == Changes \subseteq ChangeKinds
ASSUME LimitsAssumption ==
    MaxChanges \in Nat /\ MaxExpiries \in Nat /\ MaxCrashes \in Nat

VARIABLES
    base,      \* version of the committed product row
    disc,      \* version of the committed discount rows, as of now
    gen,       \* promotions:discount_generation, 0 when the key is absent
    entry,     \* the cached price, NoEntry or [gen, price]
    reader,    \* what each reader holds
    writer,    \* what each writer is doing
    announced, \* (history) version of the discounts when the counter was last bumped
    rewound,   \* (history) the except clause has set a living counter back to 1
    changes, expiries, crashes

vars == <<base, disc, gen, entry, reader, writer, announced, rewound, changes, expiries, crashes>>
-----------------------------------------------------------------------------
NoEntry == [gen |-> 0, price |-> <<>>]

Effective == <<base, disc>>

IdleReader == [pc |-> "idle", base |-> 0, gen |-> 0, disc |-> 0]
IdleWriter == [pc |-> "idle", op |-> "none"]

\* Changes whose signal runs before the rows are committed.
EarlyBump == {"product", "create", "delete"}
-----------------------------------------------------------------------------
Init ==
    /\ base = 0 /\ disc = 0
    /\ gen = 0
    /\ entry = NoEntry
    /\ reader = [r \in Readers |-> IdleReader]
    /\ writer = [w \in Writers |-> IdleWriter]
    /\ announced = 0 /\ rewound = FALSE
    /\ changes = 0 /\ expiries = 0 /\ crashes = 0

\* The caller loads the product; its price is the reader's base from here on.
LoadProduct(r) ==
    /\ reader[r].pc = "idle"
    /\ reader' = [reader EXCEPT ![r] = [IdleReader EXCEPT !.pc = "loaded", !.base = base]]
    /\ UNCHANGED <<base, disc, gen, entry, writer, announced, rewound, changes, expiries, crashes>>

\* get_discount_generation; a missing key reads as 0.
ReadGeneration(r) ==
    /\ reader[r].pc = "loaded"
    /\ reader' = [reader EXCEPT ![r].pc = "tagged", ![r].gen = gen]
    /\ UNCHANGED <<base, disc, gen, entry, writer, announced, rewound, changes, expiries, crashes>>

\* get_cached_effective_price: an entry of that generation is the answer,
\* anything else is a miss.
LookUp(r) ==
    /\ reader[r].pc = "tagged"
    /\ reader' = [reader EXCEPT ![r] =
           IF entry # NoEntry /\ entry.gen = @.gen THEN IdleReader
           ELSE [@ EXCEPT !.pc = "missed"]]
    /\ UNCHANGED <<base, disc, gen, entry, writer, announced, rewound, changes, expiries, crashes>>

\* _best_discount: the discount rows are read as committed now.
ReadDiscounts(r) ==
    /\ reader[r].pc = "missed"
    /\ reader' = [reader EXCEPT ![r].pc = "computed", ![r].disc = disc]
    /\ UNCHANGED <<base, disc, gen, entry, writer, announced, rewound, changes, expiries, crashes>>

\* Mutants of StoreEntry: the entry is tagged with the generation of its writing;
\* it holds its parts the wrong way round.
StoreUnderCurrent(r) ==
    /\ reader[r].pc = "computed"
    /\ entry' = [gen |-> gen, price |-> <<reader[r].base, reader[r].disc>>]
    /\ reader' = [reader EXCEPT ![r] = IdleReader]
    /\ UNCHANGED <<base, disc, gen, writer, announced, rewound, changes, expiries, crashes>>

StoreSwapped(r) ==
    /\ reader[r].pc = "computed"
    /\ entry' = [gen |-> reader[r].gen, price |-> <<reader[r].disc, reader[r].base>>]
    /\ reader' = [reader EXCEPT ![r] = IdleReader]
    /\ UNCHANGED <<base, disc, gen, writer, announced, rewound, changes, expiries, crashes>>

\* cache_effective_price, under the generation read at first.
StoreEntry(r) ==
    /\ reader[r].pc = "computed"
    /\ entry' = [gen |-> reader[r].gen, price |-> <<reader[r].base, reader[r].disc>>]
    /\ reader' = [reader EXCEPT ![r] = IdleReader]
    /\ UNCHANGED <<base, disc, gen, writer, announced, rewound, changes, expiries, crashes>>

\* The rows of a change become visible.
Commit(op) ==
    /\ base' = IF op = "product" THEN base + 1 ELSE base
    /\ disc' = IF op = "product" THEN disc ELSE disc + 1

\* Product.save reaches pre_save; create_discount and delete reach their signal
\* inside the transaction.
BeginChange(w, op) ==
    /\ op \in EarlyBump
    /\ writer' = [writer EXCEPT ![w] = [pc |-> "bumping", op |-> op]]
    /\ UNCHANGED <<base, disc>>

\* update_discount: the row is saved in autocommit, post_save comes after.
SaveUpdate(w, op) ==
    /\ op = "update"
    /\ Commit(op)
    /\ writer' = [writer EXCEPT ![w] = [pc |-> "bumping", op |-> op]]

StartChange(w) ==
    /\ writer[w].pc = "idle"
    /\ changes < MaxChanges
    /\ changes' = changes + 1
    /\ \E op \in Changes : BeginChange(w, op) \/ SaveUpdate(w, op)
    /\ UNCHANGED <<gen, entry, reader, announced, rewound, expiries, crashes>>

\* What follows the bump: an early change is still to be committed.
AfterBump(w) ==
    writer' = [writer EXCEPT ![w] =
        IF @.op \in EarlyBump THEN [@ EXCEPT !.pc = "bumped"] ELSE IdleWriter]

\* bump_discount_generation: incr fails on a missing key.
BumpGeneration(w) ==
    /\ writer[w].pc = "bumping"
    /\ IF gen = 0
       THEN writer' = [writer EXCEPT ![w].pc = "setting"] /\ UNCHANGED gen
       ELSE gen' = gen + 1 /\ AfterBump(w)
    /\ announced' = IF gen = 0 THEN announced ELSE disc
    /\ UNCHANGED <<base, disc, entry, reader, rewound, changes, expiries, crashes>>

\* Its except clause sets the key to 1, whatever it has become: another writer
\* that found it missing too may have made it 1 and more.
SetGeneration(w) ==
    /\ writer[w].pc = "setting"
    /\ gen' = 1
    /\ AfterBump(w)
    /\ announced' = disc
    /\ rewound' = (rewound \/ gen # 0)
    /\ UNCHANGED <<base, disc, entry, reader, changes, expiries, crashes>>

\* The transaction of an early change commits.
CommitChange(w) ==
    /\ writer[w].pc = "bumped"
    /\ Commit(writer[w].op)
    /\ writer' = [writer EXCEPT ![w] = IdleWriter]
    /\ UNCHANGED <<gen, entry, reader, announced, rewound, changes, expiries, crashes>>

\* A discount's start or end passes: no code runs.
WindowTurns ==
    /\ "window" \in Changes
    /\ changes < MaxChanges
    /\ changes' = changes + 1
    /\ Commit("window")
    /\ UNCHANGED <<gen, entry, reader, writer, announced, rewound, expiries, crashes>>

\* cache.set without a timeout takes the backend's default, 300 seconds, and
\* incr keeps it: the generation key goes while entries live 30 minutes.
GenerationExpires ==
    /\ gen # 0
    /\ expiries < MaxExpiries
    /\ expiries' = expiries + 1
    /\ gen' = 0
    /\ UNCHANGED <<base, disc, entry, reader, writer, announced, rewound, changes, crashes>>

\* Mutant of EntryExpires: the entry is set without a timeout.
EntryStays == FALSE /\ UNCHANGED vars

\* The entry reaches _EFFECTIVE_TTL_SECONDS.
EntryExpires ==
    /\ entry # NoEntry
    /\ entry' = NoEntry
    /\ UNCHANGED <<base, disc, gen, reader, writer, announced, rewound, changes, expiries, crashes>>

\* A writer dies; what it had not committed is rolled back.
CrashWriter(w) ==
    /\ writer[w].pc # "idle"
    /\ crashes < MaxCrashes
    /\ crashes' = crashes + 1
    /\ writer' = [writer EXCEPT ![w] = IdleWriter]
    /\ UNCHANGED <<base, disc, gen, entry, reader, announced, rewound, changes, expiries>>

ReaderStep(r) ==
    \/ LoadProduct(r) \/ ReadGeneration(r) \/ LookUp(r)
    \/ ReadDiscounts(r) \/ StoreEntry(r)

WriterStep(w) ==
    \/ StartChange(w) \/ BumpGeneration(w) \/ SetGeneration(w)
    \/ CommitChange(w) \/ CrashWriter(w)

Next ==
    \/ WindowTurns \/ GenerationExpires \/ EntryExpires
    \/ \E r \in Readers : ReaderStep(r)
    \/ \E w \in Writers : WriterStep(w)

Spec == Init /\ [][Next]_vars

\* Requests run to their end, and Redis expires the entry.
Fairness ==
    /\ WF_vars(EntryExpires)
    /\ \A r \in Readers : WF_vars(ReaderStep(r))
    /\ \A w \in Writers :
          WF_vars(BumpGeneration(w) \/ SetGeneration(w) \/ CommitChange(w))

FairSpec == Spec /\ Fairness
-----------------------------------------------------------------------------
\* Types of the versions, the entry and the readers and writers.
TypeOK ==
    /\ base \in 0 .. changes /\ disc \in 0 .. changes
    /\ gen \in Nat
    /\ entry = NoEntry \/ entry \in [gen : Nat, price : (0 .. base) \X (0 .. disc)]
    /\ reader \in [Readers -> [pc : {"idle", "loaded", "tagged", "missed", "computed"},
                               base : 0 .. base, gen : Nat, disc : 0 .. disc]]
    /\ writer \in [Writers -> [pc : {"idle", "bumping", "setting", "bumped"},
                               op : ChangeKinds \cup {"none"}]]
    /\ announced \in 0 .. disc /\ rewound \in BOOLEAN
    /\ changes \in 0 .. MaxChanges /\ expiries \in 0 .. MaxExpiries
    /\ crashes \in 0 .. MaxCrashes

Settled == \A w \in Writers : writer[w].pc = "idle"

Served == entry # NoEntry /\ entry.gen = gen

\* As long as the counter lives and no except clause has set it back, a bump
\* reaches every price computed before it: what a read would serve was computed
\* from discounts no older than those committed when the counter was last
\* bumped, however slow its reader was and however many writers there are.
BumpReachesEntries == expiries = 0 /\ ~rewound /\ Served => entry.price[2] >= announced

\* The discounts behind the cached price are a read-through cache, whose counter
\* is lost when it expires and set back by an except clause that comes late: what
\* a read would be served of them was committed, and is no older than the last
\* bump, whatever readers and writers do.
ServedDiscounts == IF Served THEN {entry.price[2]} ELSE {}
CounterLost == expiries > 0 \/ rewound

Discounts == INSTANCE ReadThrough WITH
    version <- disc, served <- ServedDiscounts, broken <- CounterLost

ImplementsReadThrough == Discounts!Spec

\* With no change under way, an entry that a read would serve is the effective
\* price of the rows as they are: "a read recomputes whenever the stored
\* generation no longer matches the current one".
ServedIsCurrent == Settled /\ Served => entry.price = Effective

\* Once changes stop, the entry is right for good, also when generations
\* expire, restart or are never bumped: its time to live "is a safety net".
EntryHeals == <>[](entry # NoEntry => entry.price = Effective)
=============================================================================
