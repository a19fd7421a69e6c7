---------------------------- MODULE SiteSettings ----------------------------
(***************************************************************************)
(* The SiteConfig singleton (apps/core) and the two cache entries made     *)
(* from it: the site configuration and the social-proof flag               *)
(* (apps/social_proof/cache.py).  Reads fill an entry, saves drop it.  The *)
(* staff endpoint edits the object that get_site_config returns, which may *)
(* come from the cache, and saves every column of it; the admin loads the  *)
(* row and saves it inside a transaction.                                  *)
(***************************************************************************)
EXTENDS Workers

CONSTANTS
    Column,          \* columns of the row
    Flag,            \* the one that enables social proof
    MaxEdits,        \* bound: edits of the row
    MaxConfigCrashes \* bound: requests killed half-way

ASSUME SettingsAssumption ==
    Flag \in Column /\ None \notin Nat /\ {MaxEdits, MaxConfigCrashes} \subseteq Nat

VARIABLES
    config,        \* the row: which edit each column was last set by
    edits,         \* edits accepted so far
    lastEdit,      \* (history) the last edit of each column that was saved
    configEntry,   \* the cached row, or None
    flagEntry,     \* the cached flag, or None
    visitor,       \* what each request has in hand
    settingsRaced, \* (history) whether an edit ever overlapped another request, or died
    configCrashes

settingsVars == <<config, edits, lastEdit, configEntry, flagEntry, visitor, settingsRaced,
                  configCrashes>>
-----------------------------------------------------------------------------
ConfigRow == [Column -> Nat]
Fresh0 == [c \in Column |-> 0]
NoVisit == [pc |-> "idle", row |-> Fresh0, column |-> Flag, edit |-> 0]

Editing == {"editing", "saved", "dropped", "inAdmin", "flagDropped", "allDropped"}

SettingsInit ==
    /\ config = Fresh0 /\ edits = 0 /\ lastEdit = Fresh0
    /\ configEntry = None /\ flagEntry = None
    /\ visitor = [w \in Worker |-> NoVisit]
    /\ settingsRaced = FALSE /\ configCrashes = 0

Visit(w, v) ==
    LET others == {u \in Worker : visitor[u] # NoVisit} IN
    /\ visitor[w] = NoVisit
    /\ visitor' = [visitor EXCEPT ![w] = v]
    /\ settingsRaced' = (settingsRaced \/ \E u \in others : {v.pc, visitor[u].pc} \cap Editing # {})

Step(w, pc) == /\ visitor' = [visitor EXCEPT ![w] = IF pc = "idle" THEN NoVisit ELSE [@ EXCEPT !.pc = pc]]
               /\ UNCHANGED <<edits, settingsRaced, configCrashes>>
-----------------------------------------------------------------------------
\* get_site_config on a cold cache: the row is loaded ...
LoadConfig(w) ==
    /\ configEntry = None
    /\ Visit(w, [NoVisit EXCEPT !.pc = "loaded", !.row = config])
    /\ UNCHANGED <<config, edits, lastEdit, configEntry, flagEntry, configCrashes>>

\* ... and cached, whatever happened meanwhile.
CacheConfig(w) ==
    /\ visitor[w].pc = "loaded"
    /\ configEntry' = visitor[w].row
    /\ Step(w, "idle")
    /\ UNCHANGED <<config, lastEdit, flagEntry>>

\* is_feature_enabled, the same for the flag.
LoadFlag(w) ==
    /\ flagEntry = None
    /\ Visit(w, [NoVisit EXCEPT !.pc = "flag", !.row = config])
    /\ UNCHANGED <<config, edits, lastEdit, configEntry, flagEntry, configCrashes>>

CacheFlag(w) ==
    /\ visitor[w].pc = "flag"
    /\ flagEntry' = visitor[w].row[Flag]
    /\ Step(w, "idle")
    /\ UNCHANGED <<config, lastEdit, configEntry>>

ExpireSettings ==
    /\ \/ configEntry # None /\ configEntry' = None /\ UNCHANGED flagEntry
       \/ flagEntry # None /\ flagEntry' = None /\ UNCHANGED configEntry
    /\ UNCHANGED <<config, edits, lastEdit, visitor, settingsRaced, configCrashes>>
-----------------------------------------------------------------------------
\* SiteConfigView.get_object, a PATCH of one column: the cached row if there
\* is one, else the row, which get_site_config caches on the way.
OpenConfig(w) ==
    \E c \in Column :
        /\ edits < MaxEdits /\ edits' = edits + 1
        /\ LET row == IF configEntry # None THEN configEntry ELSE config IN
           /\ Visit(w, [pc |-> "editing", row |-> row, column |-> c, edit |-> edits + 1])
           /\ configEntry' = row
        /\ UNCHANGED <<config, lastEdit, flagEntry, configCrashes>>

\* SiteConfigAdmin: the row, in a transaction.
OpenAdmin(w) ==
    \E c \in Column :
        /\ edits < MaxEdits /\ edits' = edits + 1
        /\ \A u \in Worker : visitor[u].pc \notin {"inAdmin", "flagDropped", "allDropped"}
        /\ Visit(w, [pc |-> "inAdmin", row |-> config, column |-> c, edit |-> edits + 1])
        /\ UNCHANGED <<config, lastEdit, configEntry, flagEntry, configCrashes>>

\* All columns are saved as they were loaded, but for the edited one.
Save(w) ==
    LET v == visitor[w] IN
    /\ config' = [v.row EXCEPT ![v.column] = v.edit]
    /\ lastEdit' = [lastEdit EXCEPT ![v.column] = v.edit]

\* save(): the row, committed on its own ...
SaveConfig(w) ==
    /\ visitor[w].pc = "editing"
    /\ \A u \in Worker : visitor[u].pc \notin {"flagDropped", "allDropped"}   \* the row's lock
    /\ Save(w)
    /\ Step(w, "saved")
    /\ UNCHANGED <<configEntry, flagEntry>>

\* ... then post_save drops the flag ...
DropFlag(w) ==
    /\ visitor[w].pc \in {"saved", "inAdmin"}
    /\ flagEntry' = None
    /\ Step(w, IF visitor[w].pc = "saved" THEN "dropped" ELSE "flagDropped")
    /\ UNCHANGED <<config, lastEdit, configEntry>>

\* Mutant of DropConfig: the entry is left to its timeout.
DropNothing(w) ==
    /\ visitor[w].pc \in {"dropped", "flagDropped"}
    /\ Step(w, IF visitor[w].pc = "dropped" THEN "idle" ELSE "allDropped")
    /\ UNCHANGED <<config, lastEdit, configEntry, flagEntry>>

\* ... and save() the configuration.
DropConfig(w) ==
    /\ visitor[w].pc \in {"dropped", "flagDropped"}
    /\ configEntry' = None
    /\ Step(w, IF visitor[w].pc = "dropped" THEN "idle" ELSE "allDropped")
    /\ UNCHANGED <<config, lastEdit, flagEntry>>

\* In the admin the transaction commits after both.
CommitAdmin(w) ==
    /\ visitor[w].pc = "allDropped"
    /\ Save(w)
    /\ Step(w, "idle")
    /\ UNCHANGED <<configEntry, flagEntry>>

\* A request dies, or the cache refuses to drop an entry (save() goes on).
ConfigCrash(w) ==
    /\ visitor[w] # NoVisit /\ configCrashes < MaxConfigCrashes
    /\ visitor' = [visitor EXCEPT ![w] = NoVisit]
    /\ configCrashes' = configCrashes + 1
    /\ settingsRaced' = (settingsRaced \/ visitor[w].pc \in {"saved", "dropped"})
    /\ UNCHANGED <<config, edits, lastEdit, configEntry, flagEntry>>

SettingsNext ==
    \/ \E w \in Worker : \/ LoadConfig(w) \/ CacheConfig(w) \/ LoadFlag(w) \/ CacheFlag(w)
                         \/ OpenConfig(w) \/ OpenAdmin(w) \/ SaveConfig(w) \/ DropFlag(w)
                         \/ DropConfig(w) \/ CommitAdmin(w) \/ ConfigCrash(w)
    \/ ExpireSettings

SettingsSpec == SettingsInit /\ [][SettingsNext]_settingsVars
-----------------------------------------------------------------------------
\* The types of the variables.
SettingsTypeOK ==
    /\ config \in ConfigRow /\ lastEdit \in ConfigRow /\ edits \in 0 .. MaxEdits
    /\ configEntry = None \/ configEntry \in ConfigRow
    /\ flagEntry \in Nat \cup {None}
    /\ visitor \in [Worker -> [pc : Editing \cup {"idle", "loaded", "flag"}, row : ConfigRow,
                               column : Column, edit : Nat]]
    /\ settingsRaced \in BOOLEAN /\ configCrashes \in Nat

\* As long as no edit overlaps another request or dies between its save and
\* its drops, no edit is ever lost, although edits start from the cached row
\* and save every column; and at rest both entries are those of the row.  (A
\* read that overlaps one edit leaves an entry from before it, and the next
\* edit, alone, writes that back.)
NoEditLost ==
    ~settingsRaced =>
        /\ config = lastEdit
        /\ (\A w \in Worker : visitor[w].pc \notin Editing) =>
               configEntry \in {None, config} /\ flagEntry \in {None, config[Flag]}
=============================================================================
