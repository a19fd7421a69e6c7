---------------------------- MODULE Collections ----------------------------
(***************************************************************************)
(* One smart collection and its cached list of products (apps/collections).*)
(* The periodic task replaces the membership rows with what the rule gives *)
(* and then caches the list; staff and product deletions change single     *)
(* rows, whose signals drop the entry before they are written.  Reading    *)
(* fills nothing.                                                          *)
(***************************************************************************)
EXTENDS Workers

CONSTANTS
    Item,            \* products
    MaxMemberEdits,  \* bound: rows added or removed by hand
    MaxRuleChanges,  \* bound: changes of what the rule gives, and of the window
    MaxFailures      \* bound: refreshes and edits that fail or die

ASSUME CollectionsAssumption ==
    None \notin Item /\ {MaxMemberEdits, MaxRuleChanges, MaxFailures} \subseteq Nat

VARIABLES
    matching,     \* the products the rule gives now
    open,         \* whether the collection is active and in its window
    members,      \* the products of the committed membership rows
    shelf,        \* the cached list, or None
    refresh,      \* what the periodic task is doing
    editor,       \* the row each request is about to add or remove
    shelfRaced,   \* (history) whether a refresh and an edit ever overlapped
    memberEdits, ruleChanges, failures

collectionVars == <<matching, open, members, shelf, refresh, editor, shelfRaced, memberEdits,
                    ruleChanges, failures>>
-----------------------------------------------------------------------------
NoRefresh == [pc |-> "idle", items |-> {}, seen |-> {}]
NoMemberEdit == [pc |-> "idle", op |-> "add", item |-> None]

CollectionsInit ==
    /\ matching = {} /\ open \in BOOLEAN /\ members = {} /\ shelf = None
    /\ refresh = NoRefresh /\ editor = [w \in Worker |-> NoMemberEdit]
    /\ shelfRaced = FALSE /\ memberEdits = 0 /\ ruleChanges = 0 /\ failures = 0

Counters == <<memberEdits, ruleChanges, failures>>

\* Products are created, restocked, flagged, discounted; the window turns.
RuleChanges ==
    /\ ruleChanges < MaxRuleChanges /\ ruleChanges' = ruleChanges + 1
    /\ matching' \in SUBSET Item /\ open' \in BOOLEAN
    /\ UNCHANGED <<members, shelf, refresh, editor, shelfRaced, memberEdits, failures>>
-----------------------------------------------------------------------------
\* refresh_smart_collection: compute_membership, if the collection is open.
ComputeMembership ==
    /\ refresh.pc = "idle" /\ open
    /\ refresh' = [NoRefresh EXCEPT !.pc = "computed", !.items = matching]
    /\ shelfRaced' = (shelfRaced \/ \E w \in Worker : editor[w] # NoMemberEdit)
    /\ UNCHANGED <<matching, open, members, shelf, editor, Counters>>

\* Mutant of ReplaceRows: rows are deleted in bulk and send no signal.
ReplaceQuietly ==
    /\ refresh.pc = "computed"
    /\ refresh' = [refresh EXCEPT !.pc = "replaced", !.seen = members]
    /\ UNCHANGED <<matching, open, members, shelf, editor, shelfRaced, Counters>>

\* In a transaction the rows are deleted and created; pre_delete and pre_save
\* drop the entry.
ReplaceRows ==
    /\ refresh.pc = "computed"
    /\ refresh' = [refresh EXCEPT !.pc = "replaced", !.seen = members]
    /\ shelf' = None
    /\ UNCHANGED <<matching, open, members, editor, shelfRaced, Counters>>

\* It commits, unless a row it creates was added meanwhile; rows that it had
\* not seen stay.
CommitRefresh ==
    /\ refresh.pc = "replaced"
    /\ LET added == members \ refresh.seen IN
       IF added \cap refresh.items = {}
       THEN /\ members' = refresh.items \cup added
            /\ refresh' = [refresh EXCEPT !.pc = "committed"]
       ELSE refresh' = NoRefresh /\ UNCHANGED members
    /\ UNCHANGED <<matching, open, shelf, editor, shelfRaced, Counters>>

\* The list is cached.
CacheList ==
    /\ refresh.pc = "committed"
    /\ shelf' = refresh.items
    /\ refresh' = NoRefresh
    /\ UNCHANGED <<matching, open, members, editor, shelfRaced, Counters>>

\* The sweep dies, or ends at an exception of this or an earlier collection.
RefreshFails ==
    /\ refresh # NoRefresh /\ failures < MaxFailures
    /\ failures' = failures + 1 /\ refresh' = NoRefresh
    /\ UNCHANGED <<matching, open, members, shelf, editor, shelfRaced, memberEdits, ruleChanges>>
-----------------------------------------------------------------------------
\* A row is to be added or removed, by hand or with its product.
OpenEdit(w) ==
    \E i \in Item :
        /\ editor[w] = NoMemberEdit /\ memberEdits < MaxMemberEdits /\ memberEdits' = memberEdits + 1
        /\ editor' = [editor EXCEPT ![w] = [pc |-> "checked", item |-> i,
                                            op |-> IF i \in members THEN "remove" ELSE "add"]]
        /\ shelfRaced' = (shelfRaced \/ refresh # NoRefresh)
        /\ UNCHANGED <<matching, open, members, shelf, refresh, ruleChanges, failures>>

\* pre_save or pre_delete of CollectionMembership.
DropList(w) ==
    /\ editor[w].pc = "checked"
    /\ shelf' = None
    /\ editor' = [editor EXCEPT ![w].pc = "dropped"]
    /\ UNCHANGED <<matching, open, members, refresh, shelfRaced, Counters>>

\* The row is written: it waits for a refresh that has deleted or created the
\* same row; adding one that is there is refused.
WriteMember(w) ==
    LET e == editor[w] IN
    /\ e.pc = "dropped"
    /\ refresh.pc = "replaced" => e.item \notin refresh.items \cup refresh.seen
    /\ members' = IF e.op = "add" THEN members \cup {e.item} ELSE members \ {e.item}
    /\ editor' = [editor EXCEPT ![w] = NoMemberEdit]
    /\ UNCHANGED <<matching, open, shelf, refresh, shelfRaced, Counters>>

EditFails(w) ==
    /\ editor[w] # NoMemberEdit /\ failures < MaxFailures
    /\ failures' = failures + 1 /\ editor' = [editor EXCEPT ![w] = NoMemberEdit]
    /\ UNCHANGED <<matching, open, members, shelf, refresh, shelfRaced, memberEdits, ruleChanges>>

ExpireList == /\ shelf # None /\ shelf' = None
              /\ UNCHANGED <<matching, open, members, refresh, editor, shelfRaced, Counters>>

Sweep == ComputeMembership \/ ReplaceRows \/ CommitRefresh \/ CacheList

CollectionsNext ==
    \/ RuleChanges \/ Sweep \/ RefreshFails \/ ExpireList
    \/ \E w \in Worker : OpenEdit(w) \/ DropList(w) \/ WriteMember(w) \/ EditFails(w)

CollectionsSpec == CollectionsInit /\ [][CollectionsNext]_collectionVars
-----------------------------------------------------------------------------
\* The types of the variables.
CollectionsTypeOK ==
    /\ matching \subseteq Item /\ members \subseteq Item /\ open \in BOOLEAN
    /\ shelf = None \/ shelf \subseteq Item
    /\ refresh \in [pc : {"idle", "computed", "replaced", "committed"}, items : SUBSET Item,
                    seen : SUBSET Item]
    /\ editor \in [Worker -> [pc : {"idle", "checked", "dropped"}, op : {"add", "remove"},
                              item : Item \cup {None}]]
    /\ shelfRaced \in BOOLEAN
    /\ memberEdits \in 0 .. MaxMemberEdits /\ ruleChanges \in 0 .. MaxRuleChanges
    /\ failures \in 0 .. MaxFailures

\* As long as no edit overlaps a refresh, the cached list is that of the rows
\* at every moment, whichever statement a refresh or an edit dies after.  (An
\* edit between the commit of a refresh and its CacheList is missing from the
\* list for half an hour.)
ListMatches == ~shelfRaced => shelf = None \/ shelf = members
=============================================================================
