----------------------------- MODULE Addresses -----------------------------
(***************************************************************************)
(* Two tables that staff keep by hand: the address directory               *)
(* (apps/accounts), of which one entry is the default, and the delivery    *)
(* areas (apps/shipping), which a command also fills from the courier's    *)
(* list.  Every request writes in several statements of their own.         *)
(***************************************************************************)
EXTENDS Workers

CONSTANTS
    Address, Area,
    MaxDirectoryCrashes   \* bound: requests killed half-way

ASSUME AddressesAssumption == None \notin Address \cup Area /\ MaxDirectoryCrashes \in Nat

VARIABLES
    address,         \* rows of the directory: "unused", "plain" or "default"
    area,            \* rows of DeliveryArea: "unused", "active" or "off"
    clerk,           \* what each request has read and is about to write
    clerksRaced,     \* (history) whether two requests were ever under way at once
    directoryCrashes

directoryVars == <<address, area, clerk, clerksRaced, directoryCrashes>>
-----------------------------------------------------------------------------
NoClerk == [op |-> "none", address |-> None, row |-> "unused", areas |-> {}, on |-> FALSE]

Defaults == {a \in Address : address[a] = "default"}

AddressesInit ==
    /\ address = [a \in Address |-> "unused"]
    /\ area = [a \in Area |-> "unused"]
    /\ clerk = [w \in Worker |-> NoClerk]
    /\ clerksRaced = FALSE /\ directoryCrashes = 0

StartClerk(w, c) ==
    /\ clerk[w] = NoClerk
    /\ clerk' = [clerk EXCEPT ![w] = c]
    /\ clerksRaced' = (clerksRaced \/ \E v \in Worker : clerk[v] # NoClerk)
    /\ UNCHANGED <<address, area, directoryCrashes>>

Continue(w, c) == clerk' = [clerk EXCEPT ![w] = c] /\ UNCHANGED <<clerksRaced, directoryCrashes>>
-----------------------------------------------------------------------------
\* AddressListCreateView and AddressRetrieveUpdateDestroyView: the row to
\* write, as it was loaded unless the request sets is_default; another default
\* is cleared first if the entry becomes it.
LoadAddress(w) ==
    \E a \in Address, row \in {"plain", "default"} :
        /\ \A v \in Worker : address[a] = "unused" => clerk[v].address # a
        /\ StartClerk(w, [NoClerk EXCEPT !.address = a, !.row = row,
               !.op = IF row = "default" /\ address[a] # "default" THEN "clear" ELSE "write"])

\* _clear_other_defaults.
ClearDefaults(w) ==
    /\ clerk[w].op = "clear"
    /\ address' = [a \in Address |-> IF a \in Defaults \ {clerk[w].address} THEN "plain" ELSE address[a]]
    /\ Continue(w, [clerk[w] EXCEPT !.op = "write"])
    /\ UNCHANGED area

\* The row is inserted or saved whole; a deleted one is inserted again.
WriteAddress(w) ==
    /\ clerk[w].op = "write"
    /\ address' = [address EXCEPT ![clerk[w].address] = clerk[w].row]
    /\ Continue(w, NoClerk)
    /\ UNCHANGED area

DeleteAddress ==
    \E a \in Address : /\ address[a] # "unused"
                       /\ address' = [address EXCEPT ![a] = "unused"]
                       /\ clerksRaced' = (clerksRaced \/ \E v \in Worker : clerk[v] # NoClerk)
                       /\ UNCHANGED <<area, clerk, directoryCrashes>>
-----------------------------------------------------------------------------
\* AdminDeliveryAreaListCreateView and AdminDeliveryAreaDetailView.
EditArea == \E a \in Area, s \in {"unused", "active", "off"} :
                /\ area' = [area EXCEPT ![a] = s]
                /\ UNCHANGED <<address, clerk, clerksRaced, directoryCrashes>>

\* The command has the list, each pair normalised and once.
StartSync(w) ==
    \E as \in SUBSET Area \ {{}}, on \in BOOLEAN :
        /\ \A v \in Worker : clerk[v].op # "sync"
        /\ StartClerk(w, [NoClerk EXCEPT !.op = "sync", !.areas = as, !.on = on])

\* get_or_create on the unique pair, and the row it found is switched on.
SyncArea(w) ==
    /\ clerk[w].op = "sync"
    /\ \E a \in clerk[w].areas :
          /\ area' = [area EXCEPT ![a] = IF @ = "unused" \/ clerk[w].on THEN "active" ELSE @]
          /\ Continue(w, IF clerk[w].areas = {a} THEN NoClerk ELSE [clerk[w] EXCEPT !.areas = @ \ {a}])
    /\ UNCHANGED address

\* A process is killed between two statements.
ClerkCrash(w) ==
    /\ clerk[w] # NoClerk /\ directoryCrashes < MaxDirectoryCrashes
    /\ clerk' = [clerk EXCEPT ![w] = NoClerk]
    /\ directoryCrashes' = directoryCrashes + 1
    /\ UNCHANGED <<address, area, clerksRaced>>

AddressesNext ==
    \/ DeleteAddress \/ EditArea
    \/ \E w \in Worker : \/ LoadAddress(w) \/ ClearDefaults(w) \/ WriteAddress(w)
                         \/ StartSync(w) \/ SyncArea(w) \/ ClerkCrash(w)

AddressesSpec == AddressesInit /\ [][AddressesNext]_directoryVars
-----------------------------------------------------------------------------
\* The types of the variables.
AddressesTypeOK ==
    /\ address \in [Address -> {"unused", "plain", "default"}]
    /\ area \in [Area -> {"unused", "active", "off"}]
    /\ clerk \in [Worker -> [op : {"none", "clear", "write", "sync"}, address : Address \cup {None},
                             row : {"unused", "plain", "default"}, areas : SUBSET Area, on : BOOLEAN]]
    /\ clerksRaced \in BOOLEAN /\ directoryCrashes \in Nat

\* As long as requests do not overlap, the directory never has two defaults,
\* whatever statement a request dies after: the old ones are cleared before
\* the new one is written.  (A request that dies between them leaves none, and
\* two that overlap leave two.)
OneDefault == ~clerksRaced => \A a, b \in Defaults : a = b
=============================================================================
