------------------------------- MODULE Carts -------------------------------
(***************************************************************************)
(* The lines of one shopper's cart (apps/cart).  Two tabs share the cart's *)
(* cookie; each handler looks a line up and then saves it or inserts one,  *)
(* without a transaction or a lock, and no constraint keeps lines apart.   *)
(***************************************************************************)
EXTENDS Workers, FiniteSetsExt

CONSTANTS
    Product, Bundle,
    MaxQuantity,   \* MAX_LINE_QUANTITY
    MaxLines       \* bound: lines ever inserted

ASSUME CartsAssumption == /\ None \notin Product \cup Bundle
                          /\ MaxQuantity \in Nat \ {0} /\ MaxLines \in Nat

VARIABLES
    line,        \* CartItem rows by primary key; quantity 0: no such row
    inserted,    \* how many primary keys are used
    bundles,     \* the bundles that exist
    orderable,   \* products that are active and not out of stock
    tab,         \* what each request of the shopper is about to save
    wanted,      \* (history) the quantity the shopper asked for, by product and bundle
    tabsRaced    \* (history) whether two requests were ever under way at once

cartVars == <<line, inserted, bundles, orderable, tab, wanted, tabsRaced>>
-----------------------------------------------------------------------------
LineId == 1 .. MaxLines
Key == Product \X (Bundle \cup {None})
NoLine == [key |-> None, quantity |-> 0]
NoEdit == [op |-> "none", id |-> 0, key |-> None, quantity |-> 0]

Lines == {i \in LineId : line[i].quantity > 0}
LinesFor(k) == {i \in Lines : line[i].key = k}

CartsInit == /\ line = [i \in LineId |-> NoLine] /\ inserted = 0
             /\ bundles = Bundle /\ orderable = Product
             /\ tab = [w \in Worker |-> NoEdit]
             /\ wanted = [k \in Key |-> 0]
             /\ tabsRaced = FALSE

StartEdit(w, e) == /\ tab[w] = NoEdit
                   /\ tab' = [tab EXCEPT ![w] = e]
                   /\ tabsRaced' = (tabsRaced \/ \E v \in Worker : tab[v] # NoEdit)
                   /\ UNCHANGED <<line, inserted, bundles, orderable, wanted>>

\* add_item finds the line to add to, the first for the product and bundle, and
\* computes its new quantity.
LookUpLine(w) ==
    \E k \in Key, n \in 1 .. MaxQuantity :
        LET found == LinesFor(k) IN
        /\ k[1] \in orderable /\ k[2] \in bundles \cup {None}
        /\ StartEdit(w, IF found = {} THEN [op |-> "insert", id |-> 0, key |-> k, quantity |-> n]
                        ELSE LET i == Min(found) IN
                             [op |-> "add", id |-> i, key |-> k,
                              quantity |-> Least(line[i].quantity + n, MaxQuantity)])

\* update_item loads the line; a product no longer sold cannot be changed.
LoadLine(w) ==
    \E i \in Lines, n \in 1 .. MaxQuantity :
        /\ line[i].key[1] \in orderable
        /\ StartEdit(w, [op |-> "set", id |-> i, key |-> line[i].key, quantity |-> n])

\* The bundle of a new line may be gone by now (a foreign-key error).
InsertLine(w) ==
    LET e == tab[w]
        ok == e.key[2] \in bundles \cup {None}
    IN
    /\ e.op = "insert" /\ inserted < MaxLines
    /\ line' = IF ok THEN [line EXCEPT ![inserted + 1] = [key |-> e.key, quantity |-> e.quantity]]
                     ELSE line
    /\ inserted' = inserted + 1
    /\ wanted' = IF ok THEN [wanted EXCEPT ![e.key] = Least(@ + e.quantity, MaxQuantity)] ELSE wanted
    /\ tab' = [tab EXCEPT ![w] = NoEdit]
    /\ UNCHANGED <<bundles, orderable, tabsRaced>>

\* save(update_fields=["quantity"]); it fails when the row is gone.
SaveLine(w) ==
    LET e == tab[w] IN
    /\ e.op \in {"add", "set"}
    /\ line' = IF e.id \in Lines THEN [line EXCEPT ![e.id].quantity = e.quantity] ELSE line
    /\ wanted' = IF e.id \in Lines THEN [wanted EXCEPT ![e.key] = e.quantity] ELSE wanted
    /\ tab' = [tab EXCEPT ![w] = NoEdit]
    /\ UNCHANGED <<inserted, bundles, orderable, tabsRaced>>

RemoveLine(w) ==
    \E i \in Lines :
        /\ tab[w] = NoEdit
        /\ line' = [line EXCEPT ![i] = NoLine]
        /\ wanted' = [wanted EXCEPT ![line[i].key] = 0]
        /\ tabsRaced' = (tabsRaced \/ \E v \in Worker : tab[v] # NoEdit)
        /\ UNCHANGED <<inserted, bundles, orderable, tab>>

\* Staff delete a bundle: its lines stay, as lines of the bare product
\* (on_delete=SET_NULL), beside one the product may have already.
DeleteBundle ==
    \E b \in bundles :
        /\ bundles' = bundles \ {b}
        /\ line' = [i \in LineId |-> IF i \in Lines /\ line[i].key[2] = b
                                     THEN [line[i] EXCEPT !.key = <<@[1], None>>] ELSE line[i]]
        /\ UNCHANGED <<inserted, orderable, tab, wanted, tabsRaced>>

StockChanges ==
    \E p \in Product :
        /\ orderable' = IF p \in orderable THEN orderable \ {p} ELSE orderable \cup {p}
        /\ UNCHANGED <<line, inserted, bundles, tab, wanted, tabsRaced>>

CartsNext == \/ \E w \in Worker : \/ LookUpLine(w) \/ LoadLine(w) \/ InsertLine(w)
                                  \/ SaveLine(w) \/ RemoveLine(w)
             \/ DeleteBundle \/ StockChanges

CartsSpec == CartsInit /\ [][CartsNext]_cartVars
-----------------------------------------------------------------------------
\* The types of the variables: no line leaves 1 .. MAX_LINE_QUANTITY, however
\* requests overlap.
CartsTypeOK ==
    /\ line \in [LineId -> [key : Key, quantity : 1 .. MaxQuantity] \cup {NoLine}]
    /\ inserted \in 0 .. MaxLines /\ bundles \subseteq Bundle /\ orderable \subseteq Product
    /\ tab \in [Worker -> [op : {"none", "insert", "add", "set"}, id : {0} \cup LineId,
                           key : Key \cup {None}, quantity : 0 .. MaxQuantity]]
    /\ wanted \in [Key -> 0 .. MaxQuantity] /\ tabsRaced \in BOOLEAN

\* As long as the shopper's requests do not overlap and no bundle is deleted,
\* the cart has at most one line per product and bundle, with the quantity
\* that the adds, changes and removals since came to.  Overlapping adds insert
\* two lines or lose one, and a deleted bundle leaves two lines of a product.
CartIsExact ==
    ~tabsRaced /\ bundles = Bundle =>
        \A k \in Key : /\ \A i, j \in LinesFor(k) : i = j
                       /\ wanted[k] = 0 <=> LinesFor(k) = {}
                       /\ \A i \in LinesFor(k) : line[i].quantity = wanted[k]
=============================================================================
