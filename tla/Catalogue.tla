----------------------------- MODULE Catalogue -----------------------------
(***************************************************************************)
(* The tree of categories (apps/catalog).  Staff requests run without a    *)
(* transaction: one loads a category, checks a new parent by walking its   *)
(* ancestors, a query for each, and then saves every column it loaded.     *)
(***************************************************************************)
EXTENDS Workers

CONSTANTS
    Category,
    MaxTreeEdits     \* bound: categories created, edited and deleted

ASSUME CatalogueAssumption ==
    None \notin Category /\ MaxTreeEdits \in Nat

VARIABLES
    node,        \* the Category rows: [here, parent]
    curator,     \* what each request is about to do
    treeRaced,   \* (history) whether two requests on the tree ever overlapped
    treeEdits

catalogueVars == <<node, curator, treeRaced, treeEdits>>
-----------------------------------------------------------------------------
NoCategory == [here |-> FALSE, parent |-> None]
NoTreeEdit == [pc |-> "idle", id |-> None, copy |-> NoCategory, at |-> None, visited |-> {}]

CatalogueInit == /\ node = [c \in Category |-> NoCategory]
                 /\ curator = [w \in Worker |-> NoTreeEdit]
                 /\ treeRaced = FALSE /\ treeEdits = 0

Present == {c \in Category : node[c].here}

\* A request begins: another may be under way.
TakeUp(w, edit) ==
    /\ curator[w] = NoTreeEdit /\ treeEdits < MaxTreeEdits
    /\ curator' = [curator EXCEPT ![w] = edit]
    /\ treeEdits' = treeEdits + 1
    /\ treeRaced' = (treeRaced \/ \E v \in Worker : curator[v] # NoTreeEdit)
    /\ UNCHANGED node

\* A new category cannot close a cycle: its parent is not walked.
StartCategory(w) ==
    \E c \in Category \ Present, p \in Present \cup {None} :
        TakeUp(w, [NoTreeEdit EXCEPT !.pc = "create", !.id = c,
                                     !.copy = [here |-> TRUE, parent |-> p]])

\* A change that leaves the parent out: the row is loaded and saved as it was.
LoadCategory(w) ==
    \E c \in Present :
        TakeUp(w, [NoTreeEdit EXCEPT !.pc = "save", !.id = c, !.copy = node[c]])

\* A move to a parent, whose ancestors are to be walked, or to the top.
MoveCategory(w) ==
    \E c \in Present, p \in Present \cup {None} :
        TakeUp(w, [pc |-> IF p = None THEN "save" ELSE "walk", id |-> c,
                   copy |-> [node[c] EXCEPT !.parent = p], at |-> p, visited |-> {}])

\* Mutant of WalkOn: only the parent itself is compared.
WalkOnce(w) ==
    LET e == curator[w] IN
    /\ e.pc = "walk"
    /\ curator' = [curator EXCEPT ![w] = IF e.at = e.id THEN NoTreeEdit ELSE [e EXCEPT !.pc = "save"]]
    /\ UNCHANGED <<node, treeRaced, treeEdits>>

\* validate: one ancestor is compared, and the parent of its row read; a row
\* that is gone has none, and one met before ends the walk.
WalkOn(w) ==
    LET e == curator[w] IN
    /\ e.pc = "walk"
    /\ curator' = [curator EXCEPT ![w] =
          IF e.at = e.id THEN NoTreeEdit
          ELSE IF e.at \in e.visited \cup {None} THEN [e EXCEPT !.pc = "save"]
          ELSE [e EXCEPT !.at = node[e.at].parent, !.visited = @ \cup {e.at}]]
    /\ UNCHANGED <<node, treeRaced, treeEdits>>

\* create_category and update_category: every column is written, and a row that
\* was deleted meanwhile is inserted again.  A parent that is gone is refused,
\* and so is the category itself (category_no_self_parent).
SaveCategory(w) ==
    LET e == curator[w] IN
    /\ e.pc \in {"create", "save"}
    /\ node' = IF /\ e.copy.parent \in Present \cup {None} /\ e.copy.parent # e.id
                  /\ e.pc = "create" => e.id \notin Present
               THEN [node EXCEPT ![e.id] = e.copy] ELSE node
    /\ curator' = [curator EXCEPT ![w] = NoTreeEdit]
    /\ UNCHANGED <<treeRaced, treeEdits>>

\* The categories below c, to which its deletion cascades: those in every set
\* that has the children of c and of its own members.
Below(c) ==
    {d \in Present : \A S \in SUBSET Category :
        (\A e \in Category : node[e].parent \in S \cup {c} => e \in S) => d \in S}

\* The collector deletes the subtree in one transaction.
DeleteSubtree ==
    \E c \in Present :
        /\ treeEdits < MaxTreeEdits /\ treeEdits' = treeEdits + 1
        /\ node' = [d \in Category |-> IF d \in Below(c) \cup {c} THEN NoCategory ELSE node[d]]
        /\ treeRaced' = (treeRaced \/ \E v \in Worker : curator[v] # NoTreeEdit)
        /\ UNCHANGED curator

CatalogueNext ==
    \/ \E w \in Worker : \/ StartCategory(w) \/ LoadCategory(w) \/ MoveCategory(w)
                          \/ WalkOn(w) \/ SaveCategory(w)
    \/ DeleteSubtree

CatalogueSpec == CatalogueInit /\ [][CatalogueNext]_catalogueVars
-----------------------------------------------------------------------------
\* The types of the variables.
CatalogueTypeOK ==
    LET Shape == [here : BOOLEAN, parent : Category \cup {None}] IN
    /\ node \in [Category -> Shape] /\ treeRaced \in BOOLEAN /\ treeEdits \in 0 .. MaxTreeEdits
    /\ curator \in [Worker -> [pc : {"idle", "create", "walk", "save"}, id : Category \cup {None},
                             copy : Shape, at : Category \cup {None}, visited : SUBSET Category]]

\* As long as no two requests on the tree overlap, it is a forest: whatever is
\* created, moved and deleted, a category's ancestors are all there and it is
\* not one of them.  (A rename that overlaps a move puts the old parent back,
\* and two moves can check against each other's old tree: either way a cycle.)
TreeIsForest ==
    ~treeRaced => \A c \in Present : /\ c \notin Below(c)
                                     /\ node[c].parent \in Present \cup {None}
=============================================================================
