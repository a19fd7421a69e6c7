----------------------------- MODULE FiguresProofs ----------------------------
(***************************************************************************)
(* What customers and staff are shown, for every catalogue, every set of   *)
(* workers, every table and every bound: the tree of categories, images,   *)
(* facets, published content, prices, and the figures of reports.          *)
(***************************************************************************)
EXTENDS Catalogue, Images, Facets, Publishing, Pricing, Reports, Integers, WellFoundedInduction,
        TLAPS

(***************************************************************************)
(* Categories.                                                             *)
(***************************************************************************)
CategoryRow == [here : BOOLEAN, parent : Category \cup {None}]
CuratorRecord == [pc : {"idle", "create", "walk", "save"}, id : Category \cup {None},
                  copy : CategoryRow, at : Category \cup {None}, visited : SUBSET Category]

\* S has the children of c and of its own members.
Closed(S, c) == \A e \in Category : node[e].parent \in S \cup {c} => e \in S

\* V has the parents of its members.
Rooted(V) == \A e \in V : node[e].parent \in V \cup {None}

\* What a request knows of the tree as long as it is alone on it: the ancestors
\* it has met are not the category it moves, and what it may save closes no cycle.
CuratorKnows(e) ==
    /\ e.pc = "create" => /\ e.id \in Category \ Present
                          /\ e.copy.here /\ e.copy.parent \in Present \cup {None}
    /\ e.pc \in {"walk", "save"} => /\ e.id \in Present /\ e.copy.here
                                    /\ e.copy.parent \in Present \cup {None}
    /\ e.pc = "walk" => /\ e.id \notin e.visited /\ e.copy.parent \in e.visited \cup {e.at}
                        /\ e.copy.parent # None
                        /\ \A v \in e.visited : node[v].parent \in e.visited \cup {e.at}
    /\ e.pc = "save" => \/ e.copy.parent \in {None, node[e.id].parent}
                        \/ \E V \in SUBSET Category :
                              e.id \notin V /\ e.copy.parent \in V /\ Rooted(V)

TreeStands ==
    /\ \A v, w \in Worker : curator[v] # NoTreeEdit /\ curator[w] # NoTreeEdit => v = w
    /\ \A c \in Category : node[c].parent \in Present \cup {None}
    /\ \A c \in Category \ Present : node[c].parent = None
    /\ \A c \in Category : \E S \in SUBSET Category : Closed(S, c) /\ c \notin S
    /\ \A w \in Worker : CuratorKnows(curator[w])

CatalogueInv == CatalogueTypeOK /\ (~treeRaced => TreeStands)
-----------------------------------------------------------------------------
\* The types of the variables, by their records.
LEMMA CatalogueShapes ==
    CatalogueTypeOK <=>
        /\ node \in [Category -> CategoryRow] /\ treeRaced \in BOOLEAN
        /\ treeEdits \in 0 .. MaxTreeEdits /\ curator \in [Worker -> CuratorRecord]
  BY Zenon DEF CatalogueTypeOK, CategoryRow, CuratorRecord

\* A request at rest.
LEMMA IdleCurator ==
    /\ NoCategory \in CategoryRow /\ NoCategory.parent = None /\ ~NoCategory.here
    /\ NoTreeEdit \in CuratorRecord /\ NoTreeEdit.pc = "idle" /\ CuratorKnows(NoTreeEdit)
    /\ MaxTreeEdits \in Nat /\ None \notin Category
<1>1. MaxTreeEdits \in Nat /\ None \notin Category
  BY CatalogueAssumption
<1>2. NoCategory \in CategoryRow /\ NoCategory.parent = None /\ ~NoCategory.here
  BY DEF NoCategory, CategoryRow
<1>3. PICK none \in SUBSET Category : none = {}
  OBVIOUS
<1>4. NoTreeEdit \in CuratorRecord /\ NoTreeEdit.pc = "idle"
  BY <1>2, <1>3 DEF NoTreeEdit, CuratorRecord
<1> QED
  BY <1>1, <1>2, <1>4 DEF CuratorKnows

\* The tree starts empty, and no request has a copy of it.
LEMMA CatalogueStart == CatalogueInit => CatalogueInv
<1> SUFFICES ASSUME CatalogueInit PROVE CatalogueInv
  OBVIOUS
<1>1. /\ node = [c \in Category |-> NoCategory] /\ curator = [w \in Worker |-> NoTreeEdit]
      /\ treeRaced = FALSE /\ treeEdits = 0
  BY DEF CatalogueInit
<1>2. treeEdits \in 0 .. MaxTreeEdits
  BY <1>1, IdleCurator
<1>3. CatalogueTypeOK
  BY <1>1, <1>2, IdleCurator, CatalogueShapes
<1>4. PICK none \in SUBSET Category : none = {}
  OBVIOUS
<1>5. \A c \in Category : Closed(none, c) /\ c \notin none
  BY <1>1, <1>4, IdleCurator DEF Closed
<1>6. TreeStands
  BY <1>1, <1>5, IdleCurator DEF TreeStands
<1> QED
  BY <1>3, <1>6 DEF CatalogueInv

\* The invariant says of the tree what is asked of it.
LEMMA ForestFollows == CatalogueInv => TreeIsForest
<1> SUFFICES ASSUME CatalogueInv, ~treeRaced, NEW c \in Present
             PROVE  c \notin Below(c) /\ node[c].parent \in Present \cup {None}
  BY DEF TreeIsForest
<1>1. c \in Category /\ TreeStands
  BY DEF CatalogueInv, Present
<1>2. PICK S \in SUBSET Category : Closed(S, c) /\ c \notin S
  BY <1>1 DEF TreeStands
<1> QED
  BY <1>1, <1>2 DEF TreeStands, Below, Closed

\* A request takes the tree up, alone or not.
LEMMA EditTaken ==
    ASSUME NEW w \in Worker, NEW e \in CuratorRecord, CatalogueInv, TakeUp(w, e),
           ~treeRaced => CuratorKnows(e)
    PROVE  CatalogueInv'
<1>1. /\ curator[w] = NoTreeEdit /\ treeEdits < MaxTreeEdits /\ node' = node
      /\ curator' = [curator EXCEPT ![w] = e] /\ treeEdits' = treeEdits + 1
      /\ treeRaced' = (treeRaced \/ \E v \in Worker : curator[v] # NoTreeEdit)
  BY DEF TakeUp
<1>2. treeRaced' \in BOOLEAN
  BY <1>1, Zenon
<1>3. /\ node \in [Category -> CategoryRow] /\ curator \in [Worker -> CuratorRecord]
      /\ treeEdits \in 0 .. MaxTreeEdits
  BY CatalogueShapes DEF CatalogueInv
<1>4. treeEdits' \in 0 .. MaxTreeEdits
  BY <1>1, <1>3, IdleCurator
<1>5. /\ curator' \in [Worker -> CuratorRecord] /\ curator'[w] = e
      /\ \A v \in Worker \ {w} : curator'[v] = curator[v]
  BY <1>1, <1>3
<1>6. CatalogueTypeOK'
  BY <1>1, <1>2, <1>3, <1>4, <1>5 DEF CatalogueTypeOK, CategoryRow, CuratorRecord
<1>7. ASSUME ~treeRaced' PROVE TreeStands'
  <2>1. TreeStands /\ CuratorKnows(e) /\ \A v \in Worker : curator[v] = NoTreeEdit
    BY <1>1, <1>7 DEF CatalogueInv
  <2>2. \A v \in Worker : CuratorKnows(curator'[v])
    BY <1>5, <2>1, IdleCurator
  <2>3. \A v \in Worker : CuratorKnows(curator[v])'
    BY <1>1, <2>2 DEF CuratorKnows, Present, Rooted
  <2> QED
    BY <1>1, <1>5, <2>1, <2>3 DEF TreeStands, Present, Closed
<1> QED
  BY <1>6, <1>7 DEF CatalogueInv

\* A request begins: to create, to edit, to move.
LEMMA EditBegun ==
    ASSUME NEW w \in Worker, CatalogueInv, StartCategory(w) \/ LoadCategory(w) \/ MoveCategory(w)
    PROVE  CatalogueInv'
<1>0. /\ node \in [Category -> CategoryRow] /\ \A c \in Present : c \in Category /\ node[c].here
      /\ w \in Worker /\ None \notin Category
  BY IdleCurator, CatalogueShapes DEF CatalogueInv, Present
<1>n. PICK none \in SUBSET Category : none = {}
  OBVIOUS
<1>1. CASE StartCategory(w)
  <2>1. PICK c \in Category \ Present, p \in Present \cup {None} :
            TakeUp(w, [NoTreeEdit EXCEPT !.pc = "create", !.id = c,
                                         !.copy = [here |-> TRUE, parent |-> p]])
    BY <1>1 DEF StartCategory
  <2>2. PICK r \in CategoryRow : r = [here |-> TRUE, parent |-> p]
    BY <1>0 DEF CategoryRow
  <2>3. [NoTreeEdit EXCEPT !.pc = "create", !.id = c, !.copy = r] \in CuratorRecord
    BY IdleCurator DEF CuratorRecord
  <2>4. PICK e \in CuratorRecord : e = [NoTreeEdit EXCEPT !.pc = "create", !.id = c, !.copy = r]
    BY <2>3
  <2>5. e.pc = "create" /\ e.id = c /\ e.copy = r /\ r.here /\ r.parent = p
    BY <2>2, <2>4 DEF NoTreeEdit
  <2>6. CuratorKnows(e)
    BY <2>5 DEF CuratorKnows
  <2> QED
    BY <1>0, <2>1, <2>2, <2>4, <2>6, EditTaken
<1>2. CASE LoadCategory(w)
  <2>1. PICK c \in Present : TakeUp(w, [NoTreeEdit EXCEPT !.pc = "save", !.id = c, !.copy = node[c]])
    BY <1>2 DEF LoadCategory
  <2>2. PICK r \in CategoryRow : r = node[c]
    BY <1>0
  <2>3. [NoTreeEdit EXCEPT !.pc = "save", !.id = c, !.copy = r] \in CuratorRecord
    BY <1>0, IdleCurator DEF CuratorRecord
  <2>4. PICK e \in CuratorRecord : e = [NoTreeEdit EXCEPT !.pc = "save", !.id = c, !.copy = r]
    BY <2>3
  <2>5. e.pc = "save" /\ e.id = c /\ e.copy = r /\ r.here
    BY <1>0, <2>2, <2>4 DEF NoTreeEdit
  <2>6. ~treeRaced => CuratorKnows(e)
    BY <1>0, <2>2, <2>5 DEF CuratorKnows, CatalogueInv, TreeStands
  <2>7. TakeUp(w, e)
    BY <2>1, <2>2, <2>4
  <2> QED
    BY <1>0, <2>6, <2>7, EditTaken
<1>3. CASE MoveCategory(w)
  <2>1. PICK c \in Present, p \in Present \cup {None} :
            TakeUp(w, [pc |-> IF p = None THEN "save" ELSE "walk", id |-> c,
                       copy |-> [node[c] EXCEPT !.parent = p], at |-> p, visited |-> {}])
    BY <1>3 DEF MoveCategory
  <2>2. [node[c] EXCEPT !.parent = p] \in CategoryRow
    BY <1>0 DEF CategoryRow
  <2>3. PICK r \in CategoryRow : r = [node[c] EXCEPT !.parent = p]
    BY <2>2
  <2>4. r.here /\ r.parent = p
    BY <1>0, <2>3 DEF CategoryRow
  <2>5. PICK e \in CuratorRecord : e = [pc |-> IF p = None THEN "save" ELSE "walk", id |-> c,
                                        copy |-> r, at |-> p, visited |-> none]
    BY <1>0 DEF CuratorRecord
  <2>6. /\ e.pc = (IF p = None THEN "save" ELSE "walk") /\ e.id = c /\ e.copy = r /\ e.at = p
        /\ e.visited = {}
    BY <1>n, <2>5
  <2>7. CuratorKnows(e)
    BY <2>4, <2>6 DEF CuratorKnows
  <2>8. TakeUp(w, e)
    BY <1>n, <2>1, <2>3, <2>5
  <2> QED
    BY <1>0, <2>7, <2>8, EditTaken
<1> QED
  BY <1>1, <1>2, <1>3

\* The walk meets one more ancestor.
LEMMA WalkKeeps ==
    ASSUME NEW w \in Worker, CatalogueInv, WalkOn(w)
    PROVE  CatalogueInv'
<1>0. /\ node \in [Category -> CategoryRow] /\ curator \in [Worker -> CuratorRecord]
      /\ w \in Worker /\ None \notin Category
  BY IdleCurator, CatalogueShapes DEF CatalogueInv
<1>1. PICK e \in CuratorRecord : e = curator[w]
  BY <1>0
<1>2. /\ e.pc = "walk" /\ UNCHANGED <<node, treeRaced, treeEdits>>
      /\ curator' = [curator EXCEPT ![w] =
            IF e.at = e.id THEN NoTreeEdit
            ELSE IF e.at \in e.visited \cup {None} THEN [e EXCEPT !.pc = "save"]
            ELSE [e EXCEPT !.at = node[e.at].parent, !.visited = @ \cup {e.at}]]
  BY <1>1 DEF WalkOn
<1>3. PICK c \in CuratorRecord :
          /\ curator' = [curator EXCEPT ![w] = c]
          /\ \/ c = NoTreeEdit
             \/ /\ e.at \in e.visited \cup {None} /\ c.pc = "save" /\ c.id = e.id
                /\ c.copy = e.copy /\ c.visited = e.visited
             \/ /\ e.at \in Category \ e.visited /\ e.at # e.id /\ c.pc = "walk"
                /\ c.at = node[e.at].parent /\ c.visited = e.visited \cup {e.at}
                /\ c.id = e.id /\ c.copy = e.copy
  <2>1. CASE e.at = e.id
    BY <1>2, <2>1, IdleCurator
  <2>2. CASE e.at # e.id /\ e.at \in e.visited \cup {None}
    <3>1. [e EXCEPT !.pc = "save"] \in CuratorRecord
      BY DEF CuratorRecord
    <3>2. PICK c \in CuratorRecord : c = [e EXCEPT !.pc = "save"]
      BY <3>1
    <3>3. c.pc = "save" /\ c.id = e.id /\ c.copy = e.copy /\ c.visited = e.visited
      BY <3>2 DEF CuratorRecord
    <3> QED
      BY <1>2, <2>2, <3>2, <3>3
  <2>3. CASE e.at # e.id /\ e.at \notin e.visited \cup {None}
    <3>1. e.at \in Category /\ node[e.at].parent \in Category \cup {None}
      BY <1>0, <2>3 DEF CuratorRecord, CategoryRow
    <3>2. PICK V \in SUBSET Category : V = e.visited \cup {e.at}
      BY <3>1 DEF CuratorRecord
    <3>3. [e EXCEPT !.at = node[e.at].parent, !.visited = V] \in CuratorRecord
      BY <3>1 DEF CuratorRecord
    <3>4. PICK c \in CuratorRecord : c = [e EXCEPT !.at = node[e.at].parent, !.visited = V]
      BY <3>3
    <3>5. /\ c.pc = e.pc /\ c.id = e.id /\ c.copy = e.copy /\ c.visited = V
          /\ c.at = node[e.at].parent
      BY <3>4 DEF CuratorRecord
    <3>6. curator' = [curator EXCEPT ![w] = c]
      BY <1>2, <2>3, <3>2, <3>4
    <3> QED
      BY <1>2, <2>3, <3>1, <3>2, <3>5, <3>6
  <2> QED
    BY <2>1, <2>2, <2>3
<1>4. /\ curator' \in [Worker -> CuratorRecord] /\ curator'[w] = c
      /\ \A v \in Worker \ {w} : curator'[v] = curator[v]
  BY <1>0, <1>3
<1>5. CatalogueTypeOK'
  BY <1>2, <1>4 DEF CatalogueInv, CatalogueTypeOK, CategoryRow, CuratorRecord
<1>6. ASSUME ~treeRaced' PROVE TreeStands'
  <2>1. TreeStands /\ CuratorKnows(e) /\ e # NoTreeEdit
    BY <1>0, <1>1, <1>2, <1>6, IdleCurator DEF CatalogueInv, TreeStands
  <2>2. CuratorKnows(c)
    <3>1. CASE c = NoTreeEdit
      BY <3>1, IdleCurator
    <3>2. CASE /\ e.at \in e.visited \cup {None} /\ c.pc = "save" /\ c.id = e.id
               /\ c.copy = e.copy /\ c.visited = e.visited
      <4>1. e.copy.parent \in e.visited /\ e.id \notin e.visited
        BY <1>2, <2>1, <3>2 DEF CuratorKnows
      <4>2. Rooted(e.visited)
        BY <1>2, <2>1, <3>2 DEF CuratorKnows, Rooted
      <4>3. e.visited \in SUBSET Category
        BY DEF CuratorRecord
      <4> QED
        BY <1>2, <2>1, <3>2, <4>1, <4>2, <4>3 DEF CuratorKnows
    <3>3. CASE /\ e.at \in Category \ e.visited /\ e.at # e.id /\ c.pc = "walk"
               /\ c.at = node[e.at].parent /\ c.visited = e.visited \cup {e.at}
               /\ c.id = e.id /\ c.copy = e.copy
      BY <1>2, <2>1, <3>3 DEF CuratorKnows
    <3> QED
      BY <1>3, <3>1, <3>2, <3>3
  <2>3. \A v \in Worker : CuratorKnows(curator'[v])
    BY <1>4, <2>1, <2>2 DEF TreeStands
  <2>4. \A v \in Worker : CuratorKnows(curator[v])'
    BY <1>2, <2>3 DEF CuratorKnows, Present, Rooted
  <2>5. \A u, v \in Worker : curator'[u] # NoTreeEdit /\ curator'[v] # NoTreeEdit => u = v
    BY <1>1, <1>4, <2>1 DEF TreeStands
  <2> QED
    BY <1>2, <2>1, <2>4, <2>5 DEF TreeStands, Present, Closed
<1> QED
  BY <1>5, <1>6 DEF CatalogueInv

\* A row gets a parent whose ancestors, V, it is not one of: the tree stays a
\* forest.
LEMMA GraftKeepsForest ==
    ASSUME NEW c \in Category, NEW p \in Category, NEW V \in SUBSET Category,
           p \in V, c \notin V, Rooted(V), None \notin Category,
           node \in [Category -> CategoryRow],
           node'[c].parent = p, \A d \in Category \ {c} : node'[d].parent = node[d].parent,
           NEW x \in Category, NEW S \in SUBSET Category, Closed(S, x), x \notin S
    PROVE  \E U \in SUBSET Category : Closed(U, x)' /\ x \notin U
<1>1. PICK B \in SUBSET Category :
          B = {d \in Category : \A R \in SUBSET Category : Closed(R, x) => d \in R}
  OBVIOUS
<1>2. PICK T \in SUBSET Category : T = Category \ V
  OBVIOUS
<1>3. /\ x \notin B /\ \A R \in SUBSET Category : Closed(R, x) => B \subseteq R
      /\ \A d \in Category : node[d].parent \in B \cup {x} => d \in B
  BY <1>1 DEF Closed
<1>4. \A d \in Category : node[d].parent \in T => d \in T
  BY <1>2 DEF Rooted
<1>5. CASE x \in V
  <2>1. B \cup T \in SUBSET Category /\ x \notin B \cup T
    BY <1>2, <1>3, <1>5
  <2>2. \A d \in Category : node'[d].parent \in (B \cup T) \cup {x} => d \in B \cup T
    BY <1>2, <1>3, <1>4
  <2>3. Closed(B \cup T, x)'
    BY <2>2 DEF Closed
  <2> QED
    BY <2>1, <2>3
<1>6. CASE x \notin V
  <2>1. Closed(T, x)
    BY <1>2, <1>4, <1>6 DEF Closed
  <2>2. p \notin B \cup {x}
    BY <1>2, <1>3, <1>6, <2>1
  <2>3. \A d \in Category : node'[d].parent \in B \cup {x} => d \in B
    BY <1>3, <2>2
  <2>4. Closed(B, x)'
    BY <2>3 DEF Closed
  <2> QED
    BY <1>3, <2>4
<1> QED
  BY <1>5, <1>6

\* A category is saved, or refused.
LEMMA CategorySaved ==
    ASSUME NEW w \in Worker, CatalogueInv, SaveCategory(w)
    PROVE  CatalogueInv'
<1>0. /\ node \in [Category -> CategoryRow] /\ curator \in [Worker -> CuratorRecord]
      /\ w \in Worker /\ None \notin Category
  BY IdleCurator, CatalogueShapes DEF CatalogueInv
<1>1. PICK e \in CuratorRecord : e = curator[w]
  BY <1>0
<1> DEFINE accepted == /\ e.copy.parent \in Present \cup {None} /\ e.copy.parent # e.id
                       /\ e.pc = "create" => e.id \notin Present
<1>a. /\ e.pc \in {"create", "save"}
      /\ curator' = [curator EXCEPT ![w] = NoTreeEdit] /\ UNCHANGED <<treeRaced, treeEdits>>
  BY <1>1 DEF SaveCategory
<1>b. node' = IF accepted THEN [node EXCEPT ![e.id] = e.copy] ELSE node
  BY <1>1, Zenon DEF SaveCategory
<1>2. /\ e.pc \in {"create", "save"} /\ e # NoTreeEdit
      /\ node' = IF accepted THEN [node EXCEPT ![e.id] = e.copy] ELSE node
      /\ curator' = [curator EXCEPT ![w] = NoTreeEdit] /\ UNCHANGED <<treeRaced, treeEdits>>
  BY <1>a, <1>b, IdleCurator
<1>3. /\ curator' \in [Worker -> CuratorRecord] /\ curator'[w] = NoTreeEdit
      /\ \A v \in Worker \ {w} : curator'[v] = curator[v]
  BY <1>0, <1>2, IdleCurator
<1>4. e.copy \in CategoryRow /\ e.id \in Category \cup {None}
  BY DEF CuratorRecord
<1>5. node' \in [Category -> CategoryRow]
  BY <1>0, <1>2, <1>4
<1>6. CatalogueTypeOK'
  BY <1>2, <1>3, <1>5 DEF CatalogueInv, CatalogueTypeOK, CategoryRow, CuratorRecord
<1>7. ASSUME ~treeRaced' PROVE TreeStands'
  <2>1. TreeStands /\ CuratorKnows(e) /\ \A v \in Worker : curator'[v] = NoTreeEdit
    BY <1>0, <1>1, <1>2, <1>3, <1>7 DEF CatalogueInv, TreeStands
  <2>2. /\ \A u, v \in Worker : curator'[u] # NoTreeEdit /\ curator'[v] # NoTreeEdit => u = v
        /\ \A v \in Worker : CuratorKnows(curator[v])'
    BY <2>1, IdleCurator DEF CuratorKnows
  <2>3. CASE ~accepted
    BY <1>2, <2>1, <2>2, <2>3 DEF TreeStands, Present, Closed
  <2>4. CASE accepted
    <3>1. e.id \in Category /\ e.copy.here /\ e.copy.parent \in Present \cup {None}
      BY <1>2, <2>1 DEF CuratorKnows, Present
    <3>2. node'[e.id] = e.copy /\ \A d \in Category \ {e.id} : node'[d] = node[d]
      BY <1>0, <1>2, <2>4, <3>1
    <3>3. Present' = Present \cup {e.id}
      BY <3>1, <3>2 DEF Present
    <3>4. /\ \A c \in Category : node'[c].parent \in Present' \cup {None}
          /\ \A c \in Category \ Present' : node'[c].parent = None
      BY <2>1, <3>1, <3>2, <3>3 DEF TreeStands
    <3>5. ASSUME NEW x \in Category PROVE \E U \in SUBSET Category : Closed(U, x)' /\ x \notin U
      <4>1. PICK S \in SUBSET Category : Closed(S, x) /\ x \notin S
        BY <2>1 DEF TreeStands
      <4>2. CASE e.pc = "create"
        <5>1. \A d \in Category : node[d].parent # e.id
          BY <1>0, <2>1, <4>2, <3>1 DEF TreeStands, CuratorKnows
        <5>2. CASE x = e.id
          <6>1. PICK none \in SUBSET Category : none = {}
            OBVIOUS
          <6>2. \A d \in Category : node'[d].parent # x
            BY <2>4, <3>2, <5>1, <5>2
          <6>3. Closed(none, x)'
            BY <6>1, <6>2 DEF Closed
          <6> QED
            BY <6>1, <6>3
        <5>3. CASE x # e.id
          <6>1. S \cup {e.id} \in SUBSET Category /\ x \notin S \cup {e.id}
            BY <3>1, <4>1, <5>3
          <6>2. \A d \in Category : node'[d].parent \in (S \cup {e.id}) \cup {x} => d \in S \cup {e.id}
            BY <3>2, <4>1, <5>1 DEF Closed
          <6>3. Closed(S \cup {e.id}, x)'
            BY <6>2 DEF Closed
          <6> QED
            BY <6>1, <6>3
        <5> QED
          BY <5>2, <5>3
      <4>3. CASE e.pc = "save" /\ e.copy.parent \in {None, node[e.id].parent}
        <5>1. \A d \in Category : node'[d].parent \in S \cup {x} => d \in S
          BY <1>0, <3>2, <4>1, <4>3 DEF Closed
        <5>2. Closed(S, x)'
          BY <5>1 DEF Closed
        <5> QED
          BY <4>1, <5>2
      <4>4. CASE e.pc = "save" /\ \E V \in SUBSET Category :
                     e.id \notin V /\ e.copy.parent \in V /\ Rooted(V)
        <5>1. PICK V \in SUBSET Category : e.id \notin V /\ e.copy.parent \in V /\ Rooted(V)
          BY <4>4
        <5>2. PICK p \in Category, c \in Category : p = e.copy.parent /\ c = e.id
          BY <3>1, <5>1
        <5>3. node'[c].parent = p /\ \A d \in Category \ {c} : node'[d].parent = node[d].parent
          BY <3>2, <5>2
        <5> QED
          BY <1>0, <4>1, <5>1, <5>2, <5>3, GraftKeepsForest
      <4> QED
        BY <1>2, <2>1, <4>2, <4>3, <4>4 DEF CuratorKnows
    <3> QED
      BY <2>2, <3>4, <3>5 DEF TreeStands
  <2> QED
    BY <2>3, <2>4
<1> QED
  BY <1>6, <1>7 DEF CatalogueInv

\* A subtree is deleted, all of it.
LEMMA SubtreeDeleted ==
    ASSUME CatalogueInv, DeleteSubtree
    PROVE  CatalogueInv'
<1>0. /\ node \in [Category -> CategoryRow] /\ curator \in [Worker -> CuratorRecord]
      /\ treeEdits \in 0 .. MaxTreeEdits /\ None \notin Category
  BY IdleCurator, CatalogueShapes DEF CatalogueInv
<1>1. PICK c \in Present :
        /\ treeEdits < MaxTreeEdits /\ treeEdits' = treeEdits + 1
        /\ node' = [d \in Category |-> IF d \in Below(c) \cup {c} THEN NoCategory ELSE node[d]]
        /\ treeRaced' = (treeRaced \/ \E v \in Worker : curator[v] # NoTreeEdit)
        /\ UNCHANGED curator
  BY DEF DeleteSubtree
<1>2. treeRaced' \in BOOLEAN
  BY <1>1, Zenon
<1>3. treeEdits' \in 0 .. MaxTreeEdits
  BY <1>0, <1>1, IdleCurator
<1>4. node' \in [Category -> CategoryRow]
  BY <1>0, <1>1, IdleCurator
<1>5. CatalogueTypeOK'
  BY <1>0, <1>1, <1>2, <1>3, <1>4 DEF CatalogueTypeOK, CategoryRow, CuratorRecord
<1>6. ASSUME ~treeRaced' PROVE TreeStands'
  <2>1. TreeStands /\ \A v \in Worker : curator[v] = NoTreeEdit
    BY <1>1, <1>6 DEF CatalogueInv
  <2>2. \A d \in Category : node'[d] = IF d \in Below(c) \cup {c} THEN NoCategory ELSE node[d]
    BY <1>1
  <2>3. \A d \in Category : node[d].parent \in Below(c) \cup {c} => d \in Below(c)
    BY <1>0, <2>1 DEF Below, TreeStands, Present
  <2>4. Present' = Present \ (Below(c) \cup {c})
    BY <2>2, IdleCurator DEF Present
  <2>5. /\ \A d \in Category : node'[d].parent \in Present' \cup {None}
        /\ \A d \in Category \ Present' : node'[d].parent = None
    BY <2>1, <2>2, <2>3, <2>4, IdleCurator DEF TreeStands
  <2>6. ASSUME NEW x \in Category PROVE \E U \in SUBSET Category : Closed(U, x)' /\ x \notin U
    <3>1. PICK S \in SUBSET Category : Closed(S, x) /\ x \notin S
      BY <2>1 DEF TreeStands
    <3>2. \A d \in Category : node'[d].parent \in S \cup {x} => d \in S
      BY <1>0, <2>2, <3>1, IdleCurator DEF Closed
    <3> QED
      BY <3>1, <3>2 DEF Closed
  <2>7. \A v \in Worker : CuratorKnows(curator[v])'
    BY <1>1, <2>1, IdleCurator DEF CuratorKnows
  <2> QED
    BY <1>1, <2>1, <2>5, <2>6, <2>7 DEF TreeStands
<1> QED
  BY <1>5, <1>6 DEF CatalogueInv

\* Every step keeps it.
LEMMA CatalogueStepKeeps == CatalogueInv /\ [CatalogueNext]_catalogueVars => CatalogueInv'
<1> SUFFICES ASSUME CatalogueInv, [CatalogueNext]_catalogueVars PROVE CatalogueInv'
  OBVIOUS
<1>1. CASE UNCHANGED catalogueVars
  BY <1>1 DEF catalogueVars, CatalogueInv, CatalogueTypeOK, TreeStands, CuratorKnows, Present,
              Closed, Rooted
<1> QED
  BY <1>1, EditBegun, WalkKeeps, CategorySaved, SubtreeDeleted DEF CatalogueNext
-----------------------------------------------------------------------------
\* The types of the variables, in every state.
THEOREM CatalogueTypes == CatalogueSpec => []CatalogueTypeOK
<1>1. CatalogueInv => CatalogueTypeOK
  BY DEF CatalogueInv
<1> QED
  BY <1>1, CatalogueStart, CatalogueStepKeeps, PTL DEF CatalogueSpec

\* The categories are a forest as long as requests on the tree do not overlap:
\* the walk up from a new parent has met every ancestor by the time it ends.
THEOREM CategoriesStayAForest == CatalogueSpec => []TreeIsForest
  BY ForestFollows, CatalogueStart, CatalogueStepKeeps, PTL DEF CatalogueSpec

-----------------------------------------------------------------------------
(***************************************************************************)
(* Images, their primary one and their variants.                           *)
(***************************************************************************)
ImageRow == [file : 0 .. MaxFiles, primary : BOOLEAN, sources : 0 .. MaxFiles]

ImageTaskRecord == [pc : {"idle", "loaded", "written", "committed"},
                    op : {"none", "create", "product", "edit", "replace", "variants"},
                    image : Image \cup {None}, row : ImageRow, demote : SUBSET Image]

\* A busy slot has an image and a file for it, and demotes others only for a primary.
WellAimed(t) == /\ t.image \in Image /\ t.row.file # 0
                /\ t.demote # {} => t.row.primary

TasksAimed == \A w \in Slot : imageTask[w] # NoImageTask => WellAimed(imageTask[w])

\* A task whose variants are about to be made, or being made.
VariantsDue(t) == t.pc = "committed" \/ t.op = "variants"

\* As long as nothing was overtaken, what is queued or under way for an image that
\* is stored is for the file it has, and each row read or stored has variants of
\* its own file.
QueueFollows == \A q \in queue : q[1] \in Stored => image[q[1]].file = q[2]
TasksFollow == \A w \in Slot :
    /\ VariantsDue(imageTask[w]) /\ imageTask[w].image \in Stored
       => image[imageTask[w].image].file = imageTask[w].row.file
    /\ imageTask[w].row.sources \in {0, imageTask[w].row.file}
RowsFollow == \A i \in Stored : image[i].sources \in {0, image[i].file}

ImagesInv ==
    /\ ImagesTypeOK /\ TasksAimed
    /\ ~overtaken => QueueFollows /\ TasksFollow /\ RowsFollow
-----------------------------------------------------------------------------
\* The types of the variables, by their records.
LEMMA ImageShapes ==
    ImagesTypeOK <=>
        /\ image \in [Image -> ImageRow] /\ uploads \in 0 .. MaxFiles
        /\ queue \subseteq Image \X (1 .. MaxFiles)
        /\ imageTask \in [Slot -> ImageTaskRecord]
        /\ overtaken \in BOOLEAN /\ losses \in Nat
        /\ \A i, j \in Primary : i = j
  BY Zenon DEF ImagesTypeOK, ImageTaskRecord, ImageRow

\* A row that is not there and an idle slot's record.
LEMMA IdleImageTask ==
    /\ NoImage \in ImageRow /\ NoImage.file = 0 /\ NoImage.sources = 0 /\ NoImage.primary = FALSE
    /\ NoImageTask \in ImageTaskRecord /\ NoImageTask.pc = "idle" /\ NoImageTask.op = "none"
    /\ NoImageTask.image = None /\ NoImageTask.row = NoImage /\ None \notin Image
    /\ MaxFiles \in Nat
  <1>1. 0 \in 0 .. MaxFiles
    BY ImagesAssumption
  <1>2. NoImage \in ImageRow
    BY <1>1 DEF NoImage, ImageRow
  <1> QED
    BY <1>2, ImagesAssumption DEF NoImage, NoImageTask, ImageTaskRecord

\* A task and a row of the fields given.
LEMMA TaskBuilt ==
    ASSUME NEW pc \in {"idle", "loaded", "written", "committed"},
           NEW op \in {"none", "create", "product", "edit", "replace", "variants"},
           NEW i \in Image, NEW r \in ImageRow, NEW d \in SUBSET Image
    PROVE  [pc |-> pc, op |-> op, image |-> i, row |-> r, demote |-> d] \in ImageTaskRecord
  BY DEF ImageTaskRecord

\* The row an action writes is an image row.
LEMMA RowBuilt ==
    ASSUME NEW f \in 0 .. MaxFiles, NEW p \in BOOLEAN, NEW n \in 0 .. MaxFiles
    PROVE  [file |-> f, primary |-> p, sources |-> n] \in ImageRow
  BY DEF ImageRow

\* There are no images at the start.
LEMMA ImagesStart == ImagesInit => ImagesInv
<1> SUFFICES ASSUME ImagesInit PROVE ImagesInv
  OBVIOUS
<1>1. /\ image = [i \in Image |-> NoImage] /\ uploads = 0 /\ queue = {}
      /\ imageTask = [w \in Slot |-> NoImageTask] /\ losses = 0
  BY DEF ImagesInit
<1>2. overtaken \in BOOLEAN
  BY Zenon DEF ImagesInit
<1>3. Stored = {} /\ Primary = {}
  BY <1>1, IdleImageTask DEF Stored, Primary
<1>4. ImagesTypeOK
  BY <1>1, <1>2, <1>3, IdleImageTask, ImageShapes
<1>5. TasksAimed /\ QueueFollows /\ TasksFollow /\ RowsFollow
  BY <1>1, <1>3, IdleImageTask DEF TasksAimed, QueueFollows, TasksFollow, RowsFollow, VariantsDue
<1> QED
  BY <1>4, <1>5 DEF ImagesInv

\* What is queued and what is under way is due.
LEMMA DueIs ==
    ASSUME ImagesInv
    PROVE  /\ \A q \in queue : q[2] \in Due(q[1])
           /\ \A w \in Slot : VariantsDue(imageTask[w]) =>
                 imageTask[w].row.file \in Due(imageTask[w].image)
<1>0. /\ queue \subseteq Image \X (1 .. MaxFiles) /\ imageTask \in [Slot -> ImageTaskRecord]
  BY ImageShapes DEF ImagesInv
<1>1. ASSUME NEW q \in queue PROVE q[2] \in Due(q[1])
  <2>1. q = <<q[1], q[2]>> /\ q[2] \in 1 .. MaxFiles
    BY <1>0
  <2> QED
    BY <2>1 DEF Due
<1>2. ASSUME NEW w \in Slot, VariantsDue(imageTask[w])
      PROVE  imageTask[w].row.file \in Due(imageTask[w].image)
  <2>1. imageTask[w] # NoImageTask
    BY <1>2, IdleImageTask DEF VariantsDue
  <2>2. imageTask[w].row.file \in 1 .. MaxFiles
    BY <1>0, <2>1, IdleImageTask DEF ImagesInv, TasksAimed, WellAimed, ImageTaskRecord, ImageRow
  <2> QED
    BY <1>2, <2>2 DEF Due, VariantsDue
<1> QED
  BY <1>1, <1>2

\* A slot's task becomes c and the queue changes, while the rows stay.
LEMMA ImageTaskMoves ==
    ASSUME ImagesInv, NEW w \in Slot, NEW c \in ImageTaskRecord,
           imageTask' = [imageTask EXCEPT ![w] = c], UNCHANGED <<image, overtaken>>,
           queue' \subseteq Image \X (1 .. MaxFiles), uploads' \in 0 .. MaxFiles, losses' \in Nat,
           c # NoImageTask => WellAimed(c),
           ~overtaken => \A q \in queue' : q[1] \in Stored => image[q[1]].file = q[2],
           ~overtaken => /\ VariantsDue(c) /\ c.image \in Stored => image[c.image].file = c.row.file
                         /\ c.row.sources \in {0, c.row.file}
    PROVE  ImagesInv'
<1>0. imageTask \in [Slot -> ImageTaskRecord]
  BY ImageShapes DEF ImagesInv
<1>1. /\ imageTask' \in [Slot -> ImageTaskRecord] /\ imageTask'[w] = c
      /\ \A v \in Slot \ {w} : imageTask'[v] = imageTask[v]
      /\ Stored' = Stored /\ Primary' = Primary
  BY <1>0 DEF Stored, Primary
<1>2. ImagesTypeOK'
  BY <1>1 DEF ImagesInv, ImagesTypeOK, ImageTaskRecord, ImageRow
<1>3. TasksAimed'
  BY <1>1 DEF TasksAimed, ImagesInv
<1>4. ~overtaken => QueueFollows' /\ TasksFollow' /\ RowsFollow'
  <2>1. ~overtaken => TasksFollow'
    BY <1>1 DEF ImagesInv, TasksFollow
  <2> QED
    BY <1>1, <2>1 DEF ImagesInv, QueueFollows, RowsFollow
<1> QED
  BY <1>2, <1>3, <1>4 DEF ImagesInv

\* The commit: the transaction's demotions are seen, and the row is saved whole.
LEMMA CommitKeeps ==
    ASSUME ImagesInv, NEW w \in Worker, CommitImage(w)
    PROVE  ImagesInv'
<1> DEFINE t == imageTask[w]
           clash == t.row.primary /\ ~(Primary \subseteq t.demote \cup {t.image})
<1>0. /\ image \in [Image -> ImageRow] /\ queue \subseteq Image \X (1 .. MaxFiles)
      /\ imageTask \in [Slot -> ImageTaskRecord] /\ overtaken \in BOOLEAN
      /\ \A i, j \in Primary : i = j
      /\ w \in Slot
  BY ImageShapes DEF ImagesInv, Slot
<1>1. /\ t.pc = "written"
      /\ image' = IF clash THEN image ELSE [Demoted(t.demote) EXCEPT ![t.image] = t.row]
      /\ overtaken' = (overtaken \/ Contended(w, t.image) \/ Due(t.image) \ {t.row.file} # {})
      /\ UNCHANGED <<uploads, queue, losses>>
  BY DEF CommitImage
<1>2. /\ t # NoImageTask /\ t.image \in Image /\ t.row.file # 0 /\ t.row \in ImageRow
      /\ t.demote \subseteq Image
  BY <1>0, <1>1, IdleImageTask DEF ImagesInv, TasksAimed, WellAimed, ImageTaskRecord
<1>3. overtaken' \in BOOLEAN
  BY <1>1, Zenon
<1>4. PICK c \in ImageTaskRecord :
         /\ imageTask' = [imageTask EXCEPT ![w] = c]
         /\ \/ ~clash /\ c = [t EXCEPT !.pc = "committed"]
            \/ c = NoImageTask
  <2>1. [t EXCEPT !.pc = "committed"] \in ImageTaskRecord
    BY <1>0 DEF ImageTaskRecord
  <2> QED
    BY <2>1, IdleImageTask DEF CommitImage, ImageTaskIs
<1>5. /\ imageTask' \in [Slot -> ImageTaskRecord] /\ imageTask'[w] = c
      /\ \A v \in Slot \ {w} : imageTask'[v] = imageTask[v]
  BY <1>0, <1>4
<1>6. c # NoImageTask => /\ ~clash /\ c.image = t.image /\ c.row = t.row /\ c.demote = t.demote
                         /\ c.op = t.op
  BY <1>0, <1>4 DEF ImageTaskRecord
<1>7. TasksAimed'
  <2>1. c # NoImageTask => WellAimed(c)
    BY <1>0, <1>2, <1>6 DEF WellAimed, ImagesInv, TasksAimed
  <2> QED
    BY <1>5, <2>1 DEF TasksAimed, ImagesInv
<1>8. CASE clash
  <2>1. image' = image /\ c = NoImageTask /\ Stored' = Stored /\ Primary' = Primary
    BY <1>1, <1>6, <1>8 DEF Stored, Primary
  <2>2. ImagesTypeOK'
    BY <1>1, <1>3, <1>5, <2>1 DEF ImagesInv, ImagesTypeOK, ImageTaskRecord, ImageRow
  <2>3. ASSUME ~overtaken' PROVE QueueFollows' /\ TasksFollow' /\ RowsFollow'
    <3>1. QueueFollows /\ TasksFollow /\ RowsFollow
      BY <1>1, <2>3 DEF ImagesInv
    <3>2. TasksFollow'
      BY <1>5, <2>1, <3>1, IdleImageTask DEF TasksFollow, VariantsDue
    <3> QED
      BY <1>1, <2>1, <3>1, <3>2 DEF QueueFollows, RowsFollow
  <2> QED
    BY <1>7, <2>2, <2>3 DEF ImagesInv
<1>9. CASE ~clash
  <2>1. /\ image'[t.image] = t.row
        /\ \A j \in Image \ {t.image} :
              image'[j] = IF j \in t.demote THEN [image[j] EXCEPT !.primary = FALSE] ELSE image[j]
    BY <1>1, <1>2, <1>9 DEF Demoted
  <2>2. /\ image' \in [Image -> ImageRow]
        /\ \A j \in Image \ {t.image} :
              /\ image'[j].file = image[j].file /\ image'[j].sources = image[j].sources
              /\ image'[j].primary => image[j].primary /\ j \notin t.demote
    <3>1. \A j \in Image : [image[j] EXCEPT !.primary = FALSE] \in ImageRow
      BY <1>0 DEF ImageRow
    <3>2. Demoted(t.demote) \in [Image -> ImageRow]
      BY <1>0, <3>1 DEF Demoted
    <3>3. image' \in [Image -> ImageRow]
      BY <1>1, <1>2, <1>9, <3>2
    <3> QED
      BY <1>0, <2>1, <3>3 DEF ImageRow
  <2>3. Stored' = Stored \cup {t.image}
    BY <1>2, <2>1, <2>2 DEF Stored
  <2>4. \A j \in Primary' : j = t.image \/ j \in Primary
    BY <2>1, <2>2 DEF Primary, Stored
  <2>5. \A i, j \in Primary' : i = j
    <3>1. CASE t.row.primary
      <4>1. Primary \subseteq t.demote \cup {t.image}
        BY <1>9, <3>1
      <4>2. \A j \in Primary' : j = t.image
        BY <2>2, <2>4, <4>1 DEF Primary, Stored
      <4> QED
        BY <4>2
    <3>2. CASE ~t.row.primary
      <4>1. t.image \notin Primary'
        BY <2>1, <3>2 DEF Primary
      <4> QED
        BY <1>0, <2>4, <4>1
    <3> QED
      BY <3>1, <3>2
  <2>6. ImagesTypeOK'
    BY <1>1, <1>3, <1>5, <2>2, <2>5 DEF ImagesInv, ImagesTypeOK, ImageTaskRecord, ImageRow
  <2>7. ASSUME ~overtaken' PROVE QueueFollows' /\ TasksFollow' /\ RowsFollow'
    <3>1. /\ QueueFollows /\ TasksFollow /\ RowsFollow
          /\ Due(t.image) \subseteq {t.row.file}
      BY <1>1, <2>7 DEF ImagesInv
    <3>2. QueueFollows'
      <4> SUFFICES ASSUME NEW q \in queue', q[1] \in Stored' PROVE image'[q[1]].file = q[2]
        BY DEF QueueFollows
      <4>1. q \in queue /\ q[1] \in Image
        BY <1>0, <1>1
      <4>2. CASE q[1] = t.image
        BY <2>1, <3>1, <4>1, <4>2, DueIs
      <4>3. CASE q[1] # t.image
        BY <2>2, <2>3, <3>1, <4>1, <4>3 DEF QueueFollows
      <4> QED
        BY <4>2, <4>3
    <3>3. TasksFollow'
      <4> SUFFICES ASSUME NEW v \in Slot
                   PROVE  /\ VariantsDue(imageTask'[v]) /\ imageTask'[v].image \in Stored'
                             => image'[imageTask'[v].image].file = imageTask'[v].row.file
                          /\ imageTask'[v].row.sources \in {0, imageTask'[v].row.file}
        BY DEF TasksFollow
      <4>1. CASE v # w
        <5>1. imageTask'[v] = imageTask[v]
          BY <1>5, <4>1
        <5>2. imageTask[v].row.sources \in {0, imageTask[v].row.file}
          BY <3>1 DEF TasksFollow
        <5>3. ASSUME VariantsDue(imageTask[v]), imageTask[v].image \in Stored'
              PROVE  image'[imageTask[v].image].file = imageTask[v].row.file
          <6>1. CASE imageTask[v].image = t.image
            BY <2>1, <3>1, <5>3, <6>1, DueIs
          <6>2. CASE imageTask[v].image # t.image
            BY <2>2, <2>3, <3>1, <5>3, <6>2 DEF TasksFollow, Stored
          <6> QED
            BY <6>1, <6>2
        <5> QED
          BY <5>1, <5>2, <5>3
      <4>2. CASE v = w
        <5>1. t.row.sources \in {0, t.row.file}
          BY <1>0, <3>1 DEF TasksFollow
        <5>2. CASE c = NoImageTask
          BY <1>5, <4>2, <5>2, IdleImageTask DEF VariantsDue
        <5>3. CASE c # NoImageTask
          BY <1>5, <1>6, <2>1, <4>2, <5>1, <5>3
        <5> QED
          BY <5>2, <5>3
      <4> QED
        BY <4>1, <4>2
    <3>4. RowsFollow'
      <4>1. t.row.sources \in {0, t.row.file}
        BY <1>0, <3>1 DEF TasksFollow
      <4> QED
        BY <2>1, <2>2, <2>3, <3>1, <4>1 DEF RowsFollow, Stored
    <3> QED
      BY <3>2, <3>3, <3>4
  <2> QED
    BY <1>7, <2>6, <2>7 DEF ImagesInv
<1> QED
  BY <1>8, <1>9

\* Every step keeps it.
LEMMA ImageStepKeeps ==
    ImagesInv /\ [ImagesNext]_imageVars => ImagesInv'
<1> SUFFICES ASSUME ImagesInv, [ImagesNext]_imageVars PROVE ImagesInv'
  OBVIOUS
<1>0. /\ image \in [Image -> ImageRow] /\ uploads \in 0 .. MaxFiles
      /\ queue \subseteq Image \X (1 .. MaxFiles)
      /\ imageTask \in [Slot -> ImageTaskRecord]
      /\ overtaken \in BOOLEAN /\ losses \in Nat
      /\ \A i, j \in Primary : i = j
      /\ Worker \subseteq Slot /\ Celery \in Slot
  BY ImageShapes DEF ImagesInv, Slot
<1>n. uploads < MaxFiles => uploads + 1 \in 1 .. MaxFiles /\ uploads + 1 \in 0 .. MaxFiles
  BY <1>0, ImagesAssumption
<1>1. ASSUME NEW w \in Worker, StartImage(w) PROVE ImagesInv'
  <2>1. PICK i \in Image \ Stored, first \in BOOLEAN, withProduct \in BOOLEAN :
        /\ imageTask[w] = NoImageTask /\ uploads < MaxFiles /\ uploads' = uploads + 1
        /\ queue' = IF withProduct THEN queue \cup {<<i, uploads + 1>>} ELSE queue
        /\ imageTask' = [imageTask EXCEPT ![w] =
              [pc |-> "written", op |-> IF withProduct THEN "product" ELSE "create",
               image |-> i, demote |-> IF first THEN Primary ELSE {},
               row |-> [file |-> uploads + 1, primary |-> first, sources |-> 0]]]
        /\ UNCHANGED <<image, overtaken, losses>>
    BY <1>1 DEF StartImage, ImageTaskIs, DemoteBefore
  <2>2. PICK d \in SUBSET Image : d = IF first THEN Primary ELSE {}
    BY DEF Primary, Stored
  <2>3. PICK r \in ImageRow : /\ r = [file |-> uploads + 1, primary |-> first, sources |-> 0]
                              /\ r.file # 0 /\ r.sources = 0 /\ r.primary = first
    BY <1>0, <1>n, <2>1, IdleImageTask DEF ImageRow
  <2>4. PICK op \in {"product", "create"} : op = IF withProduct THEN "product" ELSE "create"
    OBVIOUS
  <2>5. PICK c \in ImageTaskRecord :
           /\ c = [pc |-> "written", op |-> op, image |-> i, demote |-> d, row |-> r]
           /\ c.pc = "written" /\ c.op = op /\ c.image = i /\ c.demote = d /\ c.row = r
    BY TaskBuilt
  <2>6. imageTask' = [imageTask EXCEPT ![w] = c]
    BY <2>1, <2>2, <2>3, <2>4, <2>5
  <2>7. WellAimed(c)
    BY <2>2, <2>3, <2>5 DEF WellAimed
  <2>8. queue' \subseteq Image \X (1 .. MaxFiles)
    BY <1>0, <1>n, <2>1
  <2>9. ~overtaken => \A q \in queue' : q[1] \in Stored => image[q[1]].file = q[2]
    BY <2>1 DEF ImagesInv, QueueFollows
  <2>10. ~VariantsDue(c) /\ c.row.sources = 0
    BY <2>3, <2>4, <2>5 DEF VariantsDue
  <2>11. uploads' \in 0 .. MaxFiles /\ losses' \in Nat
    BY <1>0, <1>n, <2>1
  <2> QED
    BY <1>0, <1>1, <2>1, <2>6, <2>7, <2>8, <2>9, <2>10, <2>11, ImageTaskMoves
<1>2. ASSUME NEW w \in Worker, LoadImage(w) PROVE ImagesInv'
  <2>1. PICK i \in Stored :
        /\ imageTask' = [imageTask EXCEPT ![w] =
              [pc |-> "loaded", op |-> "edit", image |-> i, demote |-> {}, row |-> image[i]]]
        /\ UNCHANGED <<image, uploads, queue, overtaken, losses>>
    BY <1>2 DEF LoadImage, ImageTaskIs
  <2>2. PICK r \in ImageRow : r = image[i] /\ r.file # 0 /\ i \in Image
    BY <1>0 DEF Stored
  <2>3. PICK c \in ImageTaskRecord :
           /\ c = [pc |-> "loaded", op |-> "edit", image |-> i, demote |-> {}, row |-> r]
           /\ c.pc = "loaded" /\ c.op = "edit" /\ c.image = i /\ c.demote = {} /\ c.row = r
    <3>1. PICK d \in SUBSET Image : d = {}
      OBVIOUS
    <3> QED
      BY <2>2, <3>1, TaskBuilt
  <2>4. WellAimed(c) /\ ~VariantsDue(c)
    BY <2>2, <2>3 DEF WellAimed, VariantsDue
  <2>5. ~overtaken => /\ c.row.sources \in {0, c.row.file}
                      /\ \A q \in queue' : q[1] \in Stored => image[q[1]].file = q[2]
    BY <2>1, <2>2, <2>3 DEF ImagesInv, QueueFollows, RowsFollow
  <2> QED
    BY <1>0, <1>2, <2>1, <2>2, <2>3, <2>4, <2>5, ImageTaskMoves
<1>3. ASSUME NEW w \in Worker, EditImage(w) PROVE ImagesInv'
  <2> DEFINE t == imageTask[w]
  <2>1. PICK first \in BOOLEAN, replace \in BOOLEAN :
        /\ t.pc = "loaded" /\ t.op = "edit" /\ (replace => uploads < MaxFiles)
        /\ uploads' = IF replace THEN uploads + 1 ELSE uploads
        /\ imageTask' = [imageTask EXCEPT ![w] = [t EXCEPT !.pc = "written",
                  !.op = IF replace THEN "replace" ELSE "edit",
                  !.demote = IF first THEN Primary \ {t.image} ELSE {},
                  !.row = [file |-> IF replace THEN uploads + 1 ELSE t.row.file,
                           primary |-> first \/ t.row.primary,
                           sources |-> IF replace THEN 0 ELSE t.row.sources]]]
        /\ UNCHANGED <<image, queue, overtaken, losses>>
    BY <1>3 DEF EditImage, ImageTaskIs, DemoteBefore
  <2>2. /\ t \in ImageTaskRecord /\ t.row \in ImageRow /\ t.image \in Image /\ t.row.file # 0
        /\ t.row.file \in 0 .. MaxFiles /\ t.row.sources \in 0 .. MaxFiles /\ t.row.primary \in BOOLEAN
        /\ ~overtaken => t.row.sources \in {0, t.row.file}
    BY <1>0, <1>3, <2>1, IdleImageTask
    DEF ImageTaskRecord, ImageRow, ImagesInv, TasksAimed, WellAimed, TasksFollow
  <2>3. PICK d \in SUBSET Image : d = IF first THEN Primary \ {t.image} ELSE {}
    BY DEF Primary, Stored
  <2>4. PICK p \in BOOLEAN : p = (first \/ t.row.primary)
    BY <2>2, Zenon
  <2>5. PICK f \in 1 .. MaxFiles, s \in 0 .. MaxFiles :
          /\ f = (IF replace THEN uploads + 1 ELSE t.row.file)
          /\ s = (IF replace THEN 0 ELSE t.row.sources)
          /\ ~overtaken => s \in {0, f}
    BY <1>0, <1>n, <2>1, <2>2, IdleImageTask
  <2>6. PICK r \in ImageRow : /\ r = [file |-> f, primary |-> p, sources |-> s]
                              /\ r.file = f /\ r.primary = p /\ r.sources = s
    <3>1. f \in 0 .. MaxFiles
      BY <2>5
    <3> QED
      BY <3>1, RowBuilt
  <2>7. PICK op \in {"replace", "edit"} : op = IF replace THEN "replace" ELSE "edit"
    OBVIOUS
  <2>8. imageTask' = [imageTask EXCEPT ![w] = [t EXCEPT !.pc = "written", !.op = op,
                                                        !.demote = d, !.row = r]]
    BY <2>1, <2>3, <2>4, <2>5, <2>6, <2>7
  <2>9. PICK c \in ImageTaskRecord :
           /\ c = [t EXCEPT !.pc = "written", !.op = op, !.demote = d, !.row = r]
           /\ c.pc = "written" /\ c.op = op /\ c.image = t.image /\ c.demote = d /\ c.row = r
    <3>1. PICK c \in ImageTaskRecord :
             c = [t EXCEPT !.pc = "written", !.op = op, !.demote = d, !.row = r]
      BY <2>2 DEF ImageTaskRecord
    <3> QED
      BY <2>2, <3>1 DEF ImageTaskRecord
  <2>10. imageTask' = [imageTask EXCEPT ![w] = c]
    BY <2>8, <2>9
  <2>11. WellAimed(c) /\ ~VariantsDue(c)
    BY <2>2, <2>3, <2>4, <2>5, <2>6, <2>7, <2>9 DEF WellAimed, VariantsDue
  <2>12. ~overtaken => /\ c.row.sources \in {0, c.row.file}
                       /\ \A q \in queue' : q[1] \in Stored => image[q[1]].file = q[2]
    BY <2>1, <2>5, <2>6, <2>9 DEF ImagesInv, QueueFollows
  <2>13. uploads' \in 0 .. MaxFiles /\ losses' \in Nat /\ queue' \subseteq Image \X (1 .. MaxFiles)
    BY <1>0, <1>n, <2>1
  <2>14. w \in Slot /\ UNCHANGED <<image, overtaken>>
    BY <1>0, <1>3, <2>1
  <2> QED
    BY <2>10, <2>11, <2>12, <2>13, <2>14, ImageTaskMoves
<1>4. ASSUME NEW w \in Worker, Enqueue(w) PROVE ImagesInv'
  <2>1. /\ imageTask[w].pc = "committed" /\ imageTask' = [imageTask EXCEPT ![w] = NoImageTask]
        /\ queue' = queue \cup {<<imageTask[w].image, imageTask[w].row.file>>}
        /\ UNCHANGED <<image, uploads, overtaken, losses>>
    BY <1>4 DEF Enqueue, ImageTaskIs
  <2>2. imageTask[w].image \in Image /\ imageTask[w].row.file \in 1 .. MaxFiles
    BY <1>0, <1>4, <2>1, IdleImageTask
    DEF ImagesInv, TasksAimed, WellAimed, ImageTaskRecord, ImageRow
  <2>3. ~overtaken => \A q \in queue' : q[1] \in Stored => image[q[1]].file = q[2]
    BY <1>0, <1>4, <2>1 DEF ImagesInv, QueueFollows, TasksFollow, VariantsDue
  <2>4. ~VariantsDue(NoImageTask) /\ NoImageTask.row.sources = 0
    BY IdleImageTask DEF VariantsDue
  <2>5. queue' \subseteq Image \X (1 .. MaxFiles)
    BY <1>0, <2>1, <2>2
  <2> QED
    BY <1>0, <1>4, <2>1, <2>3, <2>4, <2>5, IdleImageTask, ImageTaskMoves
<1>5. ASSUME NEW w \in Slot, ImageCrash(w) PROVE ImagesInv'
  <2>1. /\ imageTask' = [imageTask EXCEPT ![w] = NoImageTask] /\ losses' = losses + 1
        /\ UNCHANGED <<image, uploads, queue, overtaken>>
    BY <1>5 DEF ImageCrash, ImageTaskIs, Lose
  <2>2. ~overtaken => \A q \in queue' : q[1] \in Stored => image[q[1]].file = q[2]
    BY <2>1 DEF ImagesInv, QueueFollows
  <2>3. ~VariantsDue(NoImageTask) /\ NoImageTask.row.sources = 0
    BY IdleImageTask DEF VariantsDue
  <2>4. losses' \in Nat
    BY <1>0, <2>1
  <2> QED
    BY <1>0, <1>5, <2>1, <2>2, <2>3, <2>4, IdleImageTask, ImageTaskMoves
<1>6. CASE TakeVariantTask
  <2>1. PICK q \in queue :
        /\ queue' = queue \ {q}
        /\ \/ /\ q[1] \in Stored
              /\ imageTask' = [imageTask EXCEPT ![Celery] =
                    [pc |-> "loaded", op |-> "variants", image |-> q[1],
                     row |-> [NoImage EXCEPT !.file = q[2]], demote |-> {}]]
           \/ imageTask' = imageTask
        /\ losses' \in {losses, losses + 1}
        /\ UNCHANGED <<image, uploads, overtaken>>
    BY <1>6 DEF TakeVariantTask, ImageTaskIs
  <2>2. q[1] \in Image /\ q[2] \in 1 .. MaxFiles
    BY <1>0
  <2>3. /\ ~overtaken => \A p \in queue' : p[1] \in Stored => image[p[1]].file = p[2]
        /\ losses' \in Nat
    BY <1>0, <2>1 DEF ImagesInv, QueueFollows
  <2>4. CASE imageTask' = imageTask
    <3>1. imageTask' = [imageTask EXCEPT ![Celery] = imageTask[Celery]]
      BY <1>0, <2>4
    <3>2. PICK c \in ImageTaskRecord : c = imageTask[Celery]
      BY <1>0
    <3>3. /\ c # NoImageTask => WellAimed(c)
          /\ ~overtaken => /\ VariantsDue(c) /\ c.image \in Stored => image[c.image].file = c.row.file
                           /\ c.row.sources \in {0, c.row.file}
      BY <1>0, <3>2 DEF ImagesInv, TasksAimed, TasksFollow
    <3>4. imageTask' = [imageTask EXCEPT ![Celery] = c]
      BY <3>1, <3>2
    <3> QED
      BY <1>0, <2>1, <2>3, <3>3, <3>4, ImageTaskMoves
  <2>5. CASE imageTask' # imageTask
    <3>1. PICK r \in ImageRow : /\ r = [NoImage EXCEPT !.file = q[2]]
                                /\ r.file = q[2] /\ r.sources = 0
      <4>1. q[2] \in 0 .. MaxFiles
        BY <2>2
      <4>2. PICK r \in ImageRow : r = [NoImage EXCEPT !.file = q[2]]
        BY <4>1, IdleImageTask DEF ImageRow
      <4> QED
        BY <4>2, IdleImageTask DEF ImageRow
    <3>2. PICK c \in ImageTaskRecord :
             /\ c = [pc |-> "loaded", op |-> "variants", image |-> q[1], row |-> r, demote |-> {}]
             /\ c.image = q[1] /\ c.row = r /\ c.demote = {}
      <4>1. PICK d \in SUBSET Image : d = {}
        OBVIOUS
      <4> QED
        BY <2>2, <4>1, TaskBuilt
    <3>3. imageTask' = [imageTask EXCEPT ![Celery] = c]
      BY <2>1, <2>5, <3>1, <3>2
    <3>4. WellAimed(c)
      <4>1. q[2] # 0
        BY <2>2
      <4> QED
        BY <2>2, <3>1, <3>2, <4>1 DEF WellAimed
    <3>5. ~overtaken => image[c.image].file = c.row.file
      BY <2>1, <2>5, <3>1, <3>2 DEF ImagesInv, QueueFollows
    <3> QED
      BY <1>0, <2>1, <2>3, <3>1, <3>2, <3>3, <3>4, <3>5, ImageTaskMoves
  <2> QED
    BY <2>4, <2>5
<1>7. ASSUME NEW w \in Worker, CommitImage(w) PROVE ImagesInv'
  BY <1>7, CommitKeeps
<1>8. CASE DeleteImage
  <2>1. PICK i \in Stored : /\ image' = [image EXCEPT ![i] = NoImage]
                            /\ overtaken' = (overtaken \/ Contended(None, i))
                            /\ UNCHANGED <<uploads, queue, imageTask, losses>>
    BY <1>8 DEF DeleteImage
  <2>2. overtaken' \in BOOLEAN
    BY <2>1, Zenon
  <2>3. /\ image' \in [Image -> ImageRow] /\ Stored' = Stored \ {i} /\ Primary' \subseteq Primary
        /\ \A j \in Stored \ {i} : image'[j] = image[j]
    BY <1>0, <2>1, IdleImageTask DEF Stored, Primary
  <2>4. ImagesTypeOK'
    BY <1>0, <2>1, <2>2, <2>3 DEF ImagesInv, ImagesTypeOK, ImageRow
  <2>5. TasksAimed'
    BY <2>1 DEF TasksAimed, ImagesInv
  <2>6. ASSUME ~overtaken' PROVE QueueFollows' /\ TasksFollow' /\ RowsFollow'
    <3>1. QueueFollows /\ TasksFollow /\ RowsFollow
      BY <2>1, <2>6 DEF ImagesInv
    <3>2. TasksFollow'
      BY <2>1, <2>3, <3>1 DEF TasksFollow
    <3> QED
      BY <2>1, <2>3, <3>1, <3>2 DEF QueueFollows, RowsFollow
  <2> QED
    BY <2>4, <2>5, <2>6 DEF ImagesInv
<1>9. CASE SaveVariants
  <2> DEFINE t == imageTask[Celery]
  <2>1. /\ t.op = "variants" /\ imageTask' = [imageTask EXCEPT ![Celery] = NoImageTask]
        /\ image' = IF t.image \in Stored THEN [image EXCEPT ![t.image].sources = t.row.file] ELSE image
        /\ overtaken' = (overtaken \/ Contended(Celery, t.image))
        /\ UNCHANGED <<uploads, queue, losses>>
    BY <1>9 DEF SaveVariants, ImageTaskIs
  <2>2. overtaken' \in BOOLEAN
    BY <2>1, Zenon
  <2>3. t.row.file \in 0 .. MaxFiles
    BY <1>0 DEF ImageTaskRecord, ImageRow
  <2>4. /\ image' \in [Image -> ImageRow]
        /\ \A j \in Image :
              /\ image'[j].file = image[j].file /\ image'[j].primary = image[j].primary
              /\ \/ image'[j].sources = image[j].sources
                 \/ j = t.image /\ j \in Stored /\ image'[j].sources = t.row.file
    <3>1. \A j \in Image : [image[j] EXCEPT !.sources = t.row.file] \in ImageRow
      BY <1>0, <2>3 DEF ImageRow
    <3>2. CASE t.image \notin Stored
      BY <1>0, <2>1, <3>2
    <3>3. CASE t.image \in Stored
      <4>1. image' = [image EXCEPT ![t.image] = [image[t.image] EXCEPT !.sources = t.row.file]]
        BY <2>1, <3>3
      <4>2. t.image \in Image
        BY <3>3 DEF Stored
      <4>3. PICK r \in ImageRow : r = [image[t.image] EXCEPT !.sources = t.row.file]
        BY <3>1, <4>2
      <4>4. /\ r.file = image[t.image].file /\ r.primary = image[t.image].primary
            /\ r.sources = t.row.file
        BY <1>0, <4>2, <4>3 DEF ImageRow
      <4> QED
        BY <1>0, <3>3, <4>1, <4>2, <4>3, <4>4
    <3> QED
      BY <3>2, <3>3
  <2>5. Stored' = Stored /\ Primary' = Primary
    BY <2>4 DEF Stored, Primary
  <2>6. /\ imageTask' \in [Slot -> ImageTaskRecord] /\ imageTask'[Celery] = NoImageTask
        /\ \A v \in Slot \ {Celery} : imageTask'[v] = imageTask[v]
    BY <1>0, <2>1, IdleImageTask
  <2>7. ImagesTypeOK'
    BY <1>0, <2>1, <2>2, <2>4, <2>5, <2>6 DEF ImagesInv, ImagesTypeOK, ImageTaskRecord, ImageRow
  <2>8. TasksAimed'
    BY <2>6 DEF TasksAimed, ImagesInv
  <2>9. ASSUME ~overtaken' PROVE QueueFollows' /\ TasksFollow' /\ RowsFollow'
    <3>1. QueueFollows /\ TasksFollow /\ RowsFollow
      BY <2>1, <2>9 DEF ImagesInv
    <3>2. QueueFollows'
      BY <2>1, <2>4, <2>5, <3>1 DEF QueueFollows, Stored
    <3>3. TasksFollow'
      BY <2>4, <2>5, <2>6, <3>1, IdleImageTask DEF TasksFollow, VariantsDue, Stored
    <3>4. t.image \in Stored => image[t.image].file = t.row.file
      BY <1>0, <2>1, <3>1 DEF TasksFollow, VariantsDue
    <3>5. RowsFollow'
      BY <2>4, <2>5, <3>1, <3>4 DEF RowsFollow, Stored
    <3> QED
      BY <3>2, <3>3, <3>5
  <2> QED
    BY <2>7, <2>8, <2>9 DEF ImagesInv
<1>10. CASE UNCHANGED imageVars
  BY <1>10 DEF imageVars, ImagesInv, ImagesTypeOK, TasksAimed, QueueFollows, TasksFollow,
               RowsFollow, Stored, Primary
<1> QED
  BY <1>1, <1>2, <1>3, <1>4, <1>5, <1>6, <1>7, <1>8, <1>9, <1>10 DEF ImagesNext

\* The step that leaves no primary deletes it, or saves its row whole from an edit
\* that loaded it before it was one.
LEMMA PrimaryStep ==
    ASSUME ImagesInv, [ImagesNext]_imageVars, Primary # {}, Primary' = {}
    PROVE  \/ \E i \in Primary : i \notin Stored'
           \/ \E w \in Worker : /\ imageTask[w].image \in Primary /\ imageTask[w].pc = "written"
                                /\ ~imageTask[w].row.primary
<1>0. /\ image \in [Image -> ImageRow] /\ imageTask \in [Slot -> ImageTaskRecord]
      /\ Worker \subseteq Slot
  BY ImageShapes DEF ImagesInv, Slot
<1>1. CASE UNCHANGED image
  BY <1>1 DEF Primary, Stored
<1>2. CASE DeleteImage
  <2>1. PICK i \in Stored : image' = [image EXCEPT ![i] = NoImage]
    BY <1>2 DEF DeleteImage
  <2>2. \A j \in Primary \ {i} : j \in Primary'
    BY <1>0, <2>1 DEF Primary, Stored
  <2>3. i \notin Stored'
    BY <1>0, <2>1, IdleImageTask DEF Stored
  <2> QED
    BY <2>2, <2>3
<1>3. CASE SaveVariants
  <2>1. \A j \in Image : image'[j].file = image[j].file /\ image'[j].primary = image[j].primary
    <3>1. \/ image' = image
          \/ \E i \in Image : \E f : image' = [image EXCEPT ![i] = [image[i] EXCEPT !.sources = f]]
      BY <1>3 DEF SaveVariants, Stored
    <3> QED
      BY <1>0, <3>1 DEF ImageRow
  <2> QED
    BY <2>1 DEF Primary, Stored
<1>4. ASSUME NEW w \in Worker, CommitImage(w), image' # image
      PROVE  /\ imageTask[w].image \in Primary /\ imageTask[w].pc = "written"
             /\ ~imageTask[w].row.primary
  <2> DEFINE t == imageTask[w]
  <2>1. t.pc = "written" /\ image' = [Demoted(t.demote) EXCEPT ![t.image] = t.row]
    BY <1>4 DEF CommitImage
  <2>2. /\ t.image \in Image /\ t.row.file # 0 /\ (t.demote # {} => t.row.primary)
    BY <1>0, <2>1, IdleImageTask DEF ImagesInv, TasksAimed, WellAimed
  <2>3. image'[t.image] = t.row
    BY <2>1, <2>2 DEF Demoted
  <2>4. ~t.row.primary
    BY <2>2, <2>3 DEF Primary, Stored
  <2>5. \A j \in Image \ {t.image} : image'[j] = image[j]
    BY <2>1, <2>2, <2>4 DEF Demoted
  <2> QED
    BY <2>1, <2>4, <2>5 DEF Primary, Stored
<1>5. \/ UNCHANGED image \/ DeleteImage \/ SaveVariants \/ \E w \in Worker : CommitImage(w)
  BY DEF ImagesNext, imageVars, StartImage, LoadImage, EditImage, Enqueue, ImageCrash,
         TakeVariantTask, DemoteBefore
<1> QED
  BY <1>1, <1>2, <1>3, <1>4, <1>5

\* The types, and at most one image of the product is primary, through commits that
\* overlap (unique_primary_image_per_product and the demotions of each transaction).
THEOREM ImageTypes == ImagesSpec => []ImagesTypeOK
<1>1. ImagesInv => ImagesTypeOK
  BY DEF ImagesInv
<1> QED
  BY ImagesStart, ImageStepKeeps, <1>1, PTL DEF ImagesSpec

\* VariantsFollow: the variants shown are of the file the image has, unless the row
\* was overtaken (generate_product_image_variants against update_image).
THEOREM VariantsAreOfTheFile == ImagesSpec => []VariantsFollow
<1>1. ImagesInv => VariantsFollow
  BY DEF ImagesInv, VariantsFollow, RowsFollow
<1> QED
  BY ImagesStart, ImageStepKeeps, <1>1, PTL DEF ImagesSpec

\* PrimaryKept: a product with a primary image keeps one until that is deleted, or
\* saved whole by an edit that loaded it before it was the primary.
THEOREM PrimaryStays == ImagesSpec => PrimaryKept
<1>1. ImagesInv /\ [ImagesNext]_imageVars => ImagesInv'
  BY ImageStepKeeps
<1>2. ImagesInv /\ [ImagesNext]_imageVars =>
        (Primary # {} /\ Primary' = {} =>
          \/ \E i \in Primary : i \notin Stored'
          \/ \E w \in Worker : /\ imageTask[w].image \in Primary /\ imageTask[w].pc = "written"
                               /\ ~imageTask[w].row.primary)
  BY PrimaryStep
<1> QED
  BY ImagesStart, <1>1, <1>2, PTL DEF ImagesSpec, PrimaryKept

-----------------------------------------------------------------------------
(***************************************************************************)
(* Facets of the product list.                                             *)
(***************************************************************************)
\* The specs that can be stored, and what was answered.
StoredSpecs == {NoValue} \cup {Numeric(n) : n \in Numbers} \cup {Digits(n) : n \in Strings}

FacetsInv ==
    /\ specs \in [Shelved -> StoredSpecs]
    /\ \/ listing.counts = <<>>
       \/ facet.active /\ CountsOf(listing.sort, listing.counts)
    /\ listing.sort # "unasked" /\ facet.active /\ facet.type = "choice" =>
           CountsOf(listing.sort, listing.counts)
    /\ listing.bounds \in {{}, BoundsOf}
-----------------------------------------------------------------------------
\* A set of numbers has a least one; one with a bound has a greatest.
LEMMA LeastIn ==
    ASSUME NEW S \in SUBSET Nat, S # {}
    PROVE  \E x \in S : \A y \in S : x <= y
<1>1. PICK x \in S : \A y \in S : <<y, x>> \notin OpToRel(<, Nat)
  BY NatLessThanWellFounded, WFMin
<1>2. ASSUME NEW y \in S PROVE x <= y
  <2>1. <<y, x>> \in Nat \X Nat /\ x \in Nat /\ y \in Nat
    OBVIOUS
  <2>2. ~(y < x)
    <3> SUFFICES ASSUME y < x PROVE FALSE
      OBVIOUS
    <3>1. PICK p : p = <<y, x>>
      OBVIOUS
    <3>2. p[1] < p[2] /\ p \in Nat \X Nat
      BY <3>1, <2>1
    <3>3. p \in OpToRel(<, Nat)
      BY <3>2 DEF OpToRel
    <3> QED
      BY <3>1, <3>3, <1>1
  <2> QED
    BY <2>1, <2>2
<1> QED
  BY <1>2

\* A set of numbers with a bound has a greatest member.
LEMMA GreatestIn ==
    ASSUME NEW S \in SUBSET Nat, S # {}, NEW u \in Nat, \A x \in S : x <= u
    PROVE  \E x \in S : \A y \in S : x >= y
<1>1. PICK U \in SUBSET Nat : U = {k \in Nat : \A x \in S : x <= k}
  OBVIOUS
<1>2. PICK k \in U : \A j \in U : k <= j
  BY <1>1, LeastIn
<1>3. CASE k \in S
  BY <1>1, <1>3
<1>4. CASE k \notin S
  <2>1. \A x \in S : x <= k /\ x # k
    BY <1>1, <1>4
  <2>2. k > 0
    <3>1. PICK x \in S : x <= k /\ x # k
      BY <2>1
    <3> QED
      BY <3>1
  <2>3. k - 1 \in Nat /\ \A x \in S : x <= k - 1
    BY <2>1, <2>2
  <2>4. k - 1 \in U
    BY <1>1, <2>3
  <2> QED
    BY <1>2, <2>4
<1> QED
  BY <1>3, <1>4

\* What the values of products are.
LEMMA SpecsAre ==
    /\ MaxProduct \in Nat /\ Numbers \subseteq Nat /\ Strings \subseteq Nat
    /\ \A s \in StoredSpecs : /\ s.text \in Nat
                              /\ s # NoValue => s.type \in {"number", "string"}
                              /\ s.type = "number" => s = Numeric(s.text)
                              /\ s.type = "string" => s = Digits(s.text)
    /\ NoValue.type = "none"
<1>1. MaxProduct \in Nat /\ Numbers \subseteq Nat /\ Strings \subseteq Nat
  BY FacetsAssumption
<1> QED
  BY <1>1 DEF StoredSpecs, NoValue, Numeric, Digits

\* Finitely many products, so their values have a bound.
LEMMA TextsBounded ==
    ASSUME specs \in [Shelved -> StoredSpecs]
    PROVE  Texts \in SUBSET Nat /\ \E u \in Nat : \A x \in Texts : x <= u
<1>0. \A p \in Shelved : specs[p].text \in Nat
  BY SpecsAre
<1>1. Texts \in SUBSET Nat
  BY <1>0 DEF Texts, Valued
<1> DEFINE Bound(k, u) == \A p \in Shelved : p <= k => specs[p].text <= u
<1>2. PICK Bad \in SUBSET Nat : Bad = {k \in Nat : ~\E u \in Nat : Bound(k, u)}
  OBVIOUS
<1>3. Bad = {}
  <2> SUFFICES ASSUME Bad # {} PROVE FALSE
    OBVIOUS
  <2>1. PICK k \in Bad : \A j \in Bad : k <= j
    BY LeastIn
  <2>2. CASE k = 0
    <3>1. Bound(0, 0)
      BY SpecsAre DEF Shelved
    <3> QED
      BY <1>2, <2>1, <2>2, <3>1
  <2>3. CASE k # 0
    <3>1. k - 1 \in Nat /\ k - 1 \notin Bad
      BY <2>1, <2>3
    <3>2. PICK u \in Nat : Bound(k - 1, u)
      BY <1>2, <3>1
    <3>3. PICK v \in Nat : u <= v /\ (k \in Shelved => specs[k].text <= v)
      <4>1. CASE k \in Shelved
        <5>1. specs[k].text \in Nat
          BY <1>0, <4>1
        <5>2. CASE specs[k].text <= u
          BY <5>2
        <5>3. CASE ~(specs[k].text <= u)
          BY <5>1, <5>3
        <5> QED
          BY <5>2, <5>3
      <4>2. CASE k \notin Shelved
        BY <4>2
      <4> QED
        BY <4>1, <4>2
    <3>4. ASSUME NEW p \in Shelved, p <= k PROVE specs[p].text <= v
      <4>1. p = k \/ p <= k - 1
        BY <2>1, <3>4, SpecsAre DEF Shelved
      <4>2. CASE p = k
        BY <3>3, <4>2
      <4>3. CASE p <= k - 1
        BY <1>0, <3>2, <3>3, <4>3
      <4> QED
        BY <4>1, <4>2, <4>3
    <3> QED
      BY <1>2, <2>1, <3>4
  <2> QED
    BY <2>2, <2>3
<1>4. PICK u \in Nat : Bound(MaxProduct, u)
  BY <1>2, <1>3, SpecsAre
<1>5. \A p \in Shelved : p <= MaxProduct
  BY SpecsAre DEF Shelved
<1>6. \A x \in Texts : x <= u
  BY <1>4, <1>5 DEF Texts, Valued
<1> QED
  BY <1>1, <1>6

\* The bounds that are shown are those of the values there are.
LEMMA BoundsFind ==
    ASSUME FacetsInv, listing.bounds # {}, \A p \in Valued : specs[p].type = "number"
    PROVE  Between(Min(listing.bounds), Max(listing.bounds)) = Valued
<1>1. /\ specs \in [Shelved -> StoredSpecs] /\ Texts # {}
      /\ listing.bounds = {Min(Texts), Max(Texts)}
  BY DEF FacetsInv, BoundsOf
<1>2. PICK T \in SUBSET Nat : T = Texts /\ \E u \in Nat : \A x \in T : x <= u
  BY <1>1, TextsBounded
<1>3. /\ Min(T) \in T /\ \A x \in T : Min(T) <= x
  BY <1>1, <1>2, LeastIn DEF Min
<1>4. /\ Max(T) \in T /\ \A x \in T : Max(T) >= x
  BY <1>1, <1>2, GreatestIn DEF Max
<1>5. PICK low \in Nat, high \in Nat : low = Min(T) /\ high = Max(T) /\ low <= high
  BY <1>3, <1>4
<1>6. Min({low, high}) = low
  <2>1. low \in {low, high} /\ \A y \in {low, high} : low <= y
    BY <1>5
  <2>2. /\ Min({low, high}) \in {low, high}
        /\ \A y \in {low, high} : Min({low, high}) <= y
    BY <2>1 DEF Min
  <2> QED
    BY <1>5, <2>2
<1>7. Max({low, high}) = high
  <2>1. high \in {low, high} /\ \A y \in {low, high} : high >= y
    BY <1>5
  <2>2. /\ Max({low, high}) \in {low, high}
        /\ \A y \in {low, high} : Max({low, high}) >= y
    BY <2>1 DEF Max
  <2> QED
    BY <1>5, <2>2
<1>8. \A p \in Valued : low <= specs[p].text /\ specs[p].text <= high
  <2> SUFFICES ASSUME NEW p \in Valued PROVE low <= specs[p].text /\ specs[p].text <= high
    OBVIOUS
  <2>1. specs[p].text \in T
    BY <1>2 DEF Texts
  <2> QED
    BY <1>3, <1>4, <1>5, <2>1
<1>9. Between(low, high) = Valued
  BY <1>8 DEF Between
<1> QED
  BY <1>1, <1>2, <1>5, <1>6, <1>7, <1>9

\* A value that no other type has is of the products that choosing it finds.
LEMMA MatchesAre ==
    ASSUME specs \in [Shelved -> StoredSpecs], facet.active, ~Mixed, NEW p \in Valued
    PROVE  Matching(specs[p].text) = {q \in Valued : specs[q] = specs[p]}
<1>1. /\ p \in Shelved /\ specs[p] \in StoredSpecs /\ specs[p] # NoValue
      /\ specs[p].type \in {"number", "string"}
      /\ specs[p] = IF specs[p].type = "number" THEN Numeric(specs[p].text)
                                                ELSE Digits(specs[p].text)
  BY SpecsAre DEF Valued
<1>2. ASSUME NEW q \in Shelved, specs[q] \in {Digits(specs[p].text), Numeric(specs[p].text)}
      PROVE  q \in Valued /\ specs[q] = specs[p]
  <2>1. specs[q].type \in {"number", "string"} /\ specs[q].text = specs[p].text
    BY <1>2 DEF Digits, Numeric
  <2>2. q \in Valued
    BY <2>1, SpecsAre DEF Valued
  <2>3. specs[q].type = specs[p].type
    BY <2>2 DEF Mixed
  <2>4. specs[q] = IF specs[q].type = "number" THEN Numeric(specs[q].text)
                                               ELSE Digits(specs[q].text)
    BY <1>2, <2>1, SpecsAre
  <2> QED
    BY <1>1, <2>1, <2>2, <2>3, <2>4
<1>3. ASSUME NEW q \in Valued, specs[q] = specs[p]
      PROVE  q \in Shelved /\ specs[q] \in {Digits(specs[p].text), Numeric(specs[p].text)}
  BY <1>1, <1>3 DEF Valued
<1>4. \A q \in Valued : q \in Shelved
  BY DEF Valued
<1> QED
  BY <1>2, <1>3, <1>4 DEF Matching

\* The invariant says of a facet what is asked of it.
LEMMA FacetsFollow == FacetsInv => FacetsAgree
<1> SUFFICES ASSUME FacetsInv, ~Mixed PROVE FacetsAgree
  BY DEF FacetsAgree
<1>0. specs \in [Shelved -> StoredSpecs]
  BY DEF FacetsInv
<1>1. ASSUME listing.sort = "none", facet.active, CountsOf(listing.sort, listing.counts)
      PROVE  /\ FacetCountsRight
             /\ UNION {Matching(n) : n \in DOMAIN listing.counts} = Valued
  <2>1. DOMAIN listing.counts = Texts
    BY <1>1 DEF CountsOf
  <2>2. ASSUME NEW n \in Texts PROVE listing.counts[n] = Cardinality(Matching(n))
    <3>1. PICK g \in Groups("none") : /\ \A q \in g : specs[q].text = n
                                      /\ listing.counts[n] = Cardinality(g)
      BY <1>1 DEF CountsOf
    <3>2. PICK p \in g : g = {q \in Valued : specs[q] = specs[p]}
      BY <3>1 DEF Groups
    <3>3. p \in Valued /\ specs[p].text = n
      BY <3>1, <3>2
    <3>4. Matching(n) = g
      BY <1>0, <1>1, <3>2, <3>3, MatchesAre
    <3> QED
      BY <3>1, <3>4
  <2>3. ASSUME NEW n \in Texts PROVE Matching(n) \subseteq Valued
    <3>1. PICK p \in Valued : specs[p].text = n
      BY DEF Texts
    <3> QED
      BY <1>0, <1>1, <3>1, MatchesAre
  <2>4. ASSUME NEW p \in Valued PROVE \E n \in Texts : p \in Matching(n)
    <3>1. specs[p].text \in Texts
      BY DEF Texts
    <3>2. p \in Matching(specs[p].text)
      BY <1>0, <1>1, MatchesAre
    <3> QED
      BY <3>1, <3>2
  <2>5. UNION {Matching(n) : n \in Texts} = Valued
    BY <2>3, <2>4
  <2> QED
    BY <2>1, <2>2, <2>5 DEF FacetCountsRight
<1>2. ASSUME listing.counts = <<>> PROVE FacetCountsRight
  <2>1. DOMAIN listing.counts = {}
    BY <1>2
  <2> QED
    BY <2>1 DEF FacetCountsRight
<1>3. listing.sort = "none" => FacetCountsRight
  BY <1>1, <1>2 DEF FacetsInv
<1>4. listing.sort = "none" /\ facet.active /\ facet.type = "choice" =>
          UNION {Matching(n) : n \in DOMAIN listing.counts} = Valued
  BY <1>1 DEF FacetsInv
<1>5. listing.bounds # {} /\ (\A p \in Valued : specs[p].type = "number") =>
          Between(Min(listing.bounds), Max(listing.bounds)) = Valued
  BY BoundsFind
<1> QED
  BY <1>3, <1>4, <1>5 DEF FacetsAgree

\* Nothing is answered at the start, and what the rows have can be stored.
LEMMA FacetsStart == FacetsInit => FacetsInv
<1> SUFFICES ASSUME FacetsInit PROVE FacetsInv
  OBVIOUS
<1>1. specs \in [Shelved -> StoredSpecs]
  BY DEF FacetsInit, StoredSpecs
<1>2. listing.sort = "unasked" /\ listing.counts = <<>> /\ listing.bounds = {}
  BY DEF FacetsInit, NoListing
<1> QED
  BY <1>1, <1>2 DEF FacetsInv

\* An answer has the counts and bounds of the rows that were read for it.
LEMMA FacetsStepKeeps == FacetsInv /\ [FacetsNext]_facetVars => FacetsInv'
<1> SUFFICES ASSUME FacetsInv, [FacetsNext]_facetVars PROVE FacetsInv'
  OBVIOUS
<1>1. ASSUME NEW sort \in {"none", "up", "down"}, AskList(sort) PROVE FacetsInv'
  <2>1. PICK counts \in [Texts -> 1 .. MaxProduct] :
          /\ facet.active /\ facet.type = "choice" => CountsOf(sort, counts)
          /\ listing' = [sort |-> sort,
                         counts |-> IF facet.active /\ facet.type = "choice" THEN counts ELSE <<>>,
                         bounds |-> IF facet.active /\ facet.type = "range" THEN BoundsOf ELSE {}]
    BY <1>1 DEF AskList
  <2>2. UNCHANGED <<facet, specs>>
    BY <1>1 DEF AskList
  <2>3. /\ listing'.sort = sort /\ sort # "unasked"
        /\ listing'.counts = IF facet.active /\ facet.type = "choice" THEN counts ELSE <<>>
        /\ listing'.bounds = IF facet.active /\ facet.type = "range" THEN BoundsOf ELSE {}
    BY <2>1
  <2>4. Texts' = Texts /\ Groups(sort)' = Groups(sort) /\ BoundsOf' = BoundsOf
    BY <2>2 DEF Texts, Valued, Groups, BoundsOf
  <2>5. CountsOf(sort, counts) => CountsOf(sort, counts)'
    BY <2>2, <2>4 DEF CountsOf
  <2>6. facet.active /\ facet.type = "choice" => CountsOf(listing.sort, listing.counts)'
    BY <2>1, <2>3, <2>5
  <2> QED
    BY <2>2, <2>3, <2>4, <2>6 DEF FacetsInv
<1>2. CASE UNCHANGED <<facet, specs, listing>>
  <2>1. Texts' = Texts /\ BoundsOf' = BoundsOf
    BY <1>2 DEF Texts, Valued, BoundsOf
  <2>2. \A sort : Groups(sort)' = Groups(sort)
    BY <1>2 DEF Valued, Groups
  <2>3. \A sort, counts : CountsOf(sort, counts) => CountsOf(sort, counts)'
    BY <1>2, <2>1, <2>2 DEF CountsOf
  <2>4. CountsOf(listing.sort, listing.counts) => CountsOf(listing.sort, listing.counts)'
    BY <1>2, <2>3
  <2> QED
    BY <1>2, <2>1, <2>4 DEF FacetsInv
<1> QED
  BY <1>1, <1>2 DEF FacetsNext, Choose, facetVars
-----------------------------------------------------------------------------
\* What a facet shows of a list without an ordering is what choosing it finds,
\* however many products and values there are, as long as no spec mixes numbers
\* and strings of digits.
THEOREM FacetsShowWhatTheyFind == FacetsSpec => []FacetsAgree
  BY FacetsStart, FacetsStepKeeps, FacetsFollow, PTL DEF FacetsSpec

-----------------------------------------------------------------------------
(***************************************************************************)
(* Pages, banners and the blog.                                            *)
(***************************************************************************)
EntryRow == [slug : Slug \cup {None}, on : BOOLEAN, from : Moments, until : Moments,
             noindex : BOOLEAN, filed : BOOLEAN, body : 0 .. MaxContentEdits,
             words : 0 .. MaxContentEdits]

Columns == {"slug", "on", "from", "until", "noindex", "filed", "body", "words"}

ContentTaskRecord == [pc : {"idle", "loaded"}, entry : Entry \cup {None}, row : EntryRow,
                      fields : SUBSET Columns]

\* The entry a request has is one of the table's.
TasksHaveEntry == \A w \in Worker : contentTask[w] # NoContentTask => contentTask[w].entry \in Entry

\* The stats of a post's text go with it, in the rows and in what is about to be
\* saved; and no two posts share a slug.
StatsOfText == /\ \A e \in Entry : content[e].words = content[e].body
               /\ \A w \in Worker : contentTask[w].row.words = contentTask[w].row.body
SlugsDiffer == \A d, e \in AllEntries : content[d].slug = content[e].slug => d = e

\* As long as no two requests overlapped, the one under way may change the slug of
\* a post that is published only by taking it down.
SlugLocked ==
    \A w \in Worker : contentTask[w] # NoContentTask =>
        /\ \A v \in Worker : contentTask[v] # NoContentTask => v = w
        /\ LET t == contentTask[w] IN
           t.entry \in AllEntries /\ content[t.entry].on /\ t.row.slug # content[t.entry].slug
             => "on" \in t.fields /\ ~t.row.on

PublishingInv ==
    /\ PublishingTypeOK /\ TasksHaveEntry
    /\ kind = "post" => StatsOfText /\ SlugsDiffer
    /\ kind = "post" /\ ~contentRaced => SlugLocked
-----------------------------------------------------------------------------
\* The types of the variables, by their records.
LEMMA PublishingShapes ==
    PublishingTypeOK <=>
        /\ kind \in Kinds /\ category \in {"active", "hidden", "gone"}
        /\ content \in [Entry -> EntryRow]
        /\ contentTask \in [Worker -> ContentTaskRecord]
        /\ contentEdits \in 0 .. MaxContentEdits /\ contentRaced \in BOOLEAN /\ contentCrashes \in Nat
<1>1. DOMAIN NoEntry = Columns
  BY DEF NoEntry, Columns
<1> QED
  BY <1>1, Zenon DEF PublishingTypeOK, EntryRow, ContentTaskRecord

\* A row that is not there and an idle slot's record.
LEMMA IdleContentTask ==
    /\ NoEntry \in EntryRow /\ NoEntry.slug = None /\ NoEntry.on = FALSE /\ NoEntry.words = NoEntry.body
    /\ NoContentTask \in ContentTaskRecord /\ NoContentTask.pc = "idle"
    /\ NoContentTask.row = NoEntry /\ MaxContentEdits \in Nat /\ None \notin Entry /\ None \notin Slug
<1>1. MaxContentEdits \in Nat /\ 0 \in 0 .. MaxContentEdits
  BY PublishingAssumption
<1>2. NoEntry \in EntryRow
  BY <1>1 DEF NoEntry, EntryRow, Moments
<1> QED
  BY <1>1, <1>2, PublishingAssumption DEF NoEntry, NoContentTask, ContentTaskRecord

\* There is no content at the start.
LEMMA PublishingStart == PublishingInit => PublishingInv
<1> SUFFICES ASSUME PublishingInit PROVE PublishingInv
  OBVIOUS
<1>1. /\ kind \in Kinds /\ content = [e \in Entry |-> NoEntry] /\ category = "active"
      /\ contentTask = [w \in Worker |-> NoContentTask] /\ contentEdits = 0 /\ contentCrashes = 0
  BY DEF PublishingInit
<1>2. contentRaced \in BOOLEAN
  BY Zenon DEF PublishingInit
<1>3. AllEntries = {}
  BY <1>1, IdleContentTask DEF AllEntries
<1>4. PublishingTypeOK
  BY <1>1, <1>2, IdleContentTask, PublishingShapes
<1>5. TasksHaveEntry /\ StatsOfText /\ SlugsDiffer /\ SlugLocked
  BY <1>1, <1>3, IdleContentTask DEF TasksHaveEntry, StatsOfText, SlugsDiffer, SlugLocked
<1> QED
  BY <1>4, <1>5 DEF PublishingInv
-----------------------------------------------------------------------------
\* The row a PATCH is to save is one of the table's, and its text has its stats.
LEMMA RowEdited ==
    ASSUME PublishingInv, contentEdits < MaxContentEdits,
           NEW e \in Entry, NEW fields \in SUBSET Columns, NEW s \in Slug, NEW f \in Moments
    PROVE  /\ Edited(content[e], fields, s, f) \in EntryRow
           /\ content[e].words = content[e].body =>
                 Edited(content[e], fields, s, f).words = Edited(content[e], fields, s, f).body
<1> DEFINE old == content[e]
<1>0. /\ old \in EntryRow /\ contentEdits + 1 \in 0 .. MaxContentEdits
      /\ old.on \in BOOLEAN /\ old.noindex \in BOOLEAN /\ old.filed \in BOOLEAN
      /\ old.slug \in Slug \cup {None} /\ old.from \in Moments /\ old.until \in Moments
      /\ old.body \in 0 .. MaxContentEdits /\ old.words \in 0 .. MaxContentEdits
  BY PublishingShapes, IdleContentTask DEF PublishingInv, EntryRow
<1>1. (IF "slug" \in fields THEN s ELSE old.slug) \in Slug \cup {None}
  BY <1>0
<1>2. (IF "on" \in fields THEN ~old.on ELSE old.on) \in BOOLEAN
  BY <1>0, Zenon
<1>3. /\ (IF "from" \in fields THEN f ELSE old.from) \in Moments
      /\ (IF "until" \in fields THEN f ELSE old.until) \in Moments
  BY <1>0
<1>4. (IF "noindex" \in fields THEN ~old.noindex ELSE old.noindex) \in BOOLEAN
  BY <1>0, Zenon
<1>5. (IF "filed" \in fields THEN ~old.filed /\ category # "gone" ELSE old.filed) \in BOOLEAN
  BY <1>0, Zenon
<1>6. /\ (IF "body" \in fields THEN contentEdits + 1 ELSE old.body) \in 0 .. MaxContentEdits
      /\ (IF "body" \in fields THEN contentEdits + 1 ELSE old.words) \in 0 .. MaxContentEdits
  BY <1>0
<1>7. Edited(old, fields, s, f) \in EntryRow
  BY <1>1, <1>2, <1>3, <1>4, <1>5, <1>6, Zenon DEF EntryRow, Edited
<1>8. old.words = old.body => Edited(old, fields, s, f).words = Edited(old, fields, s, f).body
  BY DEF Edited
<1> QED
  BY <1>7, <1>8

\* What every PATCH has in common when it loads a row.
LoadedRow(w, e, row, fields) ==
    /\ contentTask[w] = NoContentTask
    /\ contentEdits < MaxContentEdits /\ contentEdits' = contentEdits + 1
    /\ contentTask' = [contentTask EXCEPT ![w] = [pc |-> "loaded", entry |-> e, row |-> row,
                                                  fields |-> fields]]
    /\ contentRaced' = (contentRaced \/ \E v \in Worker : contentTask[v] # NoContentTask)
    /\ UNCHANGED <<kind, content, category, contentCrashes>>

\* The four editors load a row in one way.
LEMMA OpensAreLoads ==
    ASSUME OpenPage \/ OpenBanner \/ OpenCategory \/ OpenPost
    PROVE  \E w \in Worker, e \in AllEntries, fields \in SUBSET Columns, s \in Slug, f \in Moments :
              /\ LoadedRow(w, e, Edited(content[e], fields, s, f), fields)
              /\ kind = "post" => SlugMayChange(content[e], Edited(content[e], fields, s, f), fields)
<1> DEFINE Loads(w, e, fields, s, f) ==
              /\ LoadedRow(w, e, Edited(content[e], fields, s, f), fields)
              /\ kind = "post" => SlugMayChange(content[e], Edited(content[e], fields, s, f), fields)
<1>1. CASE OpenPage
  <2>1. PICK w \in Worker, e \in AllEntries, fields \in {{"slug"}, {"on"}, {"slug", "on"}},
             s \in Slug, f \in Moments : Loads(w, e, fields, s, f)
    BY <1>1 DEF OpenPage, Open, Anything, LoadedRow
  <2>2. fields \in SUBSET Columns
    BY DEF Columns
  <2> QED
    BY <2>1, <2>2
<1>2. CASE OpenBanner
  <2>1. PICK changes : changes = {{"on"}, {"from"}, {"until"}}
    OBVIOUS
  <2>2. Open("banner", changes, Anything)
    BY <1>2, <2>1 DEF OpenBanner
  <2>3. PICK w \in Worker, e \in AllEntries, fields \in changes, s \in Slug, f \in Moments :
          Loads(w, e, fields, s, f)
    BY <2>2 DEF Open, Anything, LoadedRow
  <2>4. fields \in SUBSET Columns
    BY <2>1 DEF Columns
  <2> QED
    BY <2>3, <2>4
<1>3. CASE OpenCategory
  <2>1. PICK w \in Worker, e \in AllEntries, fields \in {{"slug"}, {"on"}},
             s \in Slug, f \in Moments : Loads(w, e, fields, s, f)
    BY <1>3 DEF OpenCategory, Open, Anything, LoadedRow
  <2>2. fields \in SUBSET Columns
    BY DEF Columns
  <2> QED
    BY <2>1, <2>2
<1>4. CASE OpenPost
  <2>1. PICK w \in Worker, e \in AllEntries,
             fields \in {{"slug"}, {"on"}, {"slug", "on"}, {"from"}, {"noindex"}, {"filed"}, {"body"}},
             s \in Slug, f \in Moments : Loads(w, e, fields, s, f)
    BY <1>4 DEF OpenPost, Open, LoadedRow
  <2>2. fields \in SUBSET Columns
    BY DEF Columns
  <2> QED
    BY <2>1, <2>2
<1> QED
  BY <1>1, <1>2, <1>3, <1>4

\* What an update writes of the row it has: the columns of the request that the
\* serializer knows, and the stats if the text is one of them.
WrittenRow(w, columns) == StoredColumns(contentTask[w].fields \cap columns)

Overlaid(old, row, written) == [c \in DOMAIN old |-> IF c \in written THEN row[c] ELSE old[c]]

\* A row that a save overlays with the columns it writes is a row of the table.
LEMMA RowOverlaid ==
    ASSUME NEW old \in EntryRow, NEW row \in EntryRow, NEW written
    PROVE  /\ Overlaid(old, row, written) \in EntryRow
           /\ Overlaid(old, row, written).slug = IF "slug" \in written THEN row.slug ELSE old.slug
           /\ Overlaid(old, row, written).on = IF "on" \in written THEN row.on ELSE old.on
           /\ Overlaid(old, row, written).body = IF "body" \in written THEN row.body ELSE old.body
           /\ Overlaid(old, row, written).words = IF "words" \in written THEN row.words ELSE old.words
  BY DEF EntryRow, Overlaid

\* What every save of a loaded row has in common.
SavedRow(w, written) ==
    LET t == contentTask[w] IN
    /\ t.pc = "loaded"
    /\ \/ content' = content
       \/ /\ t.entry \in AllEntries
          /\ kind = "post" /\ "slug" \in written => ~Clashes(t.entry, t.row.slug)
          /\ content' = [content EXCEPT ![t.entry] = Overlaid(content[t.entry], t.row, written)]
    /\ kind = "post" =>
          /\ "words" \in written <=> "body" \in written
          /\ "on" \in t.fields => "on" \in written
    /\ contentTask' = [contentTask EXCEPT ![w] = NoContentTask]
    /\ UNCHANGED <<kind, category, contentEdits, contentRaced, contentCrashes>>

\* The four editors save in one way: the columns they write, over the row there is.
LEMMA UpdatesAreSaves ==
    ASSUME PublishingInv, UpdatePage \/ UpdateBanner \/ UpdateCategory \/ UpdatePost
    PROVE  \E w \in Worker, written \in SUBSET Columns : SavedRow(w, written)
<1>0. \A w \in Worker : contentTask[w].fields \subseteq Columns
  BY PublishingShapes DEF PublishingInv, ContentTaskRecord
<1>1. CASE UpdatePage
  <2>1. PICK w \in Worker : SavedRow(w, WrittenRow(w, {"slug", "on"}))
    BY <1>1 DEF UpdatePage, Saved, SavedRow, Overlaid, WrittenRow
  <2>2. WrittenRow(w, {"slug", "on"}) \subseteq Columns
    BY <1>0 DEF WrittenRow, StoredColumns, Columns
  <2> QED
    BY <2>1, <2>2
<1>2. CASE UpdateBanner
  <2>1. PICK w \in Worker : SavedRow(w, WrittenRow(w, {"on", "from", "until"}))
    BY <1>2 DEF UpdateBanner, Saved, SavedRow, Overlaid, WrittenRow
  <2>2. WrittenRow(w, {"on", "from", "until"}) \subseteq Columns
    BY <1>0 DEF WrittenRow, StoredColumns, Columns
  <2> QED
    BY <2>1, <2>2
<1>3. CASE UpdateCategory
  <2>1. PICK w \in Worker : SavedRow(w, WrittenRow(w, {"slug", "on"}))
    BY <1>3 DEF UpdateCategory, Saved, SavedRow, Overlaid, WrittenRow
  <2>2. WrittenRow(w, {"slug", "on"}) \subseteq Columns
    BY <1>0 DEF WrittenRow, StoredColumns, Columns
  <2> QED
    BY <2>1, <2>2
<1>4. CASE UpdatePost
  <2> DEFINE columns == {"slug", "on", "from", "noindex", "filed", "body"}
  <2>1. \A w \in Worker : \A written : written = WrittenRow(w, columns) =>
           /\ "words" \in written <=> "body" \in written
           /\ "on" \in contentTask[w].fields => "on" \in written
    BY DEF WrittenRow, StoredColumns
  <2>2. PICK w \in Worker :
          LET t == contentTask[w]
              refused == \/ t.entry \notin AllEntries
                         \/ "slug" \in WrittenRow(w, columns) /\ Clashes(t.entry, t.row.slug)
                         \/ "filed" \in WrittenRow(w, columns) /\ t.row.filed /\ category = "gone"
          IN
          /\ t.pc = "loaded"
          /\ content' = IF refused THEN content
                        ELSE [content EXCEPT ![t.entry] =
                                 Overlaid(content[t.entry], t.row, WrittenRow(w, columns))]
          /\ contentTask' = [contentTask EXCEPT ![w] = NoContentTask]
          /\ UNCHANGED <<kind, category, contentEdits, contentRaced, contentCrashes>>
    BY <1>4, Zenon DEF UpdatePost, Saved, Overlaid, WrittenRow
  <2>4. SavedRow(w, WrittenRow(w, columns))
    <3>1. PICK written : written = WrittenRow(w, columns)
      OBVIOUS
    <3>2. /\ "words" \in written <=> "body" \in written
          /\ "on" \in contentTask[w].fields => "on" \in written
      BY <2>1, <3>1
    <3> HIDE DEF columns
    <3>3. SavedRow(w, written)
      BY <2>2, <3>1, <3>2 DEF SavedRow
    <3> QED
      BY <3>1, <3>3
  <2>3. WrittenRow(w, columns) \subseteq Columns
    BY <1>0 DEF WrittenRow, StoredColumns, Columns
  <2> QED
    BY <2>3, <2>4
<1> QED
  BY <1>1, <1>2, <1>3, <1>4
-----------------------------------------------------------------------------
\* A create handler inserts a row that no other clashes with.
InsertedRow(e, row) ==
    /\ contentEdits < MaxContentEdits /\ contentEdits' = contentEdits + 1
    /\ ~Clashes(e, row.slug) /\ \A w \in Worker : contentTask[w].entry # e
    /\ content' = [content EXCEPT ![e] = row]
    /\ UNCHANGED <<kind, category, contentTask, contentRaced, contentCrashes>>

\* The five creations insert in one way: a row for an entry that was not there.
LEMMA CreatesAreInserts ==
    ASSUME PublishingInv, CreatePage \/ CreateBanner \/ CreateCategory \/ CreateTag \/ CreatePost
    PROVE  \E e \in Entry \ AllEntries, row \in EntryRow :
              InsertedRow(e, row) /\ (kind = "post" => row.words = row.body)
<1>1. PageInput \subseteq EntryRow
  <2> DEFINE Made(s, b) == [NoEntry EXCEPT !.slug = s, !.on = b]
  <2>1. PageInput = {Made(s, b) : s \in Slug, b \in BOOLEAN}
    BY DEF PageInput
  <2>2. ASSUME NEW s \in Slug, NEW b \in BOOLEAN PROVE Made(s, b) \in EntryRow
    BY IdleContentTask DEF EntryRow
  <2> HIDE DEF Made
  <2> QED
    BY <2>1, <2>2
<1>c. CategoryInput \subseteq EntryRow
  BY <1>1 DEF CategoryInput
<1>2. BannerInput \subseteq EntryRow
  <2> DEFINE Made(s, b, f, u) == [NoEntry EXCEPT !.slug = s, !.on = b, !.from = f, !.until = u]
  <2>1. BannerInput = {Made(s, b, f, u) : s \in Slug, b \in BOOLEAN, f \in Moments, u \in Moments}
    BY DEF BannerInput
  <2>2. ASSUME NEW s \in Slug, NEW b \in BOOLEAN, NEW f \in Moments, NEW u \in Moments PROVE Made(s, b, f, u) \in EntryRow
    BY IdleContentTask DEF EntryRow
  <2> HIDE DEF Made
  <2> QED
    BY <2>1, <2>2
<1>3. TagInput \subseteq EntryRow
  <2> DEFINE Made(s) == [NoEntry EXCEPT !.slug = s, !.on = TRUE]
  <2>1. TagInput = {Made(s) : s \in Slug}
    BY DEF TagInput
  <2>2. ASSUME NEW s \in Slug PROVE Made(s) \in EntryRow
    BY IdleContentTask DEF EntryRow
  <2> HIDE DEF Made
  <2> QED
    BY <2>1, <2>2
<1>4. PostInput \subseteq EntryRow
  <2> DEFINE Made(s, b, f, c) == [NoEntry EXCEPT !.slug = s, !.on = b, !.from = f, !.filed = c]
  <2>1. PostInput = {Made(s, b, f, c) : s \in Slug, b \in BOOLEAN, f \in Moments, c \in {category = "active"}}
    BY DEF PostInput
  <2>2. ASSUME NEW s \in Slug, NEW b \in BOOLEAN, NEW f \in Moments, NEW c \in {category = "active"} PROVE Made(s, b, f, c) \in EntryRow
    <3>1. c \in BOOLEAN
      BY Zenon
    <3> QED
      BY <3>1, IdleContentTask DEF EntryRow
  <2> HIDE DEF Made
  <2> QED
    BY <2>1, <2>2
<1>5. CASE CreatePage
  BY <1>1, <1>5 DEF CreatePage, Insert, InsertedRow
<1>6. CASE CreateBanner
  BY <1>2, <1>6 DEF CreateBanner, Insert, InsertedRow
<1>7. CASE CreateCategory
  BY <1>c, <1>7 DEF CreateCategory, Insert, InsertedRow
<1>8. CASE CreateTag
  BY <1>3, <1>8 DEF CreateTag, Insert, InsertedRow
<1>9. CASE CreatePost
  <2>1. PICK e \in Entry \ AllEntries, r \in PostInput :
           InsertedRow(e, [r EXCEPT !.body = contentEdits + 1, !.words = contentEdits + 1])
    BY <1>9 DEF CreatePost, Insert, InsertedRow
  <2>2. contentEdits + 1 \in 0 .. MaxContentEdits /\ r \in EntryRow
    BY <1>4, <2>1, IdleContentTask, PublishingShapes DEF InsertedRow, PublishingInv
  <2>3. PICK row \in EntryRow : row = [r EXCEPT !.body = contentEdits + 1, !.words = contentEdits + 1]
    BY <2>2 DEF EntryRow
  <2>4. row.body = row.words
    BY <2>2, <2>3 DEF EntryRow
  <2> QED
    BY <2>1, <2>3, <2>4
<1> QED
  BY <1>5, <1>6, <1>7, <1>8, <1>9
-----------------------------------------------------------------------------
\* A request loads a row.
LEMMA PublishingBegins ==
    ASSUME PublishingInv, NEW w \in Worker, NEW e \in AllEntries, NEW row \in EntryRow,
           NEW fields \in SUBSET Columns, LoadedRow(w, e, row, fields),
           kind = "post" => row.words = row.body,
           kind = "post" => SlugMayChange(content[e], row, fields)
    PROVE  PublishingInv'
<1> DEFINE c == [pc |-> "loaded", entry |-> e, row |-> row, fields |-> fields]
<1>0. /\ contentTask \in [Worker -> ContentTaskRecord] /\ contentEdits \in 0 .. MaxContentEdits
      /\ contentTask' = [contentTask EXCEPT ![w] = c] /\ contentTask[w] = NoContentTask
      /\ contentEdits < MaxContentEdits /\ contentEdits' = contentEdits + 1
      /\ UNCHANGED <<kind, content, category, contentCrashes>>
      /\ e \in Entry
  BY PublishingShapes DEF PublishingInv, LoadedRow, AllEntries
<1>1. contentRaced' \in BOOLEAN
  BY Zenon DEF LoadedRow
<1>2. contentEdits' \in 0 .. MaxContentEdits
  BY <1>0, IdleContentTask
<1>3. /\ contentTask' \in [Worker -> ContentTaskRecord] /\ contentTask'[w] = c
      /\ \A v \in Worker \ {w} : contentTask'[v] = contentTask[v]
  BY <1>0 DEF ContentTaskRecord
<1>4. PublishingTypeOK'
  <2>1. DOMAIN NoEntry = Columns
    BY DEF NoEntry, Columns
  <2> QED
    BY <1>0, <1>1, <1>2, <1>3, <2>1 DEF PublishingInv, PublishingTypeOK, ContentTaskRecord, EntryRow
<1>5. TasksHaveEntry'
  BY <1>0, <1>3 DEF TasksHaveEntry, PublishingInv
<1>6. AllEntries' = AllEntries
  BY <1>0 DEF AllEntries
<1>7. kind = "post" => StatsOfText' /\ SlugsDiffer'
  BY <1>0, <1>3, <1>6 DEF StatsOfText, SlugsDiffer, PublishingInv
<1>8. ASSUME kind = "post", ~contentRaced' PROVE SlugLocked'
  <2>1. \A v \in Worker : contentTask[v] = NoContentTask
    BY <1>8 DEF LoadedRow
  <2>2. content[e].on /\ row.slug # content[e].slug => "on" \in fields /\ ~row.on
    BY <1>8 DEF SlugMayChange
  <2> QED
    BY <1>0, <1>3, <1>6, <2>1, <2>2 DEF SlugLocked
<1> QED
  BY <1>0, <1>4, <1>5, <1>7, <1>8 DEF PublishingInv

\* A request that saves, or dies, is over: the rows keep their shape.
LEMMA PublishingEnds ==
    ASSUME PublishingInv, NEW w \in Worker, contentTask' = [contentTask EXCEPT ![w] = NoContentTask],
           content' \in [Entry -> EntryRow], contentCrashes' \in Nat,
           UNCHANGED <<kind, category, contentEdits, contentRaced>>,
           kind = "post" => SlugsDiffer' /\ \A e \in Entry : content'[e].words = content'[e].body,
           content' = content \/ \A v \in Worker : contentTask[v] # NoContentTask /\ ~contentRaced /\ kind = "post" => v = w
    PROVE  PublishingInv'
<1>0. contentTask \in [Worker -> ContentTaskRecord]
  BY PublishingShapes DEF PublishingInv
<1>1. /\ contentTask' \in [Worker -> ContentTaskRecord] /\ contentTask'[w] = NoContentTask
      /\ \A v \in Worker \ {w} : contentTask'[v] = contentTask[v]
  BY <1>0, IdleContentTask
<1>2. PublishingTypeOK'
  <2>1. DOMAIN NoEntry = Columns
    BY DEF NoEntry, Columns
  <2> QED
    BY <1>1, <2>1 DEF PublishingInv, PublishingTypeOK, ContentTaskRecord, EntryRow
<1>3. TasksHaveEntry'
  BY <1>1 DEF TasksHaveEntry, PublishingInv
<1>4. kind = "post" => StatsOfText'
  BY <1>1, IdleContentTask DEF StatsOfText, PublishingInv
<1>5. ASSUME kind = "post", ~contentRaced PROVE SlugLocked'
  <2>1. CASE content' = content
    BY <1>1, <1>5, <2>1 DEF PublishingInv, SlugLocked, AllEntries
  <2>2. CASE \A v \in Worker : contentTask[v] # NoContentTask => v = w
    BY <1>1, <2>2 DEF SlugLocked
  <2> QED
    BY <1>5, <2>1, <2>2
<1> QED
  BY <1>2, <1>3, <1>4, <1>5 DEF PublishingInv

\* A row is saved: its slug is free, its text comes with its stats, and a locked
\* slug has not changed.
LEMMA PublishingSaves ==
    ASSUME PublishingInv, NEW w \in Worker, NEW written \in SUBSET Columns, SavedRow(w, written)
    PROVE  PublishingInv' /\ PublishedSlugStays
<1> DEFINE t == contentTask[w]
<1>0. /\ content \in [Entry -> EntryRow] /\ contentTask \in [Worker -> ContentTaskRecord]
      /\ contentCrashes \in Nat
  BY PublishingShapes DEF PublishingInv
<1>1. /\ contentTask' = [contentTask EXCEPT ![w] = NoContentTask]
      /\ UNCHANGED <<kind, category, contentEdits, contentRaced, contentCrashes>>
      /\ t # NoContentTask /\ t.entry \in Entry /\ t.row \in EntryRow
  BY <1>0, IdleContentTask DEF SavedRow, PublishingInv, TasksHaveEntry, ContentTaskRecord
<1>2. kind = "post" /\ ~contentRaced => \A v \in Worker : contentTask[v] # NoContentTask => v = w
  BY <1>1 DEF PublishingInv, SlugLocked
<1>3. CASE content' = content
  <2>1. PublishedSlugStays
    BY <1>3 DEF PublishedSlugStays
  <2>2. kind = "post" => SlugsDiffer' /\ \A e \in Entry : content'[e].words = content'[e].body
    BY <1>3 DEF PublishingInv, SlugsDiffer, StatsOfText, AllEntries
  <2> QED
    BY <1>0, <1>1, <1>3, <2>1, <2>2, PublishingEnds
<1>4. CASE content' # content
  <2>1. PICK new \in EntryRow :
           /\ content' = [content EXCEPT ![t.entry] = new] /\ t.entry \in AllEntries
           /\ new.slug = IF "slug" \in written THEN t.row.slug ELSE content[t.entry].slug
           /\ new.on = IF "on" \in written THEN t.row.on ELSE content[t.entry].on
           /\ new.body = IF "body" \in written THEN t.row.body ELSE content[t.entry].body
           /\ new.words = IF "words" \in written THEN t.row.words ELSE content[t.entry].words
           /\ kind = "post" /\ "slug" \in written => ~Clashes(t.entry, t.row.slug)
    <3>1. PICK new \in EntryRow : new = Overlaid(content[t.entry], t.row, written)
      BY <1>0, <1>1, RowOverlaid
    <3> QED
      BY <1>0, <1>1, <1>4, <3>1, RowOverlaid DEF SavedRow
  <2>2. /\ content' \in [Entry -> EntryRow] /\ content'[t.entry] = new
        /\ \A e \in Entry \ {t.entry} : content'[e] = content[e]
        /\ AllEntries' \subseteq AllEntries
    <3>1. /\ content' \in [Entry -> EntryRow] /\ content'[t.entry] = new
          /\ \A e \in Entry \ {t.entry} : content'[e] = content[e]
      BY <1>0, <1>1, <2>1
    <3> QED
      BY <2>1, <3>1 DEF AllEntries
  <2>3. ASSUME kind = "post" PROVE SlugsDiffer' /\ \A e \in Entry : content'[e].words = content'[e].body
    <3>1. StatsOfText /\ SlugsDiffer
      BY <2>3 DEF PublishingInv
    <3>2. new.words = new.body
      BY <1>1, <2>1, <2>3, <3>1 DEF StatsOfText, SavedRow
    <3>3. \A e \in AllEntries \ {t.entry} : content[e].slug # new.slug
      BY <2>1, <2>3, <3>1 DEF Clashes, SlugsDiffer
    <3>4. SlugsDiffer'
      <4> SUFFICES ASSUME NEW d \in AllEntries', NEW e \in AllEntries',
                          content'[d].slug = content'[e].slug
                   PROVE  d = e
        BY DEF SlugsDiffer
      <4>1. d \in AllEntries /\ e \in AllEntries /\ d \in Entry /\ e \in Entry
        BY <2>2 DEF AllEntries
      <4> QED
        BY <2>2, <3>1, <3>3, <4>1 DEF SlugsDiffer
    <3> QED
      BY <2>2, <3>1, <3>2, <3>4 DEF StatsOfText
  <2>4. PublishedSlugStays
    <3> SUFFICES ASSUME kind = "post", ~contentRaced, NEW e \in AllEntries, content[e].on,
                        content'[e].on, content'[e].slug # content[e].slug
                 PROVE  FALSE
      BY DEF PublishedSlugStays
    <3>1. e = t.entry /\ "slug" \in written /\ t.row.slug # content[e].slug
      BY <2>1, <2>2 DEF AllEntries
    <3>2. "on" \in t.fields /\ ~t.row.on
      BY <1>1, <3>1 DEF PublishingInv, SlugLocked
    <3>3. "on" \in written
      BY <3>2 DEF SavedRow
    <3> QED
      BY <2>1, <2>2, <3>1, <3>2, <3>3
  <2> QED
    BY <1>0, <1>1, <1>2, <2>2, <2>3, <2>4, PublishingEnds
<1> QED
  BY <1>3, <1>4

\* Rows come, go, or change in other columns than slug and visibility; nobody has a
\* new one loaded.
LEMMA ContentMoves ==
    ASSUME PublishingInv, content' \in [Entry -> EntryRow],
           category' \in {"active", "hidden", "gone"}, contentEdits' \in 0 .. MaxContentEdits,
           UNCHANGED <<kind, contentTask, contentRaced, contentCrashes>>,
           kind = "post" => SlugsDiffer' /\ \A e \in Entry : content'[e].words = content'[e].body,
           \A e \in AllEntries' :
              IF e \in AllEntries
              THEN content'[e].slug = content[e].slug /\ content'[e].on = content[e].on
              ELSE \A w \in Worker : contentTask[w].entry # e
    PROVE  PublishingInv' /\ PublishedSlugStays
<1>1. PublishingTypeOK'
  BY DEF PublishingInv, PublishingTypeOK, EntryRow
<1>2. TasksHaveEntry'
  BY DEF TasksHaveEntry, PublishingInv
<1>3. kind = "post" => StatsOfText'
  BY DEF StatsOfText, PublishingInv
<1>4. ASSUME kind = "post", ~contentRaced PROVE SlugLocked'
  BY <1>4 DEF PublishingInv, SlugLocked
<1>5. PublishedSlugStays
  BY DEF PublishedSlugStays
<1> QED
  BY <1>1, <1>2, <1>3, <1>4, <1>5 DEF PublishingInv

\* Every step keeps the invariant, and the slug of what stays published.
LEMMA PublishingStepKeeps ==
    PublishingInv /\ [PublishingNext]_contentVars => PublishingInv' /\ PublishedSlugStays
<1> SUFFICES ASSUME PublishingInv, [PublishingNext]_contentVars
             PROVE  PublishingInv' /\ PublishedSlugStays
  OBVIOUS
<1>0. /\ content \in [Entry -> EntryRow] /\ contentTask \in [Worker -> ContentTaskRecord]
      /\ contentEdits \in 0 .. MaxContentEdits /\ contentCrashes \in Nat
      /\ category \in {"active", "hidden", "gone"} /\ MaxContentEdits \in Nat
  BY PublishingShapes, IdleContentTask DEF PublishingInv
<1>s. kind = "post" => SlugsDiffer /\ \A e \in Entry : content[e].words = content[e].body
  BY DEF PublishingInv, StatsOfText
<1>1. CASE CreatePage \/ CreateBanner \/ CreateCategory \/ CreateTag \/ CreatePost
  <2>1. PICK e \in Entry \ AllEntries, row \in EntryRow :
           InsertedRow(e, row) /\ (kind = "post" => row.words = row.body)
    BY <1>1, CreatesAreInserts
  <2>2. /\ content' \in [Entry -> EntryRow] /\ content'[e] = row
        /\ \A d \in Entry \ {e} : content'[d] = content[d]
    BY <1>0, <2>1 DEF InsertedRow
  <2>3. /\ AllEntries \subseteq AllEntries' /\ AllEntries' \subseteq AllEntries \cup {e}
        /\ \A d \in AllEntries : d # e /\ content'[d] = content[d]
    BY <2>2 DEF AllEntries
  <2>4. kind = "post" => SlugsDiffer'
    <3> SUFFICES ASSUME kind = "post", NEW c \in AllEntries', NEW d \in AllEntries',
                        content'[c].slug = content'[d].slug
                 PROVE  c = d
      BY DEF SlugsDiffer
    <3>1. \A b \in AllEntries : content[b].slug # row.slug
      BY <2>1, <2>3 DEF InsertedRow, Clashes
    <3> QED
      BY <1>s, <2>2, <2>3, <3>1 DEF SlugsDiffer
  <2>5. kind = "post" => \A d \in Entry : content'[d].words = content'[d].body
    BY <1>s, <2>1, <2>2
  <2>6. contentEdits' \in 0 .. MaxContentEdits /\ category' \in {"active", "hidden", "gone"}
    BY <1>0, <2>1 DEF InsertedRow
  <2>7. \A d \in AllEntries' :
          IF d \in AllEntries
          THEN content'[d].slug = content[d].slug /\ content'[d].on = content[d].on
          ELSE \A w \in Worker : contentTask[w].entry # d
    BY <2>1, <2>3 DEF InsertedRow
  <2>8. UNCHANGED <<kind, contentTask, contentRaced, contentCrashes>>
    BY <2>1 DEF InsertedRow
  <2> QED
    BY <2>2, <2>4, <2>5, <2>6, <2>7, <2>8, ContentMoves
<1>2. CASE OpenPage \/ OpenBanner \/ OpenCategory \/ OpenPost
  <2>1. PICK w \in Worker, e \in AllEntries, fields \in SUBSET Columns, s \in Slug, f \in Moments :
              /\ LoadedRow(w, e, Edited(content[e], fields, s, f), fields)
              /\ kind = "post" => SlugMayChange(content[e], Edited(content[e], fields, s, f), fields)
    BY <1>2, OpensAreLoads
  <2>2. e \in Entry /\ contentEdits < MaxContentEdits /\ content' = content
    BY <2>1 DEF AllEntries, LoadedRow
  <2>3. PICK row \in EntryRow : /\ row = Edited(content[e], fields, s, f)
                                /\ kind = "post" => row.words = row.body
    BY <1>s, <2>2, RowEdited
  <2>4. LoadedRow(w, e, row, fields) /\ (kind = "post" => SlugMayChange(content[e], row, fields))
    BY <2>1, <2>3
  <2>5. PublishedSlugStays
    BY <2>2 DEF PublishedSlugStays
  <2> QED
    BY <2>3, <2>4, <2>5, PublishingBegins
<1>3. CASE UpdatePage \/ UpdateBanner \/ UpdateCategory \/ UpdatePost
  BY <1>3, UpdatesAreSaves, PublishingSaves
<1>4. CASE DeletePage \/ DeleteBanner \/ DeleteCategory \/ DeleteTag \/ DeletePost
  <2>1. PICK e \in AllEntries :
           /\ content' = [content EXCEPT ![e] = NoEntry]
           /\ UNCHANGED <<kind, category, contentTask, contentEdits, contentRaced, contentCrashes>>
    BY <1>4 DEF DeletePage, DeleteBanner, DeleteCategory, DeleteTag, DeletePost, Delete
  <2>2. /\ content' \in [Entry -> EntryRow] /\ content'[e] = NoEntry /\ e \in Entry
        /\ \A d \in Entry \ {e} : content'[d] = content[d]
    BY <1>0, <2>1, IdleContentTask DEF AllEntries
  <2>3. AllEntries' = AllEntries \ {e} /\ \A d \in AllEntries \ {e} : content'[d] = content[d]
    BY <2>2, IdleContentTask DEF AllEntries
  <2>4. kind = "post" => SlugsDiffer' /\ \A d \in Entry : content'[d].words = content'[d].body
    BY <1>s, <2>2, <2>3, IdleContentTask DEF SlugsDiffer
  <2> QED
    BY <1>0, <2>1, <2>2, <2>3, <2>4, ContentMoves
<1>5. CASE CategoryChanges
  <2>1. /\ contentEdits < MaxContentEdits /\ contentEdits' = contentEdits + 1
        /\ category' \in {"active", "hidden", "gone"}
        /\ \/ content' = content
           \/ content' = [e \in Entry |-> [content[e] EXCEPT !.filed = FALSE]]
        /\ UNCHANGED <<kind, contentTask, contentRaced, contentCrashes>>
    BY <1>5 DEF CategoryChanges
  <2>2. /\ content' \in [Entry -> EntryRow]
        /\ \A e \in Entry : /\ content'[e].slug = content[e].slug /\ content'[e].on = content[e].on
                            /\ content'[e].body = content[e].body /\ content'[e].words = content[e].words
    <3>1. CASE content' = content
      BY <1>0, <3>1
    <3>2. CASE content' = [e \in Entry |-> [content[e] EXCEPT !.filed = FALSE]]
      <4>1. \A e \in Entry : [content[e] EXCEPT !.filed = FALSE] \in EntryRow
        BY <1>0 DEF EntryRow
      <4>2. content' \in [Entry -> EntryRow]
        BY <3>2, <4>1
      <4> QED
        BY <1>0, <3>2, <4>2 DEF EntryRow
    <3> QED
      BY <2>1, <3>1, <3>2
  <2>3. AllEntries' = AllEntries
    BY <2>2 DEF AllEntries
  <2>4. kind = "post" => SlugsDiffer' /\ \A d \in Entry : content'[d].words = content'[d].body
    BY <1>s, <2>2, <2>3 DEF SlugsDiffer, AllEntries
  <2>5. contentEdits' \in 0 .. MaxContentEdits
    BY <1>0, <2>1
  <2>6. \A e \in AllEntries' : content'[e].slug = content[e].slug /\ content'[e].on = content[e].on
    BY <2>2, <2>3 DEF AllEntries
  <2> QED
    BY <2>1, <2>2, <2>3, <2>4, <2>5, <2>6, ContentMoves
<1>6. CASE ContentClock
  <2>1. /\ contentEdits < MaxContentEdits /\ contentEdits' = contentEdits + 1
        /\ content' = [e \in Entry |->
                      [content[e] EXCEPT !.from = IF @ = "later" THEN "past" ELSE @,
                                         !.until = IF @ = "later" THEN "past" ELSE @]]
        /\ UNCHANGED <<kind, category, contentTask, contentRaced, contentCrashes>>
    BY <1>6 DEF ContentClock
  <2>2. \A e \in Entry :
           /\ content'[e] \in EntryRow
           /\ content'[e].slug = content[e].slug /\ content'[e].on = content[e].on
           /\ content'[e].body = content[e].body /\ content'[e].words = content[e].words
    <3> SUFFICES ASSUME NEW e \in Entry
                 PROVE  /\ content'[e] \in EntryRow
                        /\ content'[e].slug = content[e].slug /\ content'[e].on = content[e].on
                        /\ content'[e].body = content[e].body /\ content'[e].words = content[e].words
      OBVIOUS
    <3>1. content'[e] = [content[e] EXCEPT !.from = IF @ = "later" THEN "past" ELSE @,
                                           !.until = IF @ = "later" THEN "past" ELSE @]
      BY <2>1
    <3>2. content[e] \in EntryRow
      BY <1>0
    <3> QED
      BY <3>1, <3>2 DEF EntryRow, Moments
  <2>3. AllEntries' = AllEntries
    BY <2>2 DEF AllEntries
  <2>4. kind = "post" => SlugsDiffer' /\ \A d \in Entry : content'[d].words = content'[d].body
    BY <1>s, <2>2, <2>3 DEF SlugsDiffer, AllEntries
  <2>5. contentEdits' \in 0 .. MaxContentEdits /\ content' \in [Entry -> EntryRow]
    <3>1. content' = [e \in Entry |-> content'[e]]
      BY <2>1
    <3>2. content' \in [Entry -> EntryRow]
      BY <2>2, <3>1
    <3>3. contentEdits < MaxContentEdits /\ contentEdits' = contentEdits + 1
      BY <2>1
    <3>4. contentEdits' \in 0 .. MaxContentEdits
      BY <1>0, <3>3
    <3> QED
      BY <3>2, <3>4
  <2>6. \A e \in AllEntries' : content'[e].slug = content[e].slug /\ content'[e].on = content[e].on
    BY <2>2, <2>3 DEF AllEntries
  <2> QED
    BY <1>0, <2>1, <2>3, <2>4, <2>5, <2>6, ContentMoves
<1>7. CASE ContentCrash
  <2>1. PICK w \in Worker :
        /\ contentCrashes' = contentCrashes + 1
        /\ contentTask' = [contentTask EXCEPT ![w] = NoContentTask]
        /\ UNCHANGED <<kind, content, category, contentEdits, contentRaced>>
    BY <1>7 DEF ContentCrash
  <2>2. kind = "post" => SlugsDiffer' /\ \A d \in Entry : content'[d].words = content'[d].body
    BY <1>s, <2>1 DEF SlugsDiffer, AllEntries
  <2>3. contentCrashes' \in Nat /\ content' \in [Entry -> EntryRow]
    BY <1>0, <2>1
  <2>4. PublishedSlugStays
    BY <2>1 DEF PublishedSlugStays
  <2> QED
    BY <2>1, <2>2, <2>3, <2>4, PublishingEnds
<1>8. CASE UNCHANGED contentVars
  BY <1>8 DEF contentVars, PublishingInv, PublishingTypeOK, TasksHaveEntry, StatsOfText, SlugsDiffer,
              SlugLocked, AllEntries, PublishedSlugStays
<1> QED
  BY <1>1, <1>2, <1>3, <1>4, <1>5, <1>6, <1>7, <1>8 DEF PublishingNext

\* What the reads of the blog advertise is what is served: it follows from the slugs
\* being different and the stats being those of the text.
LEMMA BlogFollows == PublishingInv => BlogAgrees
<1> SUFFICES ASSUME PublishingInv, kind = "post" PROVE BlogAgrees
  BY DEF BlogAgrees
<1>1. StatsOfText /\ SlugsDiffer /\ AllEntries \subseteq Entry
  BY DEF PublishingInv, AllEntries
<1>2. \A e \in AllEntries : content[e].words = content[e].body
  BY <1>1 DEF StatsOfText
<1>3. InSitemap = InFeed
  BY DEF InSitemap, InFeed, Listed
<1>4. \A e \in InSitemap : ServedAt(content[e].slug) = {e} /\ ~content[e].noindex
  BY <1>1 DEF InSitemap, ServedAt, SlugsDiffer
<1>5. \A e \in Listed(TRUE) : RelatedTo(e) \cup {e} = Listed(TRUE)
  BY DEF Listed, RelatedTo
<1>6. category = "active" => CountedUnder(category) = ListedUnder(category)
  BY DEF CountedUnder, ListedUnder, Listed
<1> QED
  BY <1>2, <1>3, <1>4, <1>5, <1>6 DEF BlogAgrees

\* The types of the variables.
THEOREM PublishingTypes == PublishingSpec => []PublishingTypeOK
<1>1. PublishingInv => PublishingTypeOK
  BY DEF PublishingInv
<1> QED
  BY PublishingStart, PublishingStepKeeps, <1>1, PTL DEF PublishingSpec

\* BlogAgrees: a post shows the reading stats of its text, and what the sitemap and
\* the feed advertise is served at its address (update_blog_post, apps/content).
THEOREM BlogReadsAgree == PublishingSpec => []BlogAgrees
  BY PublishingStart, PublishingStepKeeps, BlogFollows, PTL DEF PublishingSpec

\* PublishedSlugStays: the slug of a post that stays published never changes, unless
\* two requests overlapped (the lock of update_blog_post).
THEOREM PublishedSlugsStay == PublishingSpec => [][PublishedSlugStays]_contentVars
  BY PublishingStart, PublishingStepKeeps, PTL DEF PublishingSpec

-----------------------------------------------------------------------------
(***************************************************************************)
(* Prices, totals and refunds.                                             *)
(***************************************************************************)
OrderLine == [total : Nat, tax : Nat, refund : Nat]
OrderBill == [kind : {"order"}, lines : [1 .. 2 -> OrderLine], fee : Nat, shippingTax : Nat,
              grand : Nat]

\* No line is refunded more than it cost with its tax, and what is collected is
\* the lines, the delivery and the taxes.
OrderAddsUp ==
    /\ bill \in OrderBill
    /\ \A i \in 1 .. 2 : bill.lines[i].refund <= LineRefundBase(bill.lines[i])
    /\ bill.grand = LineRefundBase(bill.lines[1]) + LineRefundBase(bill.lines[2])
                    + bill.fee + bill.shippingTax

PricingInv == /\ bill.kind \in {"none", "product", "bundle", "order"}
              /\ bill.kind # "order" => MoneyAddsUp
              /\ bill.kind = "order" => OrderAddsUp
-----------------------------------------------------------------------------
\* A number of hundredths rounds to no more than the whole it is a part of,
\* half up or half even.
LEMMA HalfUpWithin ==
    ASSUME NEW n \in Nat, NEW k \in Nat, n <= k * 100
    PROVE  HalfUp(n, 100) \in Nat /\ HalfUp(n, 100) <= k
<1>1. PICK q \in Int : q = (2 * n + 100) \div 200
  OBVIOUS
<1>2. 200 * q <= 2 * n + 100 /\ 2 * n + 100 < 200 * q + 200
  BY <1>1
<1>3. HalfUp(n, 100) = q
  BY <1>1 DEF HalfUp
<1>4. q \in Nat /\ q <= k
  BY <1>2
<1> QED
  BY <1>3, <1>4

\* A share of at most a whole hundred, rounded to the nearest, is at most the whole.
LEMMA HalfEvenWithin ==
    ASSUME NEW n \in Nat, NEW k \in Nat, n <= k * 100
    PROVE  HalfEven(n, 100) \in Nat /\ HalfEven(n, 100) <= k
<1>1. PICK q \in Int, r \in Int : q = n \div 100 /\ r = n % 100
  OBVIOUS
<1>2. n = 100 * q + r /\ 0 <= r /\ r < 100
  BY <1>1
<1>3. q \in Nat /\ q <= k /\ (r > 0 => q + 1 <= k)
  BY <1>2
<1>4. HalfEven(n, 100) = q \/ (HalfEven(n, 100) = q + 1 /\ r > 0)
  BY <1>1, <1>2 DEF HalfEven
<1> QED
  BY <1>3, <1>4

\* A share of an amount, in hundredths.
LEMMA ShareWithin ==
    ASSUME NEW p \in Nat, NEW v \in 0 .. 100
    PROVE  p * v \in Nat /\ p * v <= p * 100 /\ p * (100 - v) \in Nat /\ p * (100 - v) <= p * 100
<1>1. PICK u \in Nat : u = 100 - v
  OBVIOUS
<1>2. \A a \in Nat, b \in Nat : a * b \in Nat
  OBVIOUS
<1>3. p * v + p * u = p * 100
  <2>1. v + u = 100
    BY <1>1
  <2>2. p * (v + u) = p * v + p * u
    BY <1>1
  <2> QED
    BY <2>1, <2>2
<1>4. p * v \in Nat /\ p * u \in Nat
  BY <1>2
<1> QED
  BY <1>1, <1>3, <1>4

\* What is drawn is what the code stores: amounts are not negative.
LEMMA PricingRanges ==
    /\ \A p \in Price : p \in Nat
    /\ \A v \in Percent : v \in 0 .. 100
    /\ \A r \in Rate : r \in 0 .. 100
    /\ OverPercent \in Nat
  BY PricingAssumption

\* A discount leaves between nothing and the price.
LEMMA DiscountWithin ==
    ASSUME NEW p \in Nat, NEW cut \in Cuts
    PROVE  ApplyDiscount(p, cut) \in Nat /\ ApplyDiscount(p, cut) <= p
<1>1. CASE cut.type = "percent"
  <2>1. cut.value \in 0 .. 100
    BY <1>1, PricingRanges DEF Cuts
  <2>2. PICK n \in Nat : n = p * (100 - cut.value) /\ n <= p * 100
    BY <2>1, ShareWithin
  <2> QED
    BY <1>1, <2>2, HalfUpWithin DEF ApplyDiscount
<1>2. CASE cut.type # "percent"
  <2>1. cut.value \in Nat
    BY <1>2, PricingRanges DEF Cuts
  <2> QED
    BY <1>2, <2>1 DEF ApplyDiscount, Least
<1> QED
  BY <1>1, <1>2

\* Without a discount the price is the price.
LEMMA NoCutKeeps == ASSUME NEW p \in Nat PROVE ApplyDiscount(p, NoCut) = p
  BY DEF ApplyDiscount, NoCut, Least

\* A coupon takes between nothing and the discounted price.
LEMMA CouponWithin ==
    ASSUME NEW d \in Nat, NEW base \in Nat, NEW coupon \in Coupons
    PROVE  CouponAdjustment(d, base, coupon) \in Nat /\ CouponAdjustment(d, base, coupon) <= d
<1>1. CASE coupon.type = "free_shipping" \/ (d < base /\ ~coupon.stackable)
  BY <1>1 DEF CouponAdjustment
<1>2. CASE /\ ~(coupon.type = "free_shipping" \/ (d < base /\ ~coupon.stackable))
           /\ coupon.type = "percent"
  <2>1. coupon.value \in Nat
    BY <1>2, PricingRanges DEF Coupons
  <2>2. d * coupon.value \in Nat
    BY <2>1
  <2>3. PICK n \in Nat : n = Least(d * coupon.value, d * 100) /\ n <= d * 100
    BY <2>2 DEF Least
  <2>4. CouponAdjustment(d, base, coupon) = HalfUp(n, 100)
    BY <1>2, <2>3 DEF CouponAdjustment
  <2> QED
    BY <2>3, <2>4, HalfUpWithin
<1>3. CASE /\ ~(coupon.type = "free_shipping" \/ (d < base /\ ~coupon.stackable))
           /\ coupon.type # "percent"
  <2>1. coupon.value \in Nat
    BY <1>3, PricingRanges DEF Coupons
  <2>2. CouponAdjustment(d, base, coupon) = Least(coupon.value, d)
    BY <1>3 DEF CouponAdjustment
  <2> QED
    BY <2>1, <2>2 DEF Least
<1> QED
  BY <1>1, <1>2, <1>3

\* A bundle's discount takes between nothing and what its items cost.
LEMMA BundleDiscountWithin ==
    ASSUME NEW total \in Nat, NEW cut \in Cuts
    PROVE  BundleDiscount(cut, total) \in Nat /\ BundleDiscount(cut, total) <= total
<1>1. CASE cut.type = "percent"
  <2>1. cut.value \in 0 .. 100
    BY <1>1, PricingRanges DEF Cuts
  <2>2. PICK n \in Nat : n = Least(total * cut.value, total * 100) /\ n <= total * 100
    BY <2>1, ShareWithin DEF Least
  <2> QED
    BY <1>1, <2>2, HalfEvenWithin DEF BundleDiscount
<1>2. CASE cut.type # "percent"
  <2>1. cut.value \in Nat
    BY <1>2, PricingRanges DEF Cuts
  <2> QED
    BY <1>2, <2>1 DEF BundleDiscount, Least
<1> QED
  BY <1>1, <1>2

\* The tax on an amount is at most the amount.
LEMMA TaxWithin ==
    ASSUME NEW a \in Nat, NEW r \in 0 .. 100 PROVE TaxOn(a, r) \in Nat
<1>1. PICK n \in Nat : n = a * r /\ n <= a * 100
  BY ShareWithin
<1> QED
  BY <1>1, HalfUpWithin DEF TaxOn
-----------------------------------------------------------------------------
\* One bill after another.
LEMMA ProductPriced == ASSUME PriceProduct PROVE PricingInv'
<1>1. PICK base \in Price, cut \in Cuts, coupon \in Coupons :
        LET discounted == ApplyDiscount(base, cut)
            savings == CouponAdjustment(discounted, base, coupon)
        IN bill' = [kind |-> "product", base |-> base, discounted |-> discounted,
                    price |-> discounted - savings, coupon |-> savings]
  BY DEF PriceProduct
<1>2. base \in Nat
  BY PricingRanges
<1>3. PICK d \in Nat : d = ApplyDiscount(base, cut) /\ d <= base
  BY <1>2, DiscountWithin
<1>4. PICK s \in Nat : s = CouponAdjustment(d, base, coupon) /\ s <= d
  BY <1>2, CouponWithin
<1>5. /\ bill'.kind = "product" /\ bill'.base = base /\ bill'.discounted = d
      /\ bill'.price = d - s /\ bill'.coupon = s
  BY <1>1, <1>3, <1>4
<1> QED
  BY <1>2, <1>3, <1>4, <1>5 DEF PricingInv, MoneyAddsUp

\* What a bundle shows adds up.
LEMMA BundlePriced == ASSUME PriceBundle PROVE PricingInv'
<1>1. PICK p1 \in Price, p2 \in Price, n \in 1 .. 2, cut \in Cuts, own \in Cuts :
        LET regular == p1 * n + p2
            effective == ApplyDiscount(p1, own) * n + ApplyDiscount(p2, NoCut)
            discount == BundleDiscount(cut, effective)
        IN bill' = [kind |-> "bundle", regular |-> regular, effective |-> effective,
                    discount |-> discount, price |-> effective - discount]
  BY DEF PriceBundle
<1>2. p1 \in Nat /\ p2 \in Nat
  BY PricingRanges
<1>3. PICK d \in Nat : d = ApplyDiscount(p1, own) /\ d <= p1
  BY <1>2, DiscountWithin
<1>4. PICK e \in Nat, r \in Nat : e = d * n + p2 /\ r = p1 * n + p2 /\ e <= r
  <2>1. CASE n = 1
    BY <1>2, <1>3, <2>1
  <2>2. CASE n = 2
    BY <1>2, <1>3, <2>2
  <2> QED
    BY <2>1, <2>2
<1>5. PICK c \in Nat : c = BundleDiscount(cut, e) /\ c <= e
  BY <1>4, BundleDiscountWithin
<1>6. /\ bill'.kind = "bundle" /\ bill'.regular = r /\ bill'.effective = e
      /\ bill'.discount = c /\ bill'.price = e - c
  BY <1>1, <1>2, <1>3, <1>4, <1>5, NoCutKeeps
<1> QED
  BY <1>4, <1>5, <1>6 DEF PricingInv, MoneyAddsUp

\* A placed order adds up.
LEMMA OrderPlaced == ASSUME PlaceOrder PROVE PricingInv'
<1>1. PICK p1 \in Price, p2 \in Price, n \in 1 .. 2, rate \in Rate, fee \in Price, vatable \in BOOLEAN :
        LET Line(p, q, r) == [total |-> p * q, tax |-> TaxOn(p * q, r), refund |-> 0]
            lines == <<Line(p1, n, rate), Line(p2, 1, 0)>>
            shippingTax == IF vatable THEN TaxOn(fee, rate) ELSE 0
        IN bill' = [kind |-> "order", lines |-> lines, fee |-> fee, shippingTax |-> shippingTax,
                    grand |-> Total(lines, LAMBDA x : x.total) + fee + shippingTax
                              + Total(lines, LAMBDA x : x.tax)]
  BY DEF PlaceOrder
<1>2. p1 \in Nat /\ p2 \in Nat /\ fee \in Nat /\ rate \in 0 .. 100 /\ 0 \in 0 .. 100
  BY PricingRanges
<1>3. PICK t1 \in Nat, t2 \in Nat : t1 = p1 * n /\ t2 = p2 * 1
  BY <1>2
<1>4. PICK x1 \in Nat, x2 \in Nat, xs \in Nat :
        x1 = TaxOn(t1, rate) /\ x2 = TaxOn(t2, 0) /\ xs = IF vatable THEN TaxOn(fee, rate) ELSE 0
  BY <1>2, TaxWithin
<1>5. PICK l1 \in OrderLine, l2 \in OrderLine :
        l1 = [total |-> t1, tax |-> x1, refund |-> 0] /\ l2 = [total |-> t2, tax |-> x2, refund |-> 0]
  BY DEF OrderLine
<1>6. /\ l1.total = t1 /\ l1.tax = x1 /\ l1.refund = 0
      /\ l2.total = t2 /\ l2.tax = x2 /\ l2.refund = 0
  BY <1>5
<1>7. PICK g \in Nat : g = (t1 + t2) + fee + xs + (x1 + x2)
  BY <1>2
<1>8. bill' = [kind |-> "order", lines |-> <<l1, l2>>, fee |-> fee, shippingTax |-> xs, grand |-> g]
  <2>1. bill' = [kind |-> "order", lines |-> <<l1, l2>>, fee |-> fee, shippingTax |-> xs,
                 grand |-> Total(<<l1, l2>>, LAMBDA x : x.total) + fee + xs
                              + Total(<<l1, l2>>, LAMBDA x : x.tax)]
    BY <1>1, <1>3, <1>4, <1>5
  <2>2. /\ Total(<<l1, l2>>, LAMBDA x : x.total) = t1 + t2
        /\ Total(<<l1, l2>>, LAMBDA x : x.tax) = x1 + x2
    BY <1>6 DEF Total
  <2> QED
    BY <1>7, <2>1, <2>2
<1>9. <<l1, l2>> \in [1 .. 2 -> OrderLine] /\ <<l1, l2>>[1] = l1 /\ <<l1, l2>>[2] = l2
  OBVIOUS
<1>10. bill' \in OrderBill
  BY <1>2, <1>8, <1>9 DEF OrderBill
<1>11. /\ bill'.kind = "order" /\ bill'.lines[1] = l1 /\ bill'.lines[2] = l2
       /\ bill'.fee = fee /\ bill'.shippingTax = xs /\ bill'.grand = g
  BY <1>8, <1>9
<1>12. /\ \A i \in 1 .. 2 : bill'.lines[i].refund <= LineRefundBase(bill'.lines[i])
       /\ bill'.grand = LineRefundBase(bill'.lines[1]) + LineRefundBase(bill'.lines[2])
                        + bill'.fee + bill'.shippingTax
  <2>1. \A i \in 1 .. 2 : i = 1 \/ i = 2
    OBVIOUS
  <2> QED
    BY <1>2, <1>6, <1>7, <1>11, <2>1 DEF LineRefundBase
<1> QED
  BY <1>10, <1>11, <1>12 DEF PricingInv, OrderAddsUp, LineRefundBase

\* A refund keeps the order adding up: it is of what the lines have left.
LEMMA RefundApproved == ASSUME OrderAddsUp, ApproveRefund PROVE PricingInv'
<1>1. bill \in OrderBill /\ bill.lines \in [1 .. 2 -> OrderLine] /\ DOMAIN bill.lines = 1 .. 2
      /\ bill.grand \in Nat
  BY DEF OrderAddsUp, OrderBill
<1>2. PICK i \in 1 .. 2, percent \in Percent, ask \in Price \cup {None} :
        LET base == LineRefundBase(bill.lines[i])
            fee == HalfEven(base * percent, 100)
            eligible == Least(base - fee, bill.grand)
            refund == IF ask = None THEN eligible ELSE Least(ask, eligible)
        IN /\ bill.lines[i].refund = 0 /\ fee <= base /\ refund > 0
           /\ bill' = [bill EXCEPT !.lines[i].refund = refund]
  BY <1>1 DEF ApproveRefund
<1>3. PICK base \in Nat : base = LineRefundBase(bill.lines[i])
  BY <1>1 DEF LineRefundBase, OrderLine
<1>4. PICK fee \in Nat : fee = HalfEven(base * percent, 100) /\ fee <= base
  <2>1. PICK n \in Nat : n = base * percent /\ n <= base * 100
    BY ShareWithin, PricingRanges
  <2> QED
    BY <2>1, HalfEvenWithin
<1>5. PICK eligible \in Nat : eligible = Least(base - fee, bill.grand) /\ eligible <= base
  BY <1>1, <1>4 DEF Least
<1>6. PICK refund \in Nat :
        refund = (IF ask = None THEN eligible ELSE Least(ask, eligible)) /\ refund <= base
  BY <1>5, PricingRanges DEF Least
<1>7. bill' = [bill EXCEPT !.lines[i].refund = refund]
  BY <1>2, <1>3, <1>4, <1>5, <1>6
<1>8. /\ bill' \in OrderBill /\ bill'.kind = "order" /\ bill'.fee = bill.fee
      /\ bill'.shippingTax = bill.shippingTax /\ bill'.grand = bill.grand
      /\ bill'.lines[i].refund = refund
      /\ bill'.lines[i].total = bill.lines[i].total /\ bill'.lines[i].tax = bill.lines[i].tax
      /\ \A j \in 1 .. 2 : j # i => bill'.lines[j] = bill.lines[j]
  BY <1>1, <1>7 DEF OrderBill, OrderLine
<1>9. \A j \in 1 .. 2 : LineRefundBase(bill'.lines[j]) = LineRefundBase(bill.lines[j])
  BY <1>8 DEF LineRefundBase
<1>10. \A j \in 1 .. 2 : bill'.lines[j].refund <= LineRefundBase(bill'.lines[j])
  BY <1>3, <1>6, <1>8, <1>9 DEF OrderAddsUp
<1> QED
  BY <1>8, <1>9, <1>10 DEF PricingInv, OrderAddsUp, LineRefundBase

\* Nothing is priced at the start.
LEMMA PricingStart == PricingInit => PricingInv
  BY DEF PricingInit, PricingInv, MoneyAddsUp

\* Whatever is priced next adds up.
LEMMA PricingStepKeeps == PricingInv /\ [PricingNext]_bill => PricingInv'
<1> SUFFICES ASSUME PricingInv, [PricingNext]_bill PROVE PricingInv'
  OBVIOUS
<1>1. CASE UNCHANGED bill
  BY <1>1 DEF PricingInv, MoneyAddsUp, OrderAddsUp
<1> QED
  BY <1>1, ProductPriced, BundlePriced, OrderPlaced, RefundApproved DEF PricingNext, PricingInv

\* Bills that are kept as the invariant says add up.
LEMMA MoneyFollows == PricingInv => MoneyAddsUp
<1> SUFFICES ASSUME PricingInv, bill.kind = "order" PROVE MoneyAddsUp
  BY DEF PricingInv
<1>1. /\ bill.lines[1] \in OrderLine /\ bill.lines[2] \in OrderLine
      /\ bill.fee \in Nat /\ bill.shippingTax \in Nat /\ bill.grand \in Nat
  BY DEF PricingInv, OrderAddsUp, OrderBill
<1>2. Total(bill.lines, LAMBDA x : x.refund) = bill.lines[1].refund + bill.lines[2].refund
  BY DEF Total
<1>3. bill.lines[1].refund + bill.lines[2].refund <= bill.grand - bill.fee - bill.shippingTax
  BY <1>1 DEF PricingInv, OrderAddsUp, LineRefundBase, OrderLine
<1> QED
  BY <1>2, <1>3 DEF MoneyAddsUp
-----------------------------------------------------------------------------
\* Prices, discounts and coupons of every amount, and every sequence of refunds
\* of an order's lines, add up.
THEOREM MoneyAlwaysAddsUp == PricingSpec => []MoneyAddsUp
  BY PricingStart, PricingStepKeeps, MoneyFollows, PTL DEF PricingSpec

-----------------------------------------------------------------------------
(***************************************************************************)
(* Reports of the dashboard.                                               *)
(***************************************************************************)
\* How many queries each report runs.
QueryCount == [sales |-> 5, salesReport |-> 3, summary |-> 6, cod |-> 4, bundles |-> 3,
               orderAlerts |-> 4, inquiries |-> 4, inquiryAlerts |-> 2, stock |-> 5, products |-> 4,
               collections |-> 4, promotions |-> 2, returns |-> 5, support |-> 7,
               notifications |-> 2]

\* A report that is not through has the answers of the table as it is, unless a
\* write came between.
ReportsInv ==
    /\ ReportsTypeOK /\ \E S : answers \in Seq(S)
    /\ ~crossed /\ ~Answered => \A i \in 1 .. Len(answers) : answers[i] = Queries[i]
    /\ ReportsReconcile
-----------------------------------------------------------------------------
\* The groups of some rows are those rows.
LEMMA GroupsCover ==
    ASSUME NEW column, NEW rows
    PROVE  /\ Rows(By(column, rows)) = rows
           /\ \A values : RowsOf(By(column, rows), values) = {r \in rows : table[r][column] \in values}
<1>1. \A g \in By(column, rows) : g.rows \subseteq rows /\ \A r \in g.rows : table[r][column] = g.value
  <2> SUFFICES ASSUME NEW g \in By(column, rows)
               PROVE  g.rows \subseteq rows /\ \A r \in g.rows : table[r][column] = g.value
    OBVIOUS
  <2>1. PICK v \in {table[r][column] : r \in rows} :
            g = [value |-> v, rows |-> {r \in rows : table[r][column] = v}]
    BY DEF By
  <2>2. g.value = v /\ g.rows = {r \in rows : table[r][column] = v}
    BY <2>1
  <2> QED
    BY <2>2
<1>2. \A r \in rows : \E g \in By(column, rows) : g.value = table[r][column] /\ r \in g.rows
  <2> SUFFICES ASSUME NEW r \in rows
               PROVE  \E g \in By(column, rows) : g.value = table[r][column] /\ r \in g.rows
    OBVIOUS
  <2>1. PICK v : v = table[r][column]
    OBVIOUS
  <2>2. PICK g : g = [value |-> v, rows |-> {q \in rows : table[q][column] = v}]
    OBVIOUS
  <2>3. g \in By(column, rows)
    BY <2>1, <2>2, Zenon DEF By
  <2>4. g.value = v /\ r \in g.rows
    BY <2>1, <2>2
  <2> QED
    BY <2>1, <2>3, <2>4
<1>3. Rows(By(column, rows)) = rows
  BY <1>1, <1>2 DEF Rows
<1>4. ASSUME NEW values
      PROVE  RowsOf(By(column, rows), values) = {r \in rows : table[r][column] \in values}
  BY <1>1, <1>2 DEF RowsOf
<1> QED
  BY <1>3, <1>4

\* What each report's queries answer, one by one, and what they have in common.
LEMMA QueriesOfSales ==
    about = "sales" =>
        /\ Len(Queries) = 5
        /\ Queries[1] = Being({"delivered"}) \cap During
        /\ Queries[2] = Kept \cap During
        /\ Queries[3] = Being({"cancelled", "refunded"}) \cap During
        /\ Queries[4] = By("status", During)
        /\ Queries[5] = By("group", During)
  BY DEF Queries, SalesDashboard, SalesSummary, OrdersByStatus, OrdersBySource

\* The sales figures reconcile with one state of the table.
LEMMA SalesReconcile ==
    ASSUME about = "sales", NEW a, \A i \in 1 .. 5 : a[i] = Queries[i]
    PROVE  Reconciled(a)
<1>1. /\ a[1] = Being({"delivered"}) \cap During
      /\ a[2] = Kept \cap During
      /\ a[3] = Being({"cancelled", "refunded"}) \cap During
      /\ a[4] = By("status", During)
      /\ a[5] = By("group", During)
  BY QueriesOfSales
<1>2. /\ Rows(a[4]) = During
      /\ Rows(a[5]) = During
      /\ RowsOf(a[4], {"delivered"}) = {r \in During : table[r].status \in {"delivered"}}
  BY <1>1, GroupsCover
<1>3. /\ Rows(a[4]) = Rows(a[5]) /\ Rows(a[4]) = a[2] \cup a[3] /\ a[2] \cap a[3] = {}
      /\ a[1] = RowsOf(a[4], {"delivered"}) /\ a[1] \subseteq a[2]
  BY <1>1, <1>2 DEF Kept, Being, During, Has, Recorded
<1> QED
  BY <1>3 DEF Reconciled

\* The queries of the sales report, one by one.
LEMMA QueriesOfSalesReport ==
    about = "salesReport" =>
        /\ Len(Queries) = 3
        /\ Queries[1] = Kept \cap During
        /\ Queries[2] = Being({"cancelled", "refunded"}) \cap During
        /\ Queries[3] = Kept \cap During
  BY DEF Queries, SalesSummary, SalesTimeseries

\* The figures of the sales report reconcile when one table answered every query.
LEMMA SalesReportReconcile ==
    ASSUME about = "salesReport", NEW a, \A i \in 1 .. 3 : a[i] = Queries[i]
    PROVE  Reconciled(a)
<1>1. /\ a[1] = Kept \cap During
      /\ a[2] = Being({"cancelled", "refunded"}) \cap During
      /\ a[3] = Kept \cap During
  BY QueriesOfSalesReport
<1>3. a[1] = a[3] /\ a[1] \cap a[2] = {}
  BY <1>1 DEF Kept, Being, During, Has, Recorded
<1> QED
  BY <1>3 DEF Reconciled

\* The queries of the summary, one by one.
LEMMA QueriesOfSummary ==
    about = "summary" =>
        /\ Len(Queries) = 6
        /\ Queries[1] = Kept \cap During
        /\ Queries[2] = Being({"cancelled", "refunded"}) \cap During
        /\ Queries[3] = By("status", During)
        /\ Queries[4] = By("group", During)
        /\ Queries[5] = Kept \cap During
        /\ Queries[6] = Kept \cap Has("coupon") \cap During
  BY DEF Queries, OrdersSummary, SalesSummary, OrdersByStatus, OrdersBySource, ProductPerformance, CouponSavings

\* The figures of the summary reconcile when one table answered every query.
LEMMA SummaryReconcile ==
    ASSUME about = "summary", NEW a, \A i \in 1 .. 6 : a[i] = Queries[i]
    PROVE  Reconciled(a)
<1>1. /\ a[1] = Kept \cap During
      /\ a[2] = Being({"cancelled", "refunded"}) \cap During
      /\ a[3] = By("status", During)
      /\ a[4] = By("group", During)
      /\ a[5] = Kept \cap During
      /\ a[6] = Kept \cap Has("coupon") \cap During
  BY QueriesOfSummary
<1>2. /\ Rows(a[3]) = During
      /\ Rows(a[4]) = During
  BY <1>1, GroupsCover
<1>3. /\ Rows(a[3]) = a[1] \cup a[2] /\ Rows(a[3]) = Rows(a[4])
      /\ a[5] = a[1] /\ a[6] \subseteq a[1]
  BY <1>1, <1>2 DEF Kept, Being, During, Has, Recorded
<1> QED
  BY <1>3 DEF Reconciled

\* The queries of the cash on delivery report, one by one.
LEMMA QueriesOfCod ==
    about = "cod" =>
        /\ Len(Queries) = 4
        /\ Queries[1] = Has("cod")
        /\ Queries[2] = Has("cod") \cap Being(OpenOrders)
        /\ Queries[3] = Has("cod") \cap Being({"delivered"})
        /\ Queries[4] = Has("cod") \cap Being({"delivery_failed"})
  BY DEF Queries, CodDashboard

\* The figures of the cash on delivery report reconcile when one table answered every query.
LEMMA CodReconcile ==
    ASSUME about = "cod", NEW a, \A i \in 1 .. 4 : a[i] = Queries[i]
    PROVE  Reconciled(a)
<1>1. /\ a[1] = Has("cod")
      /\ a[2] = Has("cod") \cap Being(OpenOrders)
      /\ a[3] = Has("cod") \cap Being({"delivered"})
      /\ a[4] = Has("cod") \cap Being({"delivery_failed"})
  BY QueriesOfCod
<1>3. /\ a[2] \cup a[3] \cup a[4] \subseteq a[1]
      /\ a[2] \cap a[3] = {} /\ (a[2] \cup a[3]) \cap a[4] = {}
  BY <1>1 DEF Kept, Being, During, Has, Recorded, OpenOrders
<1> QED
  BY <1>3 DEF Reconciled

\* The queries of the bundle report, one by one.
LEMMA QueriesOfBundles ==
    about = "bundles" =>
        /\ Len(Queries) = 3
        /\ Queries[1] = By("group", Kept \cap During)
        /\ Queries[2] = Kept \cap During
        /\ Queries[3] = Being({"cancelled", "refunded"}) \cap During
  BY DEF Queries, BundlesDashboard, SalesSummary

\* The figures of the bundle report reconcile when one table answered every query.
LEMMA BundlesReconcile ==
    ASSUME about = "bundles", NEW a, \A i \in 1 .. 3 : a[i] = Queries[i]
    PROVE  Reconciled(a)
<1>1. /\ a[1] = By("group", Kept \cap During)
      /\ a[2] = Kept \cap During
      /\ a[3] = Being({"cancelled", "refunded"}) \cap During
  BY QueriesOfBundles
<1>2. /\ Rows(a[1]) = Kept \cap During
  BY <1>1, GroupsCover
<1>3. Rows(a[1]) = a[2] /\ a[2] \cap a[3] = {}
  BY <1>1, <1>2 DEF Kept, Being, During, Has, Recorded
<1> QED
  BY <1>3 DEF Reconciled

\* The queries of the order alerts, one by one.
LEMMA QueriesOfOrderAlerts ==
    about = "orderAlerts" =>
        /\ Len(Queries) = 4
        /\ Queries[1] = Has("cod") \cap Being({"delivery_failed"})
        /\ Queries[2] = Has("cod") \cap Being({"delivery_failed"})
        /\ Queries[3] = Being({"pending"})
        /\ Queries[4] = Being({"pending"})
  BY DEF Queries, Alerts

\* The figures of the order alerts reconcile when one table answered every query.
LEMMA OrderAlertsReconcile ==
    ASSUME about = "orderAlerts", NEW a, \A i \in 1 .. 4 : a[i] = Queries[i]
    PROVE  Reconciled(a)
<1>1. /\ a[1] = Has("cod") \cap Being({"delivery_failed"})
      /\ a[2] = Has("cod") \cap Being({"delivery_failed"})
      /\ a[3] = Being({"pending"})
      /\ a[4] = Being({"pending"})
  BY QueriesOfOrderAlerts
<1>3. a[1] = a[2] /\ a[3] = a[4] /\ a[1] \cap a[3] = {}
  BY <1>1 DEF Kept, Being, During, Has, Recorded
<1> QED
  BY <1>3 DEF Reconciled

\* The queries of the inquiry report, one by one.
LEMMA QueriesOfInquiries ==
    about = "inquiries" =>
        /\ Len(Queries) = 4
        /\ Queries[1] = During
        /\ Queries[2] = By("group", During)
        /\ Queries[3] = By("status", During)
        /\ Queries[4] = Being({"converted"}) \cap During
  BY DEF Queries, InquiriesSummary

\* The figures of the inquiry report reconcile when one table answered every query.
LEMMA InquiriesReconcile ==
    ASSUME about = "inquiries", NEW a, \A i \in 1 .. 4 : a[i] = Queries[i]
    PROVE  Reconciled(a)
<1>1. /\ a[1] = During
      /\ a[2] = By("group", During)
      /\ a[3] = By("status", During)
      /\ a[4] = Being({"converted"}) \cap During
  BY QueriesOfInquiries
<1>2. /\ Rows(a[2]) = During
      /\ Rows(a[3]) = During
      /\ RowsOf(a[3], {"converted"}) = {r \in During : table[r].status \in {"converted"}}
  BY <1>1, GroupsCover
<1>3. /\ a[1] = Rows(a[2]) /\ a[1] = Rows(a[3])
      /\ a[4] = RowsOf(a[3], {"converted"})
  BY <1>1, <1>2 DEF Kept, Being, During, Has, Recorded
<1> QED
  BY <1>3 DEF Reconciled

\* The queries of the inquiry alerts, one by one.
LEMMA QueriesOfInquiryAlerts ==
    about = "inquiryAlerts" =>
        /\ Len(Queries) = 2
        /\ Queries[1] = Being({"new"}) \cap Has("old")
        /\ Queries[2] = Being({"new"}) \cap Has("old")
  BY DEF Queries, Alerts

\* The figures of the inquiry alerts reconcile when one table answered every query.
LEMMA InquiryAlertsReconcile ==
    ASSUME about = "inquiryAlerts", NEW a, \A i \in 1 .. 2 : a[i] = Queries[i]
    PROVE  Reconciled(a)
<1>1. /\ a[1] = Being({"new"}) \cap Has("old")
      /\ a[2] = Being({"new"}) \cap Has("old")
  BY QueriesOfInquiryAlerts
<1>3. a[1] = a[2]
  BY <1>1 DEF Kept, Being, During, Has, Recorded
<1> QED
  BY <1>3 DEF Reconciled

\* The queries of the stock report, one by one.
LEMMA QueriesOfStock ==
    about = "stock" =>
        /\ Len(Queries) = 5
        /\ Queries[1] = By("status", Has("active"))
        /\ Queries[2] = Has("active")
        /\ Queries[3] = Has("discontinued")
        /\ Queries[4] = Has("active") \cap Being({"out_of_stock"})
        /\ Queries[5] = Has("active") \cap Being({"low_stock"})
  BY DEF Queries, StockDashboard, Alerts

\* The figures of the stock report reconcile when one table answered every query.
LEMMA StockReconcile ==
    ASSUME about = "stock", NEW a, \A i \in 1 .. 5 : a[i] = Queries[i]
    PROVE  Reconciled(a)
<1>1. /\ a[1] = By("status", Has("active"))
      /\ a[2] = Has("active")
      /\ a[3] = Has("discontinued")
      /\ a[4] = Has("active") \cap Being({"out_of_stock"})
      /\ a[5] = Has("active") \cap Being({"low_stock"})
  BY QueriesOfStock
<1>2. /\ Rows(a[1]) = Has("active")
      /\ RowsOf(a[1], {"out_of_stock"}) = {r \in Has("active") : table[r].status \in {"out_of_stock"}}
      /\ RowsOf(a[1], {"low_stock"}) = {r \in Has("active") : table[r].status \in {"low_stock"}}
  BY <1>1, GroupsCover
<1>3. /\ Rows(a[1]) = a[2] /\ a[4] = RowsOf(a[1], {"out_of_stock"})
      /\ a[5] = RowsOf(a[1], {"low_stock"})
  BY <1>1, <1>2 DEF Kept, Being, During, Has, Recorded
<1> QED
  BY <1>3 DEF Reconciled

\* The queries of the product report, one by one.
LEMMA QueriesOfProducts ==
    about = "products" =>
        /\ Len(Queries) = 4
        /\ Queries[1] = Has("discontinued") \ Has("replaced")
        /\ Queries[2] = Has("active")
        /\ Queries[3] = Has("discontinued")
        /\ Queries[4] = Recorded
  BY DEF Queries, ProductsDashboard, CatalogueSummary

\* The figures of the product report reconcile when one table answered every query.
LEMMA ProductsReconcile ==
    ASSUME about = "products", NEW a, \A i \in 1 .. 4 : a[i] = Queries[i]
    PROVE  Reconciled(a)
<1>1. /\ a[1] = Has("discontinued") \ Has("replaced")
      /\ a[2] = Has("active")
      /\ a[3] = Has("discontinued")
      /\ a[4] = Recorded
  BY QueriesOfProducts
<1>3. a[1] \subseteq a[3] /\ a[2] \cup a[3] \subseteq a[4]
  BY <1>1 DEF Kept, Being, During, Has, Recorded
<1> QED
  BY <1>3 DEF Reconciled

\* The queries of the collections report, one by one.
LEMMA QueriesOfCollectionsReport ==
    about = "collections" =>
        /\ Len(Queries) = 4
        /\ Queries[1] = Recorded
        /\ Queries[2] = Recorded \ Being({"manual"})
        /\ Queries[3] = Being({"manual"})
        /\ Queries[4] = Being({"halfAnHour", "older"})
  BY DEF Queries, CollectionsDashboard, Alerts

\* The figures of the collections report reconcile when one table answered every query.
LEMMA CollectionsReportReconcile ==
    ASSUME about = "collections", NEW a, \A i \in 1 .. 4 : a[i] = Queries[i]
    PROVE  Reconciled(a)
<1>1. /\ a[1] = Recorded
      /\ a[2] = Recorded \ Being({"manual"})
      /\ a[3] = Being({"manual"})
      /\ a[4] = Being({"halfAnHour", "older"})
  BY QueriesOfCollectionsReport
<1>3. a[1] = a[2] \cup a[3] /\ a[2] \cap a[3] = {} /\ a[4] \subseteq a[2]
  BY <1>1 DEF Kept, Being, During, Has, Recorded
<1> QED
  BY <1>3 DEF Reconciled

\* The queries of the promotions report, one by one.
LEMMA QueriesOfPromotions ==
    about = "promotions" =>
        /\ Len(Queries) = 2
        /\ Queries[1] = Has("active") \cap Being({"endsSoon"})
        /\ Queries[2] = Has("active") \cap Being({"running", "endsSoon"})
  BY DEF Queries, PromotionsDashboard

\* The figures of the promotions report reconcile when one table answered every query.
LEMMA PromotionsReconcile ==
    ASSUME about = "promotions", NEW a, \A i \in 1 .. 2 : a[i] = Queries[i]
    PROVE  Reconciled(a)
<1>1. /\ a[1] = Has("active") \cap Being({"endsSoon"})
      /\ a[2] = Has("active") \cap Being({"running", "endsSoon"})
  BY QueriesOfPromotions
<1>3. a[1] \subseteq a[2]
  BY <1>1 DEF Kept, Being, During, Has, Recorded
<1> QED
  BY <1>3 DEF Reconciled

\* The queries of the returns report, one by one.
LEMMA QueriesOfReturnsReport ==
    about = "returns" =>
        /\ Len(Queries) = 5
        /\ Queries[1] = During \cap Being({"rejected", "refunded", "replaced", "closed"})
        /\ Queries[2] = Has("old") \cap Being({"requested", "approved", "item_received"})
        /\ Queries[3] = Being({"refunded"}) \cap During
        /\ Queries[4] = During
        /\ Queries[5] = Being({"refunded"}) \cap During
  BY DEF Queries, ReturnsDashboard, ReturnsSummary

\* The figures of the returns report reconcile when one table answered every query.
LEMMA ReturnsReportReconcile ==
    ASSUME about = "returns", NEW a, \A i \in 1 .. 5 : a[i] = Queries[i]
    PROVE  Reconciled(a)
<1>1. /\ a[1] = During \cap Being({"rejected", "refunded", "replaced", "closed"})
      /\ a[2] = Has("old") \cap Being({"requested", "approved", "item_received"})
      /\ a[3] = Being({"refunded"}) \cap During
      /\ a[4] = During
      /\ a[5] = Being({"refunded"}) \cap During
  BY QueriesOfReturnsReport
<1>3. /\ a[3] = a[5] /\ a[3] \subseteq a[1] /\ a[1] \subseteq a[4]
      /\ a[1] \cap a[2] = {}
  BY <1>1 DEF Kept, Being, During, Has, Recorded
<1> QED
  BY <1>3 DEF Reconciled

\* The queries of the support report, one by one.
LEMMA QueriesOfSupport ==
    about = "support" =>
        /\ Len(Queries) = 7
        /\ Queries[1] = Being({"open", "pending_customer"})
        /\ Queries[2] = Being({"resolved", "closed"}) \cap During
        /\ Queries[3] = Being({"open", "pending_customer"})
        /\ Queries[4] = By("status", During)
        /\ Queries[5] = By("group", During)
        /\ Queries[6] = During
        /\ Queries[7] = Being({"open", "pending_customer"}) \cap Has("old")
  BY DEF Queries, SupportDashboard, SupportSummary

\* The figures of the support report reconcile when one table answered every query.
LEMMA SupportReconcile ==
    ASSUME about = "support", NEW a, \A i \in 1 .. 7 : a[i] = Queries[i],
           \A r \in Recorded : table[r].status \in {"open", "pending_customer", "resolved", "closed"}
    PROVE  Reconciled(a)
<1>1. /\ a[1] = Being({"open", "pending_customer"})
      /\ a[2] = Being({"resolved", "closed"}) \cap During
      /\ a[3] = Being({"open", "pending_customer"})
      /\ a[4] = By("status", During)
      /\ a[5] = By("group", During)
      /\ a[6] = During
      /\ a[7] = Being({"open", "pending_customer"}) \cap Has("old")
  BY QueriesOfSupport
<1>2. /\ Rows(a[4]) = During
      /\ Rows(a[5]) = During
      /\ RowsOf(a[4], {"resolved", "closed"}) = {r \in During : table[r].status \in {"resolved", "closed"}}
  BY <1>1, GroupsCover
<1>3. /\ a[1] = a[3] /\ a[7] \subseteq a[1] /\ a[6] = Rows(a[4])
      /\ Rows(a[4]) = Rows(a[5])
      /\ a[2] = RowsOf(a[4], {"resolved", "closed"})
      /\ a[6] \subseteq a[2] \cup a[3]
  BY <1>1, <1>2 DEF Kept, Being, During, Has, Recorded
<1> QED
  BY <1>3 DEF Reconciled

\* The queries of the notifications report, one by one.
LEMMA QueriesOfNotificationsReport ==
    about = "notifications" =>
        /\ Len(Queries) = 2
        /\ Queries[1] = During
        /\ Queries[2] = Being({"failed"}) \cap During
  BY DEF Queries, NotificationsSummary

\* The figures of the notifications report reconcile when one table answered every query.
LEMMA NotificationsReportReconcile ==
    ASSUME about = "notifications", NEW a, \A i \in 1 .. 2 : a[i] = Queries[i]
    PROVE  Reconciled(a)
<1>1. /\ a[1] = During
      /\ a[2] = Being({"failed"}) \cap During
  BY QueriesOfNotificationsReport
<1>3. a[2] \subseteq a[1]
  BY <1>1 DEF Kept, Being, During, Has, Recorded
<1> QED
  BY <1>3 DEF Reconciled

\* How many queries a report runs does not depend on the table.
LEMMA QueriesCounted ==
    about \in DOMAIN TableOf => Len(Queries) = QueryCount[about] /\ Len(Queries) \in 1 .. 7
<1> SUFFICES ASSUME about \in DOMAIN TableOf
             PROVE  Len(Queries) = QueryCount[about] /\ Len(Queries) \in 1 .. 7
  OBVIOUS
<1>1. about \in {"sales", "salesReport", "summary", "cod", "bundles", "orderAlerts", "inquiries",
                 "inquiryAlerts", "stock", "products", "collections", "promotions", "returns",
                 "support", "notifications"}
  BY DEF TableOf
<1>2. CASE about = "sales"
  BY <1>2, QueriesOfSales DEF QueryCount
<1>3. CASE about = "salesReport"
  BY <1>3, QueriesOfSalesReport DEF QueryCount
<1>4. CASE about = "summary"
  BY <1>4, QueriesOfSummary DEF QueryCount
<1>5. CASE about = "cod"
  BY <1>5, QueriesOfCod DEF QueryCount
<1>6. CASE about = "bundles"
  BY <1>6, QueriesOfBundles DEF QueryCount
<1>7. CASE about = "orderAlerts"
  BY <1>7, QueriesOfOrderAlerts DEF QueryCount
<1>8. CASE about = "inquiries"
  BY <1>8, QueriesOfInquiries DEF QueryCount
<1>9. CASE about = "inquiryAlerts"
  BY <1>9, QueriesOfInquiryAlerts DEF QueryCount
<1>10. CASE about = "stock"
  BY <1>10, QueriesOfStock DEF QueryCount
<1>11. CASE about = "products"
  BY <1>11, QueriesOfProducts DEF QueryCount
<1>12. CASE about = "collections"
  BY <1>12, QueriesOfCollectionsReport DEF QueryCount
<1>13. CASE about = "promotions"
  BY <1>13, QueriesOfPromotions DEF QueryCount
<1>14. CASE about = "returns"
  BY <1>14, QueriesOfReturnsReport DEF QueryCount
<1>15. CASE about = "support"
  BY <1>15, QueriesOfSupport DEF QueryCount
<1>16. CASE about = "notifications"
  BY <1>16, QueriesOfNotificationsReport DEF QueryCount
<1> QED
  BY <1>1, <1>2, <1>3, <1>4, <1>5, <1>6, <1>7, <1>8, <1>9, <1>10, <1>11, <1>12, <1>13, <1>14, <1>15, <1>16

\* The answers of one table reconcile.
LEMMA QueriesReconcile ==
    ASSUME ReportsTypeOK, NEW a, \A i \in 1 .. Len(Queries) : a[i] = Queries[i]
    PROVE  Reconciled(a)
<1>0. about \in {"sales", "salesReport", "summary", "cod", "bundles", "orderAlerts", "inquiries",
                 "inquiryAlerts", "stock", "products", "collections", "promotions", "returns",
                 "support", "notifications"}
  BY DEF ReportsTypeOK, TableOf
<1>1. CASE about = "sales"
  <2>1. \A i \in 1 .. 5 : a[i] = Queries[i]
    BY <1>1, QueriesOfSales
  <2> QED
    BY <1>1, <2>1, SalesReconcile
<1>2. CASE about = "salesReport"
  <2>1. \A i \in 1 .. 3 : a[i] = Queries[i]
    BY <1>2, QueriesOfSalesReport
  <2> QED
    BY <1>2, <2>1, SalesReportReconcile
<1>3. CASE about = "summary"
  <2>1. \A i \in 1 .. 6 : a[i] = Queries[i]
    BY <1>3, QueriesOfSummary
  <2> QED
    BY <1>3, <2>1, SummaryReconcile
<1>4. CASE about = "cod"
  <2>1. \A i \in 1 .. 4 : a[i] = Queries[i]
    BY <1>4, QueriesOfCod
  <2> QED
    BY <1>4, <2>1, CodReconcile
<1>5. CASE about = "bundles"
  <2>1. \A i \in 1 .. 3 : a[i] = Queries[i]
    BY <1>5, QueriesOfBundles
  <2> QED
    BY <1>5, <2>1, BundlesReconcile
<1>6. CASE about = "orderAlerts"
  <2>1. \A i \in 1 .. 4 : a[i] = Queries[i]
    BY <1>6, QueriesOfOrderAlerts
  <2> QED
    BY <1>6, <2>1, OrderAlertsReconcile
<1>7. CASE about = "inquiries"
  <2>1. \A i \in 1 .. 4 : a[i] = Queries[i]
    BY <1>7, QueriesOfInquiries
  <2> QED
    BY <1>7, <2>1, InquiriesReconcile
<1>8. CASE about = "inquiryAlerts"
  <2>1. \A i \in 1 .. 2 : a[i] = Queries[i]
    BY <1>8, QueriesOfInquiryAlerts
  <2> QED
    BY <1>8, <2>1, InquiryAlertsReconcile
<1>9. CASE about = "stock"
  <2>1. \A i \in 1 .. 5 : a[i] = Queries[i]
    BY <1>9, QueriesOfStock
  <2> QED
    BY <1>9, <2>1, StockReconcile
<1>10. CASE about = "products"
  <2>1. \A i \in 1 .. 4 : a[i] = Queries[i]
    BY <1>10, QueriesOfProducts
  <2> QED
    BY <1>10, <2>1, ProductsReconcile
<1>11. CASE about = "collections"
  <2>1. \A i \in 1 .. 4 : a[i] = Queries[i]
    BY <1>11, QueriesOfCollectionsReport
  <2> QED
    BY <1>11, <2>1, CollectionsReportReconcile
<1>12. CASE about = "promotions"
  <2>1. \A i \in 1 .. 2 : a[i] = Queries[i]
    BY <1>12, QueriesOfPromotions
  <2> QED
    BY <1>12, <2>1, PromotionsReconcile
<1>13. CASE about = "returns"
  <2>1. \A i \in 1 .. 5 : a[i] = Queries[i]
    BY <1>13, QueriesOfReturnsReport
  <2> QED
    BY <1>13, <2>1, ReturnsReportReconcile
<1>14. CASE about = "support"
  <2>1. \A i \in 1 .. 7 : a[i] = Queries[i]
    BY <1>14, QueriesOfSupport
  <2>2. \A r \in Record : table[r].status \in StatusesOf[TableOf[about]] \cup {"unused"}
    BY DEF ReportsTypeOK
  <2>3. StatusesOf[TableOf[about]] = {"open", "pending_customer", "resolved", "closed"}
    BY <1>14 DEF StatusesOf, TableOf
  <2>4. \A r \in Recorded : table[r].status \in {"open", "pending_customer", "resolved", "closed"}
    BY <2>2, <2>3 DEF Recorded
  <2> QED
    BY <1>14, <2>1, <2>4, SupportReconcile
<1>15. CASE about = "notifications"
  <2>1. \A i \in 1 .. 2 : a[i] = Queries[i]
    BY <1>15, QueriesOfNotificationsReport
  <2> QED
    BY <1>15, <2>1, NotificationsReportReconcile
<1> QED
  BY <1>0, <1>1, <1>2, <1>3, <1>4, <1>5, <1>6, <1>7, <1>8, <1>9, <1>10, <1>11, <1>12, <1>13, <1>14, <1>15

\* No query has run at the start.
LEMMA ReportsStart == ReportsInit => ReportsInv
<1> SUFFICES ASSUME ReportsInit PROVE ReportsInv
  OBVIOUS
<1>1. /\ table = [r \in Record |-> NoRecord] /\ about \in DOMAIN TableOf
      /\ writes = 0 /\ answers = <<>> /\ crossed = FALSE
  BY DEF ReportsInit
<1>2. MaxWrites \in Nat /\ (CHOOSE g \in Group : TRUE) \in Group
  BY ReportsAssumption
<1>3. PICK none \in SUBSET MarksOf[TableOf[about]] : none = {}
  OBVIOUS
<1>4. NoRecord \in [status : StatusesOf[TableOf[about]] \cup {"unused"}, group : Group,
                    marks : SUBSET MarksOf[TableOf[about]]]
  BY <1>2, <1>3 DEF NoRecord
<1>5. writes \in 0 .. MaxWrites
  BY <1>1, <1>2
<1>6. Len(answers) = 0 /\ answers \in Seq({})
  BY <1>1
<1>7. Len(Queries) \in 1 .. 7
  BY <1>1, QueriesCounted
<1>t. /\ table \in [Record -> [status : StatusesOf[TableOf[about]] \cup {"unused"}, group : Group,
                               marks : SUBSET MarksOf[TableOf[about]]]]
      /\ crossed \in BOOLEAN
  BY <1>1, <1>4
<1>u. Len(answers) <= Len(Queries)
  BY <1>6, <1>7
<1>8. ReportsTypeOK
  BY <1>1, <1>5, <1>t, <1>u, Zenon DEF ReportsTypeOK
<1>9. ~Answered /\ \A i \in 1 .. Len(answers) : answers[i] = Queries[i]
  BY <1>6, <1>7 DEF Answered
<1> QED
  BY <1>6, <1>8, <1>9 DEF ReportsInv, ReportsReconcile

\* Every step keeps the answers of the table, unless it is a write that crosses the
\* report.
LEMMA ReportsStepKeeps == ReportsInv /\ [ReportsNext]_reportVars => ReportsInv'
<1> SUFFICES ASSUME ReportsInv, [ReportsNext]_reportVars PROVE ReportsInv'
  OBVIOUS
<1>0. /\ about \in DOMAIN TableOf /\ writes \in 0 .. MaxWrites /\ crossed \in BOOLEAN
      /\ table \in [Record -> [status : StatusesOf[TableOf[about]] \cup {"unused"}, group : Group,
                               marks : SUBSET MarksOf[TableOf[about]]]]
      /\ Len(answers) <= Len(Queries) /\ Len(Queries) \in 1 .. 7 /\ MaxWrites \in Nat
      /\ ReportsTypeOK /\ ReportsReconcile
      /\ ~crossed /\ ~Answered => \A i \in 1 .. Len(answers) : answers[i] = Queries[i]
  BY QueriesCounted, ReportsAssumption DEF ReportsInv, ReportsTypeOK
<1>s. PICK S : answers \in Seq(S)
  BY DEF ReportsInv
<1>c. about' = about => Len(Queries)' = Len(Queries)
  <2>1. Len(Queries) = QueryCount[about]
    BY <1>0, QueriesCounted
  <2>2. (about \in DOMAIN TableOf => Len(Queries) = QueryCount[about])'
    BY QueriesCounted, PTL
  <2> QED
    BY <1>0, <2>1, <2>2
<1>1. CASE WriteRecord
  <2>1. PICK r \in Record, s \in StatusesOf[TableOf[about]], g \in Group,
             m \in SUBSET MarksOf[TableOf[about]] :
          /\ writes < MaxWrites /\ writes' = writes + 1
          /\ table' = [table EXCEPT ![r] = [status |-> s, group |-> g, marks |-> m]]
          /\ crossed' = (crossed \/ (answers # <<>> /\ ~Answered))
          /\ UNCHANGED <<about, answers>>
    BY <1>1 DEF WriteRecord
  <2>2. crossed' \in BOOLEAN
    BY <2>1, Zenon
  <2>3. writes' \in 0 .. MaxWrites
    BY <1>0, <2>1
  <2>4. table' \in [Record -> [status : StatusesOf[TableOf[about]] \cup {"unused"}, group : Group,
                               marks : SUBSET MarksOf[TableOf[about]]]]
    BY <1>0, <2>1
  <2>5. ReportsTypeOK'
    BY <1>0, <1>c, <2>1, <2>2, <2>3, <2>4 DEF ReportsTypeOK
  <2>6. Answered' = Answered
    BY <1>c, <2>1 DEF Answered
  <2>7. ~crossed' => ~crossed /\ (answers = <<>> \/ Answered)
    BY <2>1, Zenon
  <2>8. ~crossed' /\ ~Answered' => \A i \in 1 .. Len(answers)' : answers'[i] = Queries[i]'
    BY <2>1, <2>6, <2>7
  <2>9. ReportsReconcile'
    BY <1>0, <2>1, <2>6, <2>7 DEF ReportsReconcile, Reconciled, Rows, RowsOf
  <2> QED
    BY <1>s, <2>1, <2>5, <2>8, <2>9 DEF ReportsInv
<1>2. CASE RunQuery
  <2>1. /\ ~Answered /\ UNCHANGED <<about, table, writes, crossed>>
        /\ answers' = Append(answers, Queries[Len(answers) + 1])
    BY <1>2 DEF RunQuery
  <2>2. Queries' = Queries
    BY <2>1 DEF Queries, Recorded, Has, Being, During, By, Kept, SalesSummary, OrdersByStatus,
                OrdersBySource, SalesTimeseries, ProductPerformance, CouponSavings, SalesDashboard,
                OrdersSummary, CodDashboard, BundlesDashboard, InquiriesSummary, StockDashboard,
                ProductsDashboard, CatalogueSummary, CollectionsDashboard, PromotionsDashboard,
                ReturnsSummary, ReturnsDashboard, SupportSummary, SupportDashboard,
                NotificationsSummary, Alerts
  <2>a. PICK n \in Nat : n = Len(answers)
    BY <1>s
  <2>b. PICK q : q = Queries[n + 1]
    OBVIOUS
  <2>3. q = Queries[Len(answers) + 1] /\ n = Len(answers)
    BY <2>a, <2>b
  <2>4. answers \in Seq(S \cup {q})
    BY <1>s
  <2>5. /\ answers' \in Seq(S \cup {q}) /\ Len(answers') = n + 1
        /\ \A i \in 1 .. n : answers'[i] = answers[i]
        /\ answers'[n + 1] = q
    BY <2>1, <2>3, <2>4
  <2>6. n + 1 <= Len(Queries)
    BY <1>0, <2>1, <2>3 DEF Answered
  <2>7. ReportsTypeOK'
    BY <1>0, <2>1, <2>2, <2>5, <2>6 DEF ReportsTypeOK
  <2>8. ~crossed' => \A i \in 1 .. n + 1 : answers'[i] = Queries[i]
    <3> SUFFICES ASSUME ~crossed, NEW i \in 1 .. n + 1 PROVE answers'[i] = Queries[i]
      BY <2>1
    <3>1. i \in 1 .. n \/ i = n + 1
      OBVIOUS
    <3> QED
      BY <1>0, <2>1, <2>3, <2>5, <3>1
  <2>9. ReportsReconcile'
    <3> SUFFICES ASSUME Answered', ~crossed' PROVE Reconciled(answers)'
      BY DEF ReportsReconcile
    <3>1. PICK a : a = answers'
      OBVIOUS
    <3>2. \A i \in 1 .. Len(Queries) : a[i] = Queries[i]
      BY <2>2, <2>5, <2>8, <3>1 DEF Answered
    <3>3. Reconciled(a)
      BY <1>0, <3>2, QueriesReconcile
    <3> QED
      BY <2>1, <3>1, <3>3 DEF Reconciled, Rows, RowsOf
  <2> QED
    BY <2>2, <2>5, <2>7, <2>8, <2>9 DEF ReportsInv
<1>3. CASE ReturnReport
  <2>1. answers' = <<>> /\ crossed' = FALSE /\ UNCHANGED <<about, table, writes>>
    BY <1>3 DEF ReturnReport
  <2>2. Len(answers)' = 0 /\ answers' \in Seq(S) /\ Len(Queries)' = Len(Queries)
    BY <1>c, <2>1
  <2>t. Len(answers)' <= Len(Queries)'
    BY <1>0, <2>2
  <2>u. crossed' \in BOOLEAN
    BY <2>1
  <2>3. ReportsTypeOK'
    BY <1>0, <2>1, <2>t, <2>u DEF ReportsTypeOK
  <2>4. ~Answered' /\ \A i \in 1 .. Len(answers)' : answers'[i] = Queries[i]'
    BY <1>0, <2>2 DEF Answered
  <2> QED
    BY <2>2, <2>3, <2>4 DEF ReportsInv, ReportsReconcile
<1>4. CASE UNCHANGED reportVars
  <2>1. UNCHANGED <<about, table, writes, answers, crossed>>
    BY <1>4 DEF reportVars
  <2>2. Queries' = Queries
    BY <2>1 DEF Queries, Recorded, Has, Being, During, By, Kept, SalesSummary, OrdersByStatus,
                OrdersBySource, SalesTimeseries, ProductPerformance, CouponSavings, SalesDashboard,
                OrdersSummary, CodDashboard, BundlesDashboard, InquiriesSummary, StockDashboard,
                ProductsDashboard, CatalogueSummary, CollectionsDashboard, PromotionsDashboard,
                ReturnsSummary, ReturnsDashboard, SupportSummary, SupportDashboard,
                NotificationsSummary, Alerts
  <2> QED
    BY <1>0, <1>s, <2>1, <2>2 DEF ReportsInv, ReportsTypeOK, ReportsReconcile, Reconciled, Answered,
                                  Rows, RowsOf
<1> QED
  BY <1>1, <1>2, <1>3, <1>4 DEF ReportsNext
-----------------------------------------------------------------------------
\* The types of the variables, in every state.
THEOREM ReportTypes == ReportsSpec => []ReportsTypeOK
<1>1. ReportsInv => ReportsTypeOK
  BY DEF ReportsInv
<1> QED
  BY <1>1, ReportsStart, ReportsStepKeeps, PTL DEF ReportsSpec

\* A report that no write crosses reconciles with itself, whichever it is and
\* whatever rows there are.
THEOREM ReportsAlwaysReconcile == ReportsSpec => []ReportsReconcile
<1>1. ReportsInv => ReportsReconcile
  BY DEF ReportsInv
<1> QED
  BY <1>1, ReportsStart, ReportsStepKeeps, PTL DEF ReportsSpec

===============================================================================
