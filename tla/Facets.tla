------------------------------- MODULE Facets -------------------------------
(***************************************************************************)
(* One facet of the product list (apps/catalog/services.py): the counts or *)
(* bounds shown next to a page of products, and the filter that choosing   *)
(* one of them applies.  Products are numbered in the order of the column  *)
(* the list may be sorted by; a value is a number, or the same number      *)
(* stored as a string, which JSON specs may mix.                           *)
(***************************************************************************)
EXTENDS Workers, FiniteSetsExt

CONSTANTS
    Numbers,     \* values stored as numbers
    Strings,     \* values stored as strings of digits
    MaxProduct   \* products 1 .. MaxProduct match the other filters

ASSUME FacetsAssumption == Numbers \cup Strings \subseteq Nat /\ MaxProduct \in Nat

VARIABLES
    facet,     \* the definition: [source, type, active]
    specs,     \* the value of each product, or NoValue
    listing,   \* the answer to a list request, or NoListing
    chosen     \* the products found by the filter the visitor chose next

facetVars == <<facet, specs, listing, chosen>>
-----------------------------------------------------------------------------
Shelved == 1 .. MaxProduct

NoValue == [type |-> "none", text |-> 0]
Numeric(n) == [type |-> "number", text |-> n]
Digits(n) == [type |-> "string", text |-> n]

Valued == {p \in Shelved : specs[p] # NoValue}
Texts == {specs[p].text : p \in Valued}

NoListing == [sort |-> "unasked", counts |-> <<>>, bounds |-> {}]

\* FacetDefinition.clean and its serializer: a direct column is typed, so its
\* values are never strings of digits.
Typed == facet.source = "product_field"

FacetsInit ==
    /\ facet \in [source : {"product_specs", "product_field"}, type : {"choice", "range"},
                  active : BOOLEAN]
    /\ specs \in [Shelved -> {NoValue} \cup {Numeric(n) : n \in Numbers}
                                       \cup {Digits(n) : n \in IF Typed THEN {} ELSE Strings}]
    /\ listing = NoListing /\ chosen = {}

\* The rows of values(column).annotate(count): they are grouped by the value,
\* and by the column of an explicit ordering too.
Groups(sort) ==
    {g \in SUBSET Valued : /\ g # {}
                           /\ \E p \in g : g = {q \in Valued : /\ specs[q] = specs[p]
                                                               /\ sort # "none" => q = p}}

\* _choice_counts_for_facet: counts[str(value)] = count, row after row, in the
\* order of the query (any order when there is none): the last row stays.
CountsOf(sort, counts) ==
    /\ DOMAIN counts = Texts
    /\ \A n \in Texts :
          \E g \in Groups(sort) :
              LET same == {h \in Groups(sort) : \A q \in h : specs[q].text = n} IN
              /\ g \in same /\ counts[n] = Cardinality(g)
              /\ sort = "up"   => \A h \in same : Max(h) <= Max(g)
              /\ sort = "down" => \A h \in same : Min(h) >= Min(g)

\* _range_stats_for_facet: whatever looks numeric counts.
BoundsOf == IF Texts = {} THEN {} ELSE {Min(Texts), Max(Texts)}

\* compute_facet_counts of a list request, with an ordering (or a search, on
\* PostgreSQL) or without.
AskList(sort) ==
    /\ listing = NoListing
    /\ \E counts \in [Texts -> 1 .. MaxProduct] :
          /\ IF facet.active /\ facet.type = "choice" THEN CountsOf(sort, counts)
             ELSE counts = [n \in Texts |-> 1]
          /\ listing' = [sort |-> sort,
                         counts |-> IF facet.active /\ facet.type = "choice" THEN counts ELSE <<>>,
                         bounds |-> IF facet.active /\ facet.type = "range" THEN BoundsOf ELSE {}]
    /\ UNCHANGED <<facet, specs, chosen>>

\* validate_facet_params, for a choice: the string, or the number it reads as.
Matching(n) == IF facet.active THEN {p \in Shelved : specs[p] \in {Digits(n), Numeric(n)}} ELSE Shelved

\* ... and for a range: a string is below every number in JSONB.
Between(low, high) ==
    {p \in Valued : specs[p].type = "number" /\ low <= specs[p].text /\ specs[p].text <= high}

\* The visitor narrows the list by a value, or by the bounds, that are shown.
Choose ==
    /\ listing # NoListing
    /\ \/ \E n \in DOMAIN listing.counts : chosen' = Matching(n)
       \/ listing.bounds # {} /\ chosen' = Between(Min(listing.bounds), Max(listing.bounds))
    /\ UNCHANGED <<facet, specs, listing>>

FacetsNext == \/ \E sort \in {"none", "up", "down"} : AskList(sort)
              \/ Choose

FacetsSpec == FacetsInit /\ [][FacetsNext]_facetVars
-----------------------------------------------------------------------------
Mixed == \E p, q \in Valued : specs[p].type # specs[q].type

\* "Choice facets map to {facet_value: count}" (compute_facet_counts): as many
\* products as choosing the value finds.  A sorted list groups by the sorted
\* column as well, and each value keeps the count of its last group.
FacetCountsRight == \A n \in DOMAIN listing.counts : listing.counts[n] = Cardinality(Matching(n))

\* What a facet shows is what choosing it finds: in a list without an
\* ordering, when no spec mixes numbers and strings of digits, every count is
\* that of the products found and every product with a value is counted; and
\* the bounds of numbers find them all.
FacetsAgree ==
    ~Mixed =>
        /\ listing.sort = "none" =>
              /\ FacetCountsRight
              /\ facet.active /\ facet.type = "choice" =>
                    UNION {Matching(n) : n \in DOMAIN listing.counts} = Valued
        /\ listing.bounds # {} /\ (\A p \in Valued : specs[p].type = "number") =>
              Between(Min(listing.bounds), Max(listing.bounds)) = Valued
=============================================================================
