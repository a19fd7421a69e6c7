---------------------------- MODULE BundlePrices ----------------------------
(***************************************************************************)
(* The cached prices of bundles (apps/bundles): an entry per slug, filled  *)
(* by the storefront and dropped by signals of the bundle, its items and   *)
(* its products.  The version of a bundle counts the changes of anything   *)
(* its price is computed from; an entry is the bundle and version it was   *)
(* computed from.                                                          *)
(***************************************************************************)
EXTENDS Workers

CONSTANTS
    BundleId, BundleSlug,
    MaxBundleChanges,  \* bound: writes that are begun, and discounts that change
    MaxBundleCrashes   \* bound: requests killed half-way

ASSUME BundlePricesAssumption ==
    None \notin BundleId \cup BundleSlug /\ {MaxBundleChanges, MaxBundleCrashes} \subseteq Nat

VARIABLES
    slugOf,        \* the slug of each bundle, None when there is no such bundle
    version,       \* the version of what each bundle's price is computed from
    priceEntry,    \* the cached price of each slug, or None
    offer,         \* what each request is doing
    bundleChanges,
    unsound,       \* (history) whether a read overlapped a write, or a write died before
                   \* it dropped, or a discount changed
    bundleCrashes

bundleVars == <<slugOf, version, priceEntry, offer, bundleChanges, unsound, bundleCrashes>>
-----------------------------------------------------------------------------
NoOffer == [pc |-> "idle", op |-> "none", bundle |-> None, slug |-> None, version |-> 0,
            drops |-> {}]

Offered == {b \in BundleId : slugOf[b] # None}
Taken(s) == \E b \in Offered : slugOf[b] = s

BundlesInit ==
    /\ slugOf = [b \in BundleId |-> None] /\ version = [b \in BundleId |-> 0]
    /\ priceEntry = [s \in BundleSlug |-> None]
    /\ offer = [w \in Worker |-> NoOffer]
    /\ bundleChanges = 0 /\ unsound = FALSE /\ bundleCrashes = 0

OfferBegins(w, t) ==
    LET others == {v \in Worker : offer[v] # NoOffer} IN
    /\ offer[w] = NoOffer
    /\ offer' = [offer EXCEPT ![w] = t]
    /\ unsound' = (unsound \/ \E v \in others : t.op # "read" \/ offer[v].op # "read")
    /\ UNCHANGED <<slugOf, version, priceEntry, bundleCrashes>>

\* Staff create, edit or delete a bundle, add, edit or remove one of its
\* items, or save a product that is in every bundle.  The rows are loaded
\* here, and the slug is checked to be free (UniqueValidator, _unique_slug).
BeginBundleWrite(w) ==
    /\ bundleChanges < MaxBundleChanges /\ bundleChanges' = bundleChanges + 1
    /\ \/ \E b \in BundleId \ Offered, s \in BundleSlug :
              /\ ~Taken(s) /\ \A v \in Worker : offer[v].bundle # b
              /\ OfferBegins(w, [NoOffer EXCEPT !.pc = "dropping", !.op = "create", !.bundle = b,
                                                !.slug = s, !.drops = {s}])
       \/ \E b \in Offered, s \in BundleSlug :
              /\ s = slugOf[b] \/ ~Taken(s)
              /\ OfferBegins(w, [NoOffer EXCEPT !.pc = "loaded", !.op = "edit", !.bundle = b,
                                                !.slug = s, !.drops = {s}])
       \/ \E b \in Offered, op \in {"delete", "unlist"} :
              OfferBegins(w, [NoOffer EXCEPT !.pc = "dropping", !.op = op, !.bundle = b,
                                             !.slug = slugOf[b], !.drops = {slugOf[b]}])
       \/ \E b \in Offered :
              OfferBegins(w, [NoOffer EXCEPT !.pc = "loaded", !.op = "item", !.bundle = b,
                                             !.slug = slugOf[b], !.drops = {slugOf[b]}])
       \/ OfferBegins(w, [NoOffer EXCEPT !.pc = "loaded", !.op = "product"])

Touched(t) == IF t.op = "product" THEN BundleId ELSE {t.bundle}
Versions(t) == [b \in BundleId |-> IF b \in Touched(t) THEN version[b] + 1 ELSE version[b]]

\* Editions of a bundle, an item or a product commit, and their signals run
\* after.  An edit saves every column, the slug it loaded included; a slug
\* taken meanwhile, and an item of a bundle deleted meanwhile, are refused.
SaveOffer(w) ==
    LET t == offer[w]
        refused == \/ t.op = "edit" /\ \E b \in Offered \ {t.bundle} : slugOf[b] = t.slug
                   \/ t.op = "item" /\ t.bundle \notin Offered
    IN
    /\ t.pc = "loaded"
    /\ IF refused THEN offer' = [offer EXCEPT ![w] = NoOffer] /\ UNCHANGED <<slugOf, version>>
       ELSE /\ slugOf' = IF t.op = "edit" THEN [slugOf EXCEPT ![t.bundle] = t.slug] ELSE slugOf
            /\ version' = Versions(t)
            /\ offer' = [offer EXCEPT ![w].pc = IF t.op = "product" THEN "listing" ELSE "dropping"]
    /\ UNCHANGED <<priceEntry, bundleChanges, unsound, bundleCrashes>>

\* _invalidate_bundles_for_product: the slugs of the bundles it is in.
ListBundles(w) ==
    /\ offer[w].pc = "listing"
    /\ offer' = [offer EXCEPT ![w].pc = "dropping", ![w].drops = {slugOf[b] : b \in Offered}]
    /\ UNCHANGED <<slugOf, version, priceEntry, bundleChanges, unsound, bundleCrashes>>

\* invalidate_bundle_price.
DropPrice(w) ==
    /\ offer[w].pc = "dropping"
    /\ \E s \in offer[w].drops :
          /\ priceEntry' = [priceEntry EXCEPT ![s] = None]
          /\ offer' = [offer EXCEPT ![w].drops = @ \ {s}]
    /\ UNCHANGED <<slugOf, version, bundleChanges, unsound, bundleCrashes>>

\* Creations and deletions run their signals inside a transaction, which ends
\* here; the others are through.
EndOffer(w) ==
    LET t == offer[w] IN
    /\ t.pc = "dropping" /\ t.drops = {}
    /\ IF t.op \in {"create", "delete", "unlist"} /\ ~(t.op = "create" /\ Taken(t.slug))
       THEN /\ slugOf' = CASE t.op = "create" -> [slugOf EXCEPT ![t.bundle] = t.slug]
                           [] t.op = "delete" -> [slugOf EXCEPT ![t.bundle] = None]
                           [] OTHER -> slugOf
            /\ version' = Versions(t)
       ELSE UNCHANGED <<slugOf, version>>
    /\ offer' = [offer EXCEPT ![w] = NoOffer]
    /\ UNCHANGED <<priceEntry, bundleChanges, unsound, bundleCrashes>>

\* A discount begins, ends or is edited: effective_unit_price changes, and
\* nothing tells the bundles.
DiscountChanges ==
    /\ bundleChanges < MaxBundleChanges /\ bundleChanges' = bundleChanges + 1
    /\ version' = Versions([op |-> "product"])
    /\ unsound' = TRUE
    /\ UNCHANGED <<slugOf, priceEntry, offer, bundleCrashes>>
-----------------------------------------------------------------------------
\* BundlePriceView: the bundle is loaded with its items and their products ...
LoadOffer(w) ==
    \E b \in Offered :
        /\ OfferBegins(w, [NoOffer EXCEPT !.pc = "looking", !.op = "read", !.bundle = b,
                                          !.slug = slugOf[b], !.version = version[b]])
        /\ UNCHANGED bundleChanges

\* ... then the entry is looked up, and served; or computed from what was
\* loaded, and stored.
LookUpPrice(w) ==
    LET t == offer[w] IN
    /\ t.pc = "looking"
    /\ offer' = [offer EXCEPT ![w] = IF priceEntry[t.slug] # None THEN NoOffer
                                     ELSE [t EXCEPT !.pc = "computed"]]
    /\ UNCHANGED <<slugOf, version, priceEntry, bundleChanges, unsound, bundleCrashes>>

StorePrice(w) ==
    LET t == offer[w] IN
    /\ t.pc = "computed"
    /\ priceEntry' = [priceEntry EXCEPT ![t.slug] = [bundle |-> t.bundle, version |-> t.version]]
    /\ offer' = [offer EXCEPT ![w] = NoOffer]
    /\ UNCHANGED <<slugOf, version, bundleChanges, unsound, bundleCrashes>>

ExpirePrice == \E s \in BundleSlug :
    /\ priceEntry[s] # None /\ priceEntry' = [priceEntry EXCEPT ![s] = None]
    /\ UNCHANGED <<slugOf, version, offer, bundleChanges, unsound, bundleCrashes>>

\* A request dies, or finds the cache down: a transaction is rolled back, a
\* save that was committed is not followed by its drops.
OfferDies(w) ==
    /\ offer[w] # NoOffer /\ bundleCrashes < MaxBundleCrashes
    /\ bundleCrashes' = bundleCrashes + 1
    /\ offer' = [offer EXCEPT ![w] = NoOffer]
    /\ unsound' = (unsound \/ /\ offer[w].op \in {"edit", "item", "product"}
                              /\ offer[w].pc \in {"listing", "dropping"})
    /\ UNCHANGED <<slugOf, version, priceEntry, bundleChanges>>

BundlesNext ==
    \/ \E w \in Worker : \/ BeginBundleWrite(w) \/ SaveOffer(w) \/ ListBundles(w) \/ DropPrice(w)
                         \/ EndOffer(w) \/ LoadOffer(w) \/ LookUpPrice(w) \/ StorePrice(w)
                         \/ OfferDies(w)
    \/ DiscountChanges \/ ExpirePrice

BundlesSpec == BundlesInit /\ [][BundlesNext]_bundleVars
-----------------------------------------------------------------------------
\* The types of the variables; slugs are unique.
BundlesTypeOK ==
    LET PricedEntry == [bundle : BundleId, version : Nat] IN
    /\ slugOf \in [BundleId -> BundleSlug \cup {None}] /\ version \in [BundleId -> Nat]
    /\ \A s \in BundleSlug : priceEntry[s] = None \/ priceEntry[s] \in PricedEntry
    /\ offer \in [Worker -> [pc : {"idle", "loaded", "listing", "dropping", "looking", "computed"},
                             op : {"none", "create", "edit", "delete", "unlist", "item", "product",
                                   "read"},
                             bundle : BundleId \cup {None}, slug : BundleSlug \cup {None},
                             version : Nat, drops : SUBSET BundleSlug]]
    /\ bundleChanges \in 0 .. MaxBundleChanges /\ unsound \in BOOLEAN /\ bundleCrashes \in Nat
    /\ \A b, c \in Offered : slugOf[b] = slugOf[c] => b = c

\* "So the storefront never serves a stale figure" (bundles/signals.py), as
\* far as it goes: as long as no write overlapped another request or died
\* before its drops and no discount changed, what is cached under a bundle's
\* slug at rest is that bundle's price of now, through renames that leave an
\* entry behind under the old slug, and other bundles that take that slug.
BundlePriceFresh ==
    ~unsound /\ (\A w \in Worker : offer[w] = NoOffer) =>
        \A b \in Offered : \/ priceEntry[slugOf[b]] = None
                           \/ priceEntry[slugOf[b]] = [bundle |-> b, version |-> version[b]]
=============================================================================
