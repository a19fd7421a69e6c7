------------------------------- MODULE MCShop -------------------------------
(* Small instances of the components that share nothing but their workers,  *)
(* one behaviour about each: `part` says which component moves.             *)
EXTENDS Reviews, ReviewPhotos, Tickets, Carts, Notifications, Images, Redemptions,
        Pricing, Accounts, Addresses, Inquiries, Reports, GenerationCache, SiteSettings,
        Collections, LiveViewers, BundlePrices, Publishing, Facets, Catalogue

VARIABLE part   \* the component this behaviour is about

\* The one purchase was made without signing in.
GuestBuyer == [o \in Purchase |-> CHOOSE c \in Contact \ Account : TRUE]
OneSession == [p \in Photo |-> CHOOSE o \in Owner : TRUE]
-----------------------------------------------------------------------------
ShopInit ==
    /\ part \in {"reviews", "photos", "tickets", "carts", "notifications", "images",
                 "redemptions", "pricing", "accounts", "addresses", "inquiries",
                 "reports", "generations", "settings", "collections", "viewers",
                 "bundles", "content", "facets", "catalogue"}
    /\ part # "redemptions" => coupon = (CHOOSE c \in CouponRow : TRUE) /\ couponDates = TRUE
        /\ discount = [max |-> Unlimited, count |-> 0]
    /\ part # "reports" => about = "sales"
    /\ part # "generations" => space = (CHOOSE s \in Namespaces : TRUE)
    /\ part # "collections" => open = TRUE
    /\ part # "viewers" => home = [w \in Worker |-> CHOOSE p \in Process : TRUE]
    /\ part # "content" => kind = "post"
    /\ part # "facets" => facet = [source |-> "product_field", type |-> "choice", active |-> FALSE]
        /\ specs = [p \in Shelved |-> NoValue]
    /\ ReviewInit
    /\ PhotosInit
    /\ TicketsInit
    /\ CartsInit
    /\ NotificationsInit
    /\ ImagesInit
    /\ RedemptionsInit
    /\ PricingInit
    /\ AccountsInit
    /\ AddressesInit
    /\ InquiriesInit
    /\ ReportsInit
    /\ GenerationInit
    /\ SettingsInit
    /\ CollectionsInit
    /\ ViewersInit
    /\ BundlesInit
    /\ PublishingInit
    /\ FacetsInit
    /\ CatalogueInit

\* Only this component moves.
Only(p) ==
    /\ part = p /\ UNCHANGED part
    /\ IF p = "reviews" THEN TRUE ELSE UNCHANGED reviewVars
    /\ IF p = "photos" THEN TRUE ELSE UNCHANGED photoVars
    /\ IF p = "tickets" THEN TRUE ELSE UNCHANGED ticketVars
    /\ IF p = "carts" THEN TRUE ELSE UNCHANGED cartVars
    /\ IF p = "notifications" THEN TRUE ELSE UNCHANGED smsVars
    /\ IF p = "images" THEN TRUE ELSE UNCHANGED imageVars
    /\ IF p = "redemptions" THEN TRUE ELSE UNCHANGED redemptionVars
    /\ IF p = "pricing" THEN TRUE ELSE UNCHANGED bill
    /\ IF p = "accounts" THEN TRUE ELSE UNCHANGED accountVars
    /\ IF p = "addresses" THEN TRUE ELSE UNCHANGED directoryVars
    /\ IF p = "inquiries" THEN TRUE ELSE UNCHANGED inquiryVars
    /\ IF p = "reports" THEN TRUE ELSE UNCHANGED reportVars
    /\ IF p = "generations" THEN TRUE ELSE UNCHANGED generationVars
    /\ IF p = "settings" THEN TRUE ELSE UNCHANGED settingsVars
    /\ IF p = "collections" THEN TRUE ELSE UNCHANGED collectionVars
    /\ IF p = "viewers" THEN TRUE ELSE UNCHANGED viewerVars
    /\ IF p = "bundles" THEN TRUE ELSE UNCHANGED bundleVars
    /\ IF p = "content" THEN TRUE ELSE UNCHANGED contentVars
    /\ IF p = "facets" THEN TRUE ELSE UNCHANGED facetVars
    /\ IF p = "catalogue" THEN TRUE ELSE UNCHANGED catalogueVars

ShopNext ==
    \/ Only("reviews") /\ ReviewsNext
    \/ Only("photos") /\ PhotosNext
    \/ Only("tickets") /\ TicketsNext
    \/ Only("carts") /\ CartsNext
    \/ Only("notifications") /\ NotificationsNext
    \/ Only("images") /\ ImagesNext
    \/ Only("redemptions") /\ RedemptionsNext
    \/ Only("pricing") /\ PricingNext
    \/ Only("accounts") /\ AccountsNext
    \/ Only("addresses") /\ AddressesNext
    \/ Only("inquiries") /\ InquiriesNext
    \/ Only("reports") /\ ReportsNext
    \/ Only("generations") /\ GenerationNext
    \/ Only("settings") /\ SettingsNext
    \/ Only("collections") /\ CollectionsNext
    \/ Only("viewers") /\ ViewersNext
    \/ Only("bundles") /\ BundlesNext
    \/ Only("content") /\ PublishingNext
    \/ Only("facets") /\ FacetsNext
    \/ Only("catalogue") /\ CatalogueNext

shopVars ==
    <<part, reviewVars, photoVars, ticketVars, cartVars, smsVars, imageVars, redemptionVars,
      bill, accountVars, directoryVars, inquiryVars, reportVars, generationVars,
      settingsVars, collectionVars, viewerVars, bundleVars, contentVars, facetVars,
      catalogueVars>>

ShopSpec == ShopInit /\ [][ShopNext]_shopVars
-----------------------------------------------------------------------------
\* The types of the variables of the component that moves.
ShopTypesOK ==
    CASE part = "reviews" -> ReviewsTypeOK
      [] part = "photos" -> PhotosTypeOK
      [] part = "tickets" -> TicketsTypeOK
      [] part = "carts" -> CartsTypeOK
      [] part = "notifications" -> NotificationsTypeOK
      [] part = "images" -> ImagesTypeOK
      [] part = "redemptions" -> RedemptionsTypeOK
      [] part = "accounts" -> AccountsTypeOK
      [] part = "addresses" -> AddressesTypeOK
      [] part = "inquiries" -> InquiriesTypeOK
      [] part = "reports" -> ReportsTypeOK
      [] part = "generations" -> GenerationTypeOK
      [] part = "settings" -> SettingsTypeOK
      [] part = "collections" -> CollectionsTypeOK
      [] part = "viewers" -> ViewersTypeOK
      [] part = "bundles" -> BundlesTypeOK
      [] part = "content" -> PublishingTypeOK
      [] part = "catalogue" -> CatalogueTypeOK
      [] OTHER -> TRUE

\* What is settled stays: a closed ticket takes no reply and no new status, a
\* converted inquiry stays converted, the slug of published content is not
\* changed, and a delivery report is not taken back; but for the requests each
\* part names, that had loaded the row before it was settled.
SettledStays ==
    [][ClosedIsFinal /\ ConvertedStays /\ PublishedSlugStays /\ DeliveryStays]_shopVars

\* Rows keep the shape their tables do not enforce, while requests do not
\* overlap: a cart has one line per product, with the quantity asked for, an
\* account one default address, and the categories no cycle.
RowsKeepShape == CartIsExact /\ OneDefault /\ TreeIsForest

\* Files follow rows: until a process dies half-way, no review photo is without
\* its file, and until an image is overtaken, the variants it shows are of the
\* file it has.
FilesFollow == FilesFollowRows /\ VariantsFollow

\* What readers are shown agrees: the figures of a report, the counts and
\* bounds of facets, and the blog's lists, feed and sitemap.
FiguresAgree == ReportsReconcile /\ FacetsAgree /\ BlogAgrees

\* A cached list of a collection or price of a bundle is the current one, but
\* for the writes that overlap its filling.
CachedFiguresMatch == ListMatches /\ BundlePriceFresh
=============================================================================
