------------------------------ MODULE ShopProofs ------------------------------
(***************************************************************************)
(* The components that share nothing but their workers, side by side: a    *)
(* behaviour of the shop is one of every component, so what each promises  *)
(* alone it promises there, for every value of every constant.             *)
(***************************************************************************)
EXTENDS MCShop, ReviewsProofs, CachesProofs, RequestsProofs, FiguresProofs

\* Every component starts, and every component moves or rests.
PartsInit ==
    /\ ReviewInit /\ PhotosInit /\ TicketsInit /\ CartsInit /\ NotificationsInit /\ ImagesInit
    /\ RedemptionsInit /\ PricingInit /\ AccountsInit /\ AddressesInit /\ InquiriesInit
    /\ ReportsInit /\ GenerationInit /\ SettingsInit /\ CollectionsInit /\ ViewersInit
    /\ BundlesInit /\ PublishingInit /\ FacetsInit /\ CatalogueInit

PartsNext ==
    /\ [ReviewsNext]_reviewVars /\ [PhotosNext]_photoVars /\ [TicketsNext]_ticketVars
    /\ [CartsNext]_cartVars /\ [NotificationsNext]_smsVars /\ [ImagesNext]_imageVars
    /\ [RedemptionsNext]_redemptionVars /\ [PricingNext]_bill /\ [AccountsNext]_accountVars
    /\ [AddressesNext]_directoryVars /\ [InquiriesNext]_inquiryVars /\ [ReportsNext]_reportVars
    /\ [GenerationNext]_generationVars /\ [SettingsNext]_settingsVars
    /\ [CollectionsNext]_collectionVars /\ [ViewersNext]_viewerVars /\ [BundlesNext]_bundleVars
    /\ [PublishingNext]_contentVars /\ [FacetsNext]_facetVars /\ [CatalogueNext]_catalogueVars
-----------------------------------------------------------------------------
\* Every component starts as it does alone.
LEMMA PartsStart == ShopInit => PartsInit
  BY DEF ShopInit, PartsInit

\* A step about one component leaves the variables of the others alone.
LEMMA OthersRest ==
    ASSUME NEW p, Only(p)
    PROVE  /\ p # "reviews" => UNCHANGED reviewVars
           /\ p # "photos" => UNCHANGED photoVars
           /\ p # "tickets" => UNCHANGED ticketVars
           /\ p # "carts" => UNCHANGED cartVars
           /\ p # "notifications" => UNCHANGED smsVars
           /\ p # "images" => UNCHANGED imageVars
           /\ p # "redemptions" => UNCHANGED redemptionVars
           /\ p # "pricing" => UNCHANGED bill
           /\ p # "accounts" => UNCHANGED accountVars
           /\ p # "addresses" => UNCHANGED directoryVars
           /\ p # "inquiries" => UNCHANGED inquiryVars
           /\ p # "reports" => UNCHANGED reportVars
           /\ p # "generations" => UNCHANGED generationVars
           /\ p # "settings" => UNCHANGED settingsVars
           /\ p # "collections" => UNCHANGED collectionVars
           /\ p # "viewers" => UNCHANGED viewerVars
           /\ p # "bundles" => UNCHANGED bundleVars
           /\ p # "content" => UNCHANGED contentVars
           /\ p # "facets" => UNCHANGED facetVars
           /\ p # "catalogue" => UNCHANGED catalogueVars
  BY DEF Only

\* Every step of the shop is a step of each component, or leaves it alone.
LEMMA PartsMove == [ShopNext]_shopVars => PartsNext
<1> SUFFICES ASSUME [ShopNext]_shopVars PROVE PartsNext
  OBVIOUS
<1>1. CASE UNCHANGED shopVars
  <2>1. /\ UNCHANGED reviewVars /\ UNCHANGED photoVars /\ UNCHANGED ticketVars /\ UNCHANGED cartVars
        /\ UNCHANGED smsVars /\ UNCHANGED imageVars /\ UNCHANGED redemptionVars /\ UNCHANGED bill
        /\ UNCHANGED accountVars /\ UNCHANGED directoryVars /\ UNCHANGED inquiryVars
        /\ UNCHANGED reportVars /\ UNCHANGED generationVars /\ UNCHANGED settingsVars
        /\ UNCHANGED collectionVars /\ UNCHANGED viewerVars /\ UNCHANGED bundleVars
        /\ UNCHANGED contentVars /\ UNCHANGED facetVars /\ UNCHANGED catalogueVars
    BY <1>1, Zenon DEF shopVars
  <2> QED
    BY <2>1, Zenon DEF PartsNext
<1>2. CASE ShopNext
  <2>1. [ReviewsNext]_reviewVars
    BY <1>2, OthersRest DEF ShopNext
  <2>2. [PhotosNext]_photoVars
    BY <1>2, OthersRest DEF ShopNext
  <2>3. [TicketsNext]_ticketVars
    BY <1>2, OthersRest DEF ShopNext
  <2>4. [CartsNext]_cartVars
    BY <1>2, OthersRest DEF ShopNext
  <2>5. [NotificationsNext]_smsVars
    BY <1>2, OthersRest DEF ShopNext
  <2>6. [ImagesNext]_imageVars
    BY <1>2, OthersRest DEF ShopNext
  <2>7. [RedemptionsNext]_redemptionVars
    BY <1>2, OthersRest DEF ShopNext
  <2>8. [PricingNext]_bill
    BY <1>2, OthersRest DEF ShopNext
  <2>9. [AccountsNext]_accountVars
    BY <1>2, OthersRest DEF ShopNext
  <2>10. [AddressesNext]_directoryVars
    BY <1>2, OthersRest DEF ShopNext
  <2>11. [InquiriesNext]_inquiryVars
    BY <1>2, OthersRest DEF ShopNext
  <2>12. [ReportsNext]_reportVars
    BY <1>2, OthersRest DEF ShopNext
  <2>13. [GenerationNext]_generationVars
    BY <1>2, OthersRest DEF ShopNext
  <2>14. [SettingsNext]_settingsVars
    BY <1>2, OthersRest DEF ShopNext
  <2>15. [CollectionsNext]_collectionVars
    BY <1>2, OthersRest DEF ShopNext
  <2>16. [ViewersNext]_viewerVars
    BY <1>2, OthersRest DEF ShopNext
  <2>17. [BundlesNext]_bundleVars
    BY <1>2, OthersRest DEF ShopNext
  <2>18. [PublishingNext]_contentVars
    BY <1>2, OthersRest DEF ShopNext
  <2>19. [FacetsNext]_facetVars
    BY <1>2, OthersRest DEF ShopNext
  <2>20. [CatalogueNext]_catalogueVars
    BY <1>2, OthersRest DEF ShopNext
  <2> QED
    BY <2>1, <2>2, <2>3, <2>4, <2>5, <2>6, <2>7, <2>8, <2>9, <2>10, <2>11, <2>12, <2>13, <2>14,
       <2>15, <2>16, <2>17, <2>18, <2>19, <2>20, Zenon DEF PartsNext
<1> QED
  BY <1>1, <1>2

\* The shop implements each of its components (the photos without the fairness of
\* their sweeps).
THEOREM ShopIsEveryPart ==
    ShopSpec =>
        /\ ReviewsSpec /\ TicketsSpec /\ CartsSpec /\ NotificationsSpec /\ ImagesSpec
        /\ RedemptionsSpec /\ PricingSpec /\ AccountsSpec /\ AddressesSpec /\ InquiriesSpec
        /\ ReportsSpec /\ GenerationSpec /\ SettingsSpec /\ CollectionsSpec /\ ViewersSpec
        /\ BundlesSpec /\ PublishingSpec /\ FacetsSpec /\ CatalogueSpec
        /\ PhotosInit /\ [][PhotosNext]_photoVars
  BY PartsStart, PartsMove, PTL
  DEF PartsInit, PartsNext, ShopSpec, ReviewsSpec, TicketsSpec, CartsSpec, NotificationsSpec, ImagesSpec, RedemptionsSpec,
     PricingSpec, AccountsSpec, AddressesSpec, InquiriesSpec, ReportsSpec, GenerationSpec,
     SettingsSpec, CollectionsSpec, ViewersSpec, BundlesSpec, PublishingSpec, FacetsSpec,
     CatalogueSpec
-----------------------------------------------------------------------------
\* Every variable of the component that moves stays of its type.
THEOREM ShopTypesHold == ShopSpec => []ShopTypesOK
<1>1. ASSUME ReviewsTypeOK, PhotosTypeOK, TicketsTypeOK, CartsTypeOK, NotificationsTypeOK,
             ImagesTypeOK, RedemptionsTypeOK, AccountsTypeOK, AddressesTypeOK,
             InquiriesTypeOK, ReportsTypeOK, GenerationTypeOK, SettingsTypeOK,
             CollectionsTypeOK, ViewersTypeOK, BundlesTypeOK, PublishingTypeOK, CatalogueTypeOK
      PROVE  ShopTypesOK
  BY <1>1, SMT DEF ShopTypesOK
<1>2. /\ TicketsInv => TicketsTypeOK
      /\ AddressesInv => AddressesTypeOK
      /\ InquiriesInv => InquiriesTypeOK
      /\ StorageInv => PhotosTypeOK
      /\ GenerationInv => GenerationTypeOK
  BY DEF TicketsInv, AddressesInv, InquiriesInv, StorageInv, GenerationInv
<1>3. TicketsInv /\ [TicketsNext]_ticketVars => TicketsInv'
  BY TicketsStepKeeps
<1> QED
  BY <1>1, <1>2, <1>3, ShopIsEveryPart, StorageStarts, StorageStepKeeps, TicketsStart,
     GenerationInvStarts, GenerationStepKeeps, AddressesStart, AddressesStepKeeps, InquiriesStart,
     InquiriesStepKeeps, ReviewTypesHold, CartTypes, SmsTypes, ImageTypes, RedemptionTypes, AccountTypes,
     ReportTypes, SettingsTypes, CollectionTypes, ViewerTypes, BundleTypes,
     PublishingTypes, CatalogueTypes, PTL
  DEF TicketsSpec, AddressesSpec, InquiriesSpec, GenerationSpec

\* Until a process dies half-way, no photo of a review is without its file; until
\* an image is overtaken, the variants it shows are of the file it has.
THEOREM FilesAlwaysFollow == ShopSpec => []FilesFollow
<1>1. FilesFollowRows /\ VariantsFollow => FilesFollow
  BY DEF FilesFollow
<1>2. StorageInv => FilesFollowRows
  BY DEF StorageInv
<1> QED
  BY <1>1, <1>2, ShopIsEveryPart, StorageStarts, StorageStepKeeps, VariantsAreOfTheFile, PTL

\* Closed tickets, converted inquiries, published slugs and delivery reports stay
\* what they are, but for the requests that had loaded the row before.
THEOREM WhatIsSettledStays == ShopSpec => SettledStays
<1> DEFINE Invs == TicketsInv /\ InquiriesInv /\ PublishingInv
<1>1. Invs /\ [ShopNext]_shopVars =>
        Invs' /\ ClosedIsFinal /\ ConvertedStays /\ PublishedSlugStays
  BY PartsMove, TicketsStepKeeps, InquiriesStepKeeps, ConvertedStep, PublishingStepKeeps
  DEF PartsNext
<1>2. [DeliveryStays]_smsVars => DeliveryStays
  BY DEF smsVars, DeliveryStays
<1>3. Invs /\ [ShopNext]_shopVars /\ [DeliveryStays]_smsVars =>
        Invs' /\ [ClosedIsFinal /\ ConvertedStays /\ PublishedSlugStays /\ DeliveryStays]_shopVars
  BY <1>1, <1>2
<1>4. ShopInit => Invs
  BY PartsStart, TicketsStart, InquiriesStart, PublishingStart DEF PartsInit
<1>5. ShopSpec => [][DeliveryStays]_smsVars
  BY ShopIsEveryPart, DeliveryFinal, PTL
<1> QED
  BY <1>3, <1>4, <1>5, PTL DEF ShopSpec, SettledStays

\* A cart has one line per product with the quantity asked for, an account one
\* default address and the categories no cycle, while requests do not overlap.
THEOREM RowsStayInShape == ShopSpec => []RowsKeepShape
<1>1. CartIsExact /\ OneDefault /\ TreeIsForest => RowsKeepShape
  BY DEF RowsKeepShape
<1> QED
  BY <1>1, ShopIsEveryPart, CartStaysExact, DirectoryHasOneDefault, CategoriesStayAForest, PTL

\* The figures of a report reconcile, a facet shows what it finds, and the list,
\* the feed and the sitemap of the blog show the same posts.
THEOREM FiguresAlwaysAgree == ShopSpec => []FiguresAgree
<1>1. ReportsReconcile /\ FacetsAgree /\ BlogAgrees => FiguresAgree
  BY DEF FiguresAgree
<1> QED
  BY <1>1, ShopIsEveryPart, ReportsAlwaysReconcile, FacetsShowWhatTheyFind, BlogReadsAgree, PTL

\* The cached list of a collection and the cached price of a bundle are those of
\* the rows, but for the writes that overlapped their filling.
THEOREM CachedFiguresStayRight == ShopSpec => []CachedFiguresMatch
<1>1. ListMatches /\ BundlePriceFresh => CachedFiguresMatch
  BY DEF CachedFiguresMatch
<1> QED
  BY <1>1, ShopIsEveryPart, CachedListMatches, BundlePricesAreFresh, PTL

\* What the other components promise alone, they promise side by side.
THEOREM PartsKeepPromises ==
    ShopSpec =>
        /\ [](RatingMatches /\ PostingExclusive) /\ [](OneSendPerKey /\ RateLimitHolds)
        /\ []MoneyAddsUp /\ []LastPasswordStays /\ []NoEditLost
        /\ []FreshOnceBumped /\ PagesReadThrough
        /\ []OneProcessKeepsViewers /\ PrimaryKept /\ LimitsHold
  BY ShopIsEveryPart, RatingKept, PostsExclude, KeySentOnce, LimitKept, MoneyAlwaysAddsUp,
     PasswordIsTheLast, FreshAfterBump, PagesAreReadThrough, EditsAreKept, ViewersAreKept, PrimaryStays,
     NothingBeyondLimits, PTL
==============================================================================
