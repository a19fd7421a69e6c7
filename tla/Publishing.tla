----------------------------- MODULE Publishing -----------------------------
(***************************************************************************)
(* Pages, banners and the blog (apps/content): staff requests load a row,  *)
(* check the change against what they loaded, and save the columns that    *)
(* change; the storefront, the feed and the sitemap show what is public    *)
(* now.  A behaviour is about the rows of one kind; posts come with a      *)
(* category.  Texts are known by the number of the edit that wrote them.   *)
(* The caches in front of the storefront reads are in GenerationCache.     *)
(***************************************************************************)
EXTENDS Workers

CONSTANTS
    Entry, Slug,
    MaxContentEdits,   \* bound: creations and edits, the clock's included
    MaxContentCrashes  \* bound: requests killed half-way

ASSUME PublishingAssumption ==
    None \notin Entry \cup Slug /\ {MaxContentEdits, MaxContentCrashes} \subseteq Nat

VARIABLES
    kind,           \* what the rows are
    content,        \* the rows; slug None: no such row
    category,       \* the category of the posts that have one: active, hidden or gone
    contentTask,    \* what each request is doing
    contentEdits,
    contentRaced,   \* (history) whether two requests ever overlapped
    contentCrashes

contentVars == <<kind, content, category, contentTask, contentEdits, contentRaced, contentCrashes>>
-----------------------------------------------------------------------------
Kinds == {"page", "banner", "category", "tag", "post"}
Moments == {"never", "past", "later"}

\* on: is_published, is_active or status; from, until: starts_at or
\* published_at, and ends_at ("never": null); filed: in the category; body and
\* words: the edits that wrote the text and its reading stats.
NoEntry == [slug |-> None, on |-> FALSE, from |-> "never", until |-> "never",
            noindex |-> FALSE, filed |-> FALSE, body |-> 0, words |-> 0]
NoContentTask == [pc |-> "idle", entry |-> None, row |-> NoEntry, fields |-> {}]

AllEntries == {e \in Entry : content[e].slug # None}

\* Slugs are unique, but banners have none (each has its own here).
Clashes(e, s) == kind # "banner" /\ \E d \in AllEntries \ {e} : content[d].slug = s

PublishingInit ==
    /\ kind \in Kinds
    /\ content = [e \in Entry |-> NoEntry] /\ category = "active"
    /\ contentTask = [w \in Worker |-> NoContentTask]
    /\ contentEdits = 0 /\ contentRaced = FALSE /\ contentCrashes = 0
-----------------------------------------------------------------------------
\* What a request to create a row may send: the serializers' fields.
PageInput == {[NoEntry EXCEPT !.slug = s, !.on = b] : s \in Slug, b \in BOOLEAN}
BannerInput == {[NoEntry EXCEPT !.slug = s, !.on = b, !.from = f, !.until = u] :
                    s \in Slug, b \in BOOLEAN, f \in Moments, u \in Moments}
CategoryInput == PageInput
TagInput == {[NoEntry EXCEPT !.slug = s, !.on = TRUE] : s \in Slug}
PostInput == {[NoEntry EXCEPT !.slug = s, !.on = b, !.from = f, !.filed = c] :
                  s \in Slug, b \in BOOLEAN, f \in Moments, c \in {category = "active"}}

\* The create handlers: one insertion, which a taken slug refuses.
Insert(k, inputs) ==
    \E e \in Entry \ AllEntries, row \in inputs :
        /\ kind = k /\ contentEdits < MaxContentEdits /\ contentEdits' = contentEdits + 1
        /\ ~Clashes(e, row.slug) /\ \A w \in Worker : contentTask[w].entry # e
        /\ content' = [content EXCEPT ![e] = row]
        /\ UNCHANGED <<kind, category, contentTask, contentRaced, contentCrashes>>

CreatePage == Insert("page", PageInput)
CreateBanner == Insert("banner", BannerInput)
CreateCategory == Insert("category", CategoryInput)
CreateTag == Insert("tag", TagInput)

\* The reading stats are those of the text.
CreatePost == Insert("post", {[row EXCEPT !.body = contentEdits + 1, !.words = contentEdits + 1] :
                                  row \in PostInput})
-----------------------------------------------------------------------------
\* A row with the columns of a request set: the text comes with its stats.
Edited(row, fields, s, f) ==
    [slug |-> IF "slug" \in fields THEN s ELSE row.slug,
     on |-> IF "on" \in fields THEN ~row.on ELSE row.on,
     from |-> IF "from" \in fields THEN f ELSE row.from,
     until |-> IF "until" \in fields THEN f ELSE row.until,
     noindex |-> IF "noindex" \in fields THEN ~row.noindex ELSE row.noindex,
     filed |-> IF "filed" \in fields THEN ~row.filed /\ category # "gone" ELSE row.filed,
     body |-> IF "body" \in fields THEN contentEdits + 1 ELSE row.body,
     words |-> IF "body" \in fields THEN contentEdits + 1 ELSE row.words]

\* A PATCH handler has loaded a row, and is to save some of its columns.
Open(k, changes, Allowed(_, _, _)) ==
    \E w \in Worker, e \in AllEntries, fields \in changes, s \in Slug, f \in Moments :
        LET row == Edited(content[e], fields, s, f) IN
        /\ kind = k /\ contentTask[w] = NoContentTask
        /\ contentEdits < MaxContentEdits /\ contentEdits' = contentEdits + 1
        /\ row # content[e] /\ Allowed(content[e], row, fields)
        /\ contentTask' = [contentTask EXCEPT ![w] = [pc |-> "loaded", entry |-> e, row |-> row,
                                                      fields |-> fields]]
        /\ contentRaced' = (contentRaced \/ \E v \in Worker : contentTask[v] # NoContentTask)
        /\ UNCHANGED <<kind, content, category, contentCrashes>>

Anything(old, new, fields) == TRUE

\* update_blog_post: the slug of a post that is published and stays so is
\* locked.
SlugMayChange(old, new, fields) ==
    old.on /\ new.slug # old.slug => "on" \in fields /\ ~new.on

OpenPage == Open("page", {{"slug"}, {"on"}, {"slug", "on"}}, Anything)
OpenBanner == Open("banner", {{"on"}, {"from"}, {"until"}}, Anything)
OpenCategory == Open("category", {{"slug"}, {"on"}}, Anything)
OpenPost == Open("post", {{"slug"}, {"on"}, {"slug", "on"}, {"from"}, {"noindex"}, {"filed"},
                              {"body"}}, SlugMayChange)

\* The columns of update_fields: the reading stats go with the text.
StoredColumns(fields) == IF "body" \in fields THEN fields \cup {"words"} ELSE fields

\* save(update_fields): only the columns that change are written; a row that
\* is gone, a slug that is taken and a category that is gone are refused.
Saved(k, columns) ==
    \E w \in Worker :
        LET t == contentTask[w]
            old == content[t.entry]
            written == StoredColumns(t.fields \cap columns)
            refused == \/ t.entry \notin AllEntries
                       \/ "slug" \in written /\ Clashes(t.entry, t.row.slug)
                       \/ "filed" \in written /\ t.row.filed /\ category = "gone"
        IN
        /\ kind = k /\ t.pc = "loaded"
        /\ content' = IF refused THEN content
                      ELSE [content EXCEPT ![t.entry] =
                               [c \in DOMAIN old |-> IF c \in written THEN t.row[c] ELSE old[c]]]
        /\ contentTask' = [contentTask EXCEPT ![w] = NoContentTask]
        /\ UNCHANGED <<kind, category, contentEdits, contentRaced, contentCrashes>>

UpdatePage == Saved("page", {"slug", "on"})
UpdateBanner == Saved("banner", {"on", "from", "until"})
UpdateCategory == Saved("category", {"slug", "on"})

UpdatePost == Saved("post", {"slug", "on", "from", "noindex", "filed", "body"})

\* The delete handlers.
Delete(k) ==
    \E e \in AllEntries :
        /\ kind = k
        /\ content' = [content EXCEPT ![e] = NoEntry]
        /\ UNCHANGED <<kind, category, contentTask, contentEdits, contentRaced, contentCrashes>>

DeletePage == Delete("page")
DeleteBanner == Delete("banner")
DeleteCategory == Delete("category")
DeleteTag == Delete("tag")
DeletePost == Delete("post")

\* The category of the posts is hidden, shown or deleted; its posts lose it.
CategoryChanges ==
    /\ kind = "post" /\ category # "gone" /\ contentEdits < MaxContentEdits
    /\ contentEdits' = contentEdits + 1
    /\ category' \in {"active", "hidden", "gone"} \ {category}
    /\ content' = IF category' = "gone" THEN [e \in Entry |-> [content[e] EXCEPT !.filed = FALSE]]
                  ELSE content
    /\ UNCHANGED <<kind, contentTask, contentRaced, contentCrashes>>

\* What was due later is due.
ContentClock ==
    /\ contentEdits < MaxContentEdits /\ contentEdits' = contentEdits + 1
    /\ content' = [e \in Entry |->
                      [content[e] EXCEPT !.from = IF @ = "later" THEN "past" ELSE @,
                                         !.until = IF @ = "later" THEN "past" ELSE @]]
    /\ content' # content
    /\ UNCHANGED <<kind, category, contentTask, contentRaced, contentCrashes>>

ContentCrash ==
    \E w \in Worker :
        /\ contentTask[w] # NoContentTask /\ contentCrashes < MaxContentCrashes
        /\ contentCrashes' = contentCrashes + 1
        /\ contentTask' = [contentTask EXCEPT ![w] = NoContentTask]
        /\ UNCHANGED <<kind, content, category, contentEdits, contentRaced>>

PublishingNext ==
    \/ CreatePage \/ CreateBanner \/ CreateCategory \/ CreateTag \/ CreatePost
    \/ OpenPage \/ OpenBanner \/ OpenCategory \/ OpenPost
    \/ UpdatePage \/ UpdateBanner \/ UpdateCategory \/ UpdatePost
    \/ DeletePage \/ DeleteBanner \/ DeleteCategory \/ DeleteTag \/ DeletePost
    \/ CategoryChanges \/ ContentClock \/ ContentCrash

PublishingSpec == PublishingInit /\ [][PublishingNext]_contentVars
-----------------------------------------------------------------------------
\* What the public reads return, each as its own query has it.
ServedAt(s)      == {e \in AllEntries : content[e].slug = s /\ content[e].on /\ content[e].from = "past"}
Listed(unlisted) == {e \in AllEntries : /\ content[e].on /\ content[e].from = "past"
                                        /\ unlisted \/ ~content[e].noindex}
ListedUnder(c)   == {e \in Listed(TRUE) : content[e].filed /\ c # "gone"}
CountedUnder(c)  == IF c # "active" THEN {}
                    ELSE {e \in AllEntries : content[e].filed /\ content[e].on /\ content[e].from = "past"}
RelatedTo(e)     == {d \in AllEntries : content[d].on /\ content[d].from = "past"} \ {e}
InFeed == Listed(FALSE)

\* Mutant of InSitemap: scheduled posts are in it.
InSitemapEarly == {e \in AllEntries : content[e].on /\ ~content[e].noindex}
InSitemap == {e \in AllEntries : content[e].on /\ content[e].from = "past" /\ ~content[e].noindex}

Rotating == {e \in AllEntries : content[e].on /\ content[e].from # "later" /\ content[e].until # "past"}

\* The types of the variables.
PublishingTypeOK ==
    LET Row == [slug : Slug \cup {None}, on : BOOLEAN, from : Moments, until : Moments,
                noindex : BOOLEAN, filed : BOOLEAN, body : 0 .. MaxContentEdits,
                words : 0 .. MaxContentEdits] IN
    /\ kind \in Kinds /\ category \in {"active", "hidden", "gone"}
    /\ content \in [Entry -> Row]
    /\ contentTask \in [Worker -> [pc : {"idle", "loaded"}, entry : Entry \cup {None}, row : Row,
                                   fields : SUBSET DOMAIN NoEntry]]
    /\ contentEdits \in 0 .. MaxContentEdits /\ contentRaced \in BOOLEAN /\ contentCrashes \in Nat

\* "Published slugs are locked because live URLs are indexed and linked"
\* (update_blog_post): the slug of a post that stays published never changes,
\* unless two requests overlapped; then one renames the draft it loaded after
\* the other has published it.
PublishedSlugStays ==
    kind = "post" =>
        \A e \in AllEntries \cap AllEntries' :
            content[e].on /\ content'[e].on /\ content'[e].slug # content[e].slug => contentRaced

\* A post shows the reading stats of its text, through edits that overlap;
\* and what the sitemap and the feed advertise is the same, is served at its
\* address and is not marked noindex, and a category counts what it lists.
BlogAgrees ==
    kind = "post" =>
        /\ \A e \in AllEntries : content[e].words = content[e].body
        /\ InSitemap = InFeed
        /\ \A e \in InSitemap : ServedAt(content[e].slug) = {e} /\ ~content[e].noindex
        /\ \A e \in Listed(TRUE) : RelatedTo(e) \cup {e} = Listed(TRUE)
        /\ category = "active" => CountedUnder(category) = ListedUnder(category)
=============================================================================
