------------------------------- MODULE Images -------------------------------
(***************************************************************************)
(* The images of one product (apps/catalog): staff upload, edit and delete *)
(* them, at most one is primary, and a Celery task writes the responsive   *)
(* variants of each uploaded file.  Files are numbered in the order of     *)
(* their upload; a file's variants are known by its number.                *)
(***************************************************************************)
EXTENDS Workers

CONSTANTS
    Image,
    MaxFiles,          \* bound: files ever uploaded
    MaxVariantLosses   \* bound: tasks that die, are not queued, or cannot decode

ASSUME ImagesAssumption == None \notin Image /\ MaxFiles \in Nat /\ MaxVariantLosses \in Nat

VARIABLES
    image,       \* ProductImage rows: [file, primary, sources]; file 0: no such row
    uploads,     \* files uploaded so far
    queue,       \* variant tasks waiting: pairs of an image and a file
    imageTask,   \* what each slot is doing
    overtaken,   \* (history) whether a row was saved while another slot was at it, or
                 \* with a file other than the one a variant task was due for
    losses       \* (history) variant tasks that came to nothing

imageVars == <<image, uploads, queue, imageTask, overtaken, losses>>
-----------------------------------------------------------------------------
NoImage == [file |-> 0, primary |-> FALSE, sources |-> 0]
NoImageTask == [pc |-> "idle", op |-> "none", image |-> None, row |-> NoImage, demote |-> {}]

Stored == {i \in Image : image[i].file # 0}
Primary == {i \in Stored : image[i].primary}

\* Files of an image whose variants are queued, about to be, or being made.
Due(i) == {f \in 1 .. MaxFiles :
              \/ <<i, f>> \in queue
              \/ \E w \in Slot : /\ imageTask[w].image = i /\ imageTask[w].row.file = f
                                 /\ imageTask[w].pc = "committed" \/ imageTask[w].op = "variants"}

\* Someone else is at work on the image.
Contended(w, i) == \E v \in Slot \ {w} : imageTask[v].image = i

ImagesInit == /\ image = [i \in Image |-> NoImage]
              /\ uploads = 0 /\ queue = {}
              /\ imageTask = [w \in Slot |-> NoImageTask]
              /\ overtaken = FALSE /\ losses = 0

ImageTaskIs(w, t) == imageTask' = [imageTask EXCEPT ![w] = t]

\* The rows d demoted.
Demoted(d) == [i \in Image |-> IF i \in d THEN [image[i] EXCEPT !.primary = FALSE] ELSE image[i]]

\* Mutant of DemoteBefore: the demotion is a transaction of its own.
DemoteAtOnce(d) == image' = Demoted(d)

\* update(is_primary=False) in the transaction of the write: nobody sees it
\* before the commit.
DemoteBefore(d) == UNCHANGED image

\* create_image: the transaction demotes the primary it sees.  Or the first
\* image of a product that is created with it (create_product), whose task is
\* queued inside the transaction.
StartImage(w) ==
    \E i \in Image \ Stored, first \in BOOLEAN, withProduct \in BOOLEAN :
        LET demote == IF first THEN Primary ELSE {} IN
        /\ imageTask[w] = NoImageTask /\ uploads < MaxFiles
        /\ \A v \in Slot : imageTask[v].image # i
        /\ withProduct => Stored = {} /\ \A v \in Slot : imageTask[v] = NoImageTask
        /\ uploads' = uploads + 1
        /\ queue' = IF withProduct THEN queue \cup {<<i, uploads + 1>>} ELSE queue
        /\ ImageTaskIs(w, [pc |-> "written", op |-> IF withProduct THEN "product" ELSE "create",
                           image |-> i, demote |-> demote,
                           row |-> [file |-> uploads + 1, primary |-> first, sources |-> 0]])
        /\ DemoteBefore(demote)
        /\ UNCHANGED <<overtaken, losses>>

\* update_image on a row loaded by the view: a new file clears the variants
\* and everything else is saved as it was loaded.
LoadImage(w) ==
    \E i \in Stored :
        /\ imageTask[w] = NoImageTask
        /\ ImageTaskIs(w, [pc |-> "loaded", op |-> "edit", image |-> i, demote |-> {},
                           row |-> image[i]])
        /\ UNCHANGED <<image, uploads, queue, overtaken, losses>>

EditImage(w) ==
    \E first \in BOOLEAN, replace \in BOOLEAN :
        LET t == imageTask[w]
            demote == IF first THEN Primary \ {t.image} ELSE {}
        IN
        /\ t.pc = "loaded" /\ t.op = "edit" /\ (replace => uploads < MaxFiles)
        /\ uploads' = IF replace THEN uploads + 1 ELSE uploads
        /\ ImageTaskIs(w, [t EXCEPT !.pc = "written",
                  !.op = IF replace THEN "replace" ELSE "edit",
                  !.demote = demote,
                  !.row = [file |-> IF replace THEN uploads + 1 ELSE t.row.file,
                           primary |-> first \/ t.row.primary,
                           sources |-> IF replace THEN 0 ELSE t.row.sources]])
        /\ DemoteBefore(demote)
        /\ UNCHANGED <<queue, overtaken, losses>>

\* The commit, refused by unique_primary_image_per_product when a primary is
\* left that the transaction did not see.  save() inserts a row that was
\* deleted meanwhile again.
CommitImage(w) ==
    LET t == imageTask[w]
        clash == t.row.primary /\ ~(Primary \subseteq t.demote \cup {t.image})
    IN
    /\ t.pc = "written"
    /\ image' = IF clash THEN image
                ELSE [Demoted(t.demote) EXCEPT ![t.image] = t.row]
    /\ overtaken' = (overtaken \/ Contended(w, t.image) \/ Due(t.image) \ {t.row.file} # {})
    /\ IF ~clash /\ t.op \in {"create", "replace"}
       THEN ImageTaskIs(w, [t EXCEPT !.pc = "committed"])
       ELSE ImageTaskIs(w, NoImageTask)
    /\ UNCHANGED <<uploads, queue, losses>>

\* enqueue_image_variants, after the commit.
Enqueue(w) ==
    /\ imageTask[w].pc = "committed"
    /\ queue' = queue \cup {<<imageTask[w].image, imageTask[w].row.file>>}
    /\ ImageTaskIs(w, NoImageTask)
    /\ UNCHANGED <<image, uploads, overtaken, losses>>

DeleteImage == \E i \in Stored : /\ image' = [image EXCEPT ![i] = NoImage]
                                 /\ overtaken' = (overtaken \/ Contended(None, i))
                                 /\ UNCHANGED <<uploads, queue, imageTask, losses>>
-----------------------------------------------------------------------------
Lose == losses < MaxVariantLosses /\ losses' = losses + 1

\* generate_product_image_variants loads the row; it returns when the row is
\* not there, or not there yet, or has variants.
TakeVariantTask ==
    \E q \in queue :
        /\ imageTask[Celery] = NoImageTask
        /\ queue' = queue \ {q}
        /\ IF q[1] \in Stored /\ image[q[1]].sources = 0
           THEN /\ ImageTaskIs(Celery, [pc |-> "loaded", op |-> "variants", image |-> q[1],
                                        row |-> [NoImage EXCEPT !.file = q[2]], demote |-> {}])
                /\ UNCHANGED losses
           ELSE /\ UNCHANGED imageTask
                /\ IF q[1] \in Stored THEN UNCHANGED losses ELSE losses' = losses + 1
        /\ UNCHANGED <<image, uploads, overtaken>>

\* The variants of the file named in the task are made and saved
\* (update_fields=["image_sources"]); the save fails when the row is gone.
SaveVariants ==
    LET t == imageTask[Celery] IN
    /\ t.op = "variants"
    /\ image' = IF t.image \in Stored THEN [image EXCEPT ![t.image].sources = t.row.file] ELSE image
    /\ overtaken' = (overtaken \/ Contended(Celery, t.image))
    /\ ImageTaskIs(Celery, NoImageTask)
    /\ UNCHANGED <<uploads, queue, losses>>

\* A slot dies, or the file cannot be decoded: nothing is redelivered.
ImageCrash(w) == /\ imageTask[w] # NoImageTask /\ Lose
                 /\ ImageTaskIs(w, NoImageTask)
                 /\ UNCHANGED <<image, uploads, queue, overtaken>>

ImagesNext ==
    \/ \E w \in Worker : \/ StartImage(w) \/ LoadImage(w) \/ EditImage(w)
                         \/ CommitImage(w) \/ Enqueue(w)
    \/ \E w \in Slot : ImageCrash(w)
    \/ DeleteImage \/ TakeVariantTask \/ SaveVariants

ImagesSpec == ImagesInit /\ [][ImagesNext]_imageVars
-----------------------------------------------------------------------------
\* The types of the variables; at most one image is primary.
ImagesTypeOK ==
    LET Row == [file : 0 .. MaxFiles, primary : BOOLEAN, sources : 0 .. MaxFiles] IN
    /\ image \in [Image -> Row] /\ uploads \in 0 .. MaxFiles
    /\ queue \subseteq Image \X (1 .. MaxFiles)
    /\ imageTask \in [Slot -> [pc : {"idle", "loaded", "written", "committed"},
                               op : {"none", "create", "product", "edit", "replace", "variants"},
                               image : Image \cup {None}, row : Row, demote : SUBSET Image]]
    /\ overtaken \in BOOLEAN /\ losses \in Nat
    /\ \A i, j \in Primary : i = j

\* A product with a primary image keeps one, through creations and edits that
\* overlap and fail, until the image is deleted; only an edit that loaded the
\* row before it became primary can take the mark away by saving it whole.
PrimaryKept ==
    [][Primary # {} /\ Primary' = {} =>
          \/ \E i \in Primary : i \notin Stored'
          \/ \E w \in Worker : /\ imageTask[w].image \in Primary /\ imageTask[w].pc = "written"
                               /\ ~imageTask[w].row.primary]_imageVars

\* The variants shown are those of the file, unless the file was replaced
\* before the task for the one before it had run, or two slots overlapped.
VariantsFollow == ~overtaken => \A i \in Stored : image[i].sources \in {0, image[i].file}
=============================================================================
