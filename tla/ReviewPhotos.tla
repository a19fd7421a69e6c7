---------------------------- MODULE ReviewPhotos ----------------------------
(***************************************************************************)
(* Review photos (apps/reviews): uploads of a guest session or an account  *)
(* with their files in storage, the claim by a review that is posted,      *)
(* removal by the owner, with the review, or by the daily sweep of orphans.*)
(* The rows are locked until a transaction commits; the storage knows no   *)
(* transactions.                                                           *)
(***************************************************************************)
EXTENDS Workers

CONSTANTS
    Photo, PhotoReview,   \* uploads; reviews that may be posted with some of them
    Owner, PhotoOwner,    \* accounts and sessions; who uploads a photo
    MaxUnattached,        \* MAX_UNATTACHED_PHOTOS_PER_USER, _PER_SESSION
    MaxPhotoCrashes       \* bound: tasks killed half-way

ASSUME ReviewPhotosAssumption ==
    /\ PhotoOwner \in [Photo -> Owner] /\ None \notin PhotoReview
    /\ PhotoReview \cap {"absent", "free", "gone"} = {}
    /\ MaxUnattached \in Nat /\ MaxPhotoCrashes \in Nat

VARIABLES
    photo,       \* "absent", "free", the review it is attached to, or "gone"
    old,         \* unattached photos older than ORPHAN_PHOTO_TTL_HOURS
    files,       \* photos whose files are in storage
    posted,      \* reviews that were posted and not deleted
    photoLock,   \* holders of the photo rows' locks
    photoTask,   \* what each slot is doing
    claimsRaced, \* (history) whether two tasks were ever under way at once
    photoCrashes

photoVars == <<photo, old, files, posted, photoLock, photoTask, claimsRaced, photoCrashes>>
-----------------------------------------------------------------------------
NoPhotoTask == [pc |-> "idle", op |-> "none", review |-> None, photos |-> {}]

\* The owner's unclaimed uploads, which the cap of the upload view counts.
Free(o) == {p \in Photo : photo[p] = "free" /\ PhotoOwner[p] = o}

StartPhotoTask(w, t) ==
    /\ photoTask[w] = NoPhotoTask
    /\ photoTask' = [photoTask EXCEPT ![w] = t]
    /\ claimsRaced' = (claimsRaced \/ \E v \in Slot : photoTask[v] # NoPhotoTask)
    /\ UNCHANGED photoCrashes

EndPhotoTask(w) ==
    /\ photoTask' = [photoTask EXCEPT ![w] = NoPhotoTask]
    /\ photoLock' = [p \in Photo |-> IF photoLock[p] = w THEN None ELSE photoLock[p]]

\* An UPDATE or DELETE by primary key waits for the rows, then holds them.
TakePhotos(w, ps) ==
    /\ \A p \in ps : photoLock[p] = None
    /\ photoLock' = [p \in Photo |-> IF p \in ps THEN w ELSE photoLock[p]]

PhotosInit ==
    /\ photo = [p \in Photo |-> "absent"] /\ old = {} /\ files = {} /\ posted = {}
    /\ photoLock = [p \in Photo |-> None]
    /\ photoTask = [w \in Slot |-> NoPhotoTask]
    /\ claimsRaced = FALSE /\ photoCrashes = 0
-----------------------------------------------------------------------------
\* ReviewPhotoUploadView: there is room for one more, and the file is saved.
SaveFile(w) ==
    \E p \in Photo :
        /\ photo[p] = "absent" /\ p \notin files
        /\ Cardinality(Free(PhotoOwner[p])) < MaxUnattached
        /\ files' = files \cup {p}
        /\ StartPhotoTask(w, [NoPhotoTask EXCEPT !.pc = "saved", !.op = "upload", !.photos = {p}])
        /\ UNCHANGED <<photo, old, posted, photoLock>>

CreatePhoto(w) ==
    /\ photoTask[w].pc = "saved"
    /\ photo' = [p \in Photo |-> IF p \in photoTask[w].photos THEN "free" ELSE photo[p]]
    /\ EndPhotoTask(w)
    /\ UNCHANGED <<old, files, posted, claimsRaced, photoCrashes>>

\* Mutant of UploadFails: the file stays behind.
UploadKeepsFile(w) ==
    /\ photoTask[w].pc = "saved"
    /\ EndPhotoTask(w)
    /\ UNCHANGED <<photo, old, files, posted, claimsRaced, photoCrashes>>

\* The variants or the row could not be written: the file is deleted again.
UploadFails(w) ==
    /\ photoTask[w].pc = "saved"
    /\ files' = files \ photoTask[w].photos
    /\ EndPhotoTask(w)
    /\ UNCHANGED <<photo, old, posted, claimsRaced, photoCrashes>>

\* Mutant of Claimable: the lookup forgets review__isnull.
ClaimableAttached(ps, o) ==
    \A p \in ps : photo[p] \notin {"absent", "gone"} /\ PhotoOwner[p] = o

\* _resolve_photo_ids: every photo must be an unclaimed upload of the submitter.
Claimable(ps, o) == ps \subseteq Free(o)

\* create_review finds the photos ...
ResolvePhotos(w) ==
    \E o \in Owner, ps \in SUBSET Photo, r \in PhotoReview \ posted :
        /\ ps # {} /\ Claimable(ps, o)
        /\ \A p \in Photo : photo[p] # r
        /\ \A v \in Slot : photoTask[v].review # r
        /\ StartPhotoTask(w, [pc |-> "resolved", op |-> "post", review |-> r, photos |-> ps])
        /\ UNCHANGED <<photo, old, files, posted, photoLock>>

\* ... and attaches them by primary key: those that still exist, claimed by
\* another review meanwhile or not.
ClaimPhotos(w) ==
    /\ photoTask[w].pc = "resolved" /\ TakePhotos(w, photoTask[w].photos)
    /\ photoTask' = [photoTask EXCEPT ![w].pc = "claimed"]
    /\ UNCHANGED <<photo, old, files, posted, claimsRaced, photoCrashes>>

CommitClaim(w) ==
    LET t == photoTask[w] IN
    /\ t.pc = "claimed"
    /\ photo' = [p \in Photo |-> IF p \in t.photos /\ photo[p] # "gone" THEN t.review ELSE photo[p]]
    /\ old' = old \ t.photos /\ posted' = posted \cup {t.review}
    /\ EndPhotoTask(w)
    /\ UNCHANGED <<files, claimsRaced, photoCrashes>>
-----------------------------------------------------------------------------
\* The collector of a deletion loads the rows: the owner deletes an upload
\* that he found unattached (ReviewPhotoDeleteView), a review goes with its
\* photos, the daily task takes the old ones.
LoadPhotos(w) ==
    \E ps \in SUBSET Photo, r \in posted \cup {None} :
        /\ ps # {}
        /\ \/ w = Celery /\ r = None /\ ps = {p \in old : photo[p] = "free"}
           \/ w # Celery /\ r # None /\ ps = {p \in Photo : photo[p] = r}
           \/ w # Celery /\ r = None /\ \E p \in Photo : ps = {p} /\ photo[p] = "free"
        /\ StartPhotoTask(w, [pc |-> "loaded", op |-> "remove", review |-> r, photos |-> ps])
        /\ UNCHANGED <<photo, old, files, posted, photoLock>>

\* The rows are deleted by primary key, whatever happened to them since, and
\* post_delete removes the files before the commit.
DropPhotos(w) ==
    /\ photoTask[w].pc = "loaded" /\ TakePhotos(w, photoTask[w].photos)
    /\ files' = files \ photoTask[w].photos
    /\ photoTask' = [photoTask EXCEPT ![w].pc = "dropped"]
    /\ UNCHANGED <<photo, old, posted, claimsRaced, photoCrashes>>

CommitRemoval(w) ==
    LET t == photoTask[w] IN
    /\ t.pc = "dropped"
    /\ photo' = [p \in Photo |-> IF p \in t.photos THEN "gone" ELSE photo[p]]
    /\ old' = old \ t.photos /\ posted' = posted \ {t.review}
    /\ EndPhotoTask(w)
    /\ UNCHANGED <<files, claimsRaced, photoCrashes>>

\* Mutant of Expired: created_at is compared the wrong way round.
ExpiredFresh(p) == p \in old

\* ORPHAN_PHOTO_TTL_HOURS pass for an upload.
Expired(p) == photo[p] = "free" /\ p \notin old

GrowOld == \E p \in Photo : /\ Expired(p) /\ old' = old \cup {p}
                            /\ UNCHANGED <<photo, files, posted, photoLock, photoTask,
                                           claimsRaced, photoCrashes>>

\* A process is killed: the transaction is rolled back, the storage is not.
PhotoCrash(w) ==
    /\ photoTask[w] # NoPhotoTask /\ photoCrashes < MaxPhotoCrashes
    /\ photoCrashes' = photoCrashes + 1
    /\ EndPhotoTask(w)
    /\ UNCHANGED <<photo, old, files, posted, claimsRaced>>

PhotoContinues(w) == \/ CreatePhoto(w) \/ UploadFails(w) \/ ClaimPhotos(w) \/ CommitClaim(w)
                     \/ DropPhotos(w) \/ CommitRemoval(w)

PhotosNext == \/ \E w \in Worker : SaveFile(w) \/ ResolvePhotos(w)
              \/ \E w \in Slot : LoadPhotos(w) \/ PhotoContinues(w) \/ PhotoCrash(w)
              \/ GrowOld

\* Requests and tasks run to their end, the task runs every day, time passes.
PhotosFairness == /\ \A w \in Slot : WF_photoVars(PhotoContinues(w))
                  /\ WF_photoVars(LoadPhotos(Celery)) /\ WF_photoVars(GrowOld)

PhotosSpec == PhotosInit /\ [][PhotosNext]_photoVars /\ PhotosFairness
-----------------------------------------------------------------------------
\* The types of the variables; whoever holds a lock is at work.
PhotosTypeOK ==
    /\ photo \in [Photo -> {"absent", "free", "gone"} \cup PhotoReview]
    /\ old \subseteq Photo /\ files \subseteq Photo /\ posted \subseteq PhotoReview
    /\ photoLock \in [Photo -> Slot \cup {None}]
    /\ photoTask \in [Slot -> [pc : {"idle", "saved", "resolved", "claimed", "loaded", "dropped"},
                               op : {"none", "upload", "post", "remove"},
                               review : PhotoReview \cup {None}, photos : SUBSET Photo]]
    /\ claimsRaced \in BOOLEAN /\ photoCrashes \in Nat
    /\ \A p \in Photo : photoLock[p] # None => p \in photoTask[photoLock[p]].photos

\* As long as no two tasks overlap, a photo stays with the review it was posted
\* with until that review is deleted, and an owner's unattached uploads stay
\* under their cap: no other review claims a photo, and neither its owner nor
\* the sweep removes it.  The claim and the removals go by primary key after an
\* earlier look, and the cap is counted before the file is saved, so that
\* overlapping tasks can break all of these.
PhotosStay ==
    [][~claimsRaced =>
          /\ \A p \in Photo : photo[p] \in PhotoReview /\ photo'[p] # photo[p] =>
                                  photo'[p] = "gone" /\ photo[p] \notin posted'
          /\ \A o \in Owner : Cardinality(Free(o)) <= MaxUnattached]_photoVars

\* Unless a process died half-way, and however tasks overlap, a photo's row has
\* its file, and a file has its row or the task that is about to write the one
\* or to remove both.
FilesFollowRows ==
    photoCrashes = 0 =>
        \A p \in Photo :
            \/ p \in files <=> photo[p] \notin {"absent", "gone"}
            \/ \E w \in Slot : p \in photoTask[w].photos /\ photoTask[w].pc \in {"saved", "dropped"}

\* An upload that is never attached is swept away, also after crashes.
OrphansSwept == \A p \in Photo : photo[p] = "free" ~> photo[p] # "free"
=============================================================================
