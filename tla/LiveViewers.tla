---------------------------- MODULE LiveViewers ----------------------------
(***************************************************************************)
(* Who is viewing one product (apps/social_proof): a cache entry of        *)
(* visitors and the times of their views, and the durable view events.     *)
(* The gunicorn workers are processes that share the Redis cache.  The     *)
(* Redis path of cache.py is never taken: _backend_is_redis looks at the   *)
(* type of django.core.cache.cache, which is a proxy with every backend.   *)
(* Time advances in halves of the live window, which is also the bucket.   *)
(***************************************************************************)
EXTENDS Workers

CONSTANTS
    Visitor, Process,
    Retention,        \* age in buckets at which events are purged
    MaxTicks,         \* bound: half windows
    MaxViews,         \* bound: views that are recorded
    MaxViewerCrashes  \* bound: requests killed half-way

ASSUME LiveViewersAssumption ==
    /\ None \notin Visitor \cup Process
    /\ {Retention, MaxTicks} \subseteq Nat \ {0} /\ {MaxViews, MaxViewerCrashes} \subseteq Nat

VARIABLES
    home,        \* the process of each thread, which never changes
    clock,
    views,       \* views so far
    viewers,     \* the cached entry: the views it has, as pairs of a visitor and a time
    events,      \* ProductViewEvent rows: pairs of a visitor and a bucket
    locmemLock,  \* holder of _locmem_lock in each process
    viewing,     \* what each thread is doing
    counted,     \* (history) the views written to the entry, the last of each visitor
    died         \* (history) visitors one of whose requests was killed

viewerVars == <<home, clock, views, viewers, events, locmemLock, viewing, counted, died>>
-----------------------------------------------------------------------------
NoViewing == [pc |-> "idle", visitor |-> None, cutoff |-> 0, read |-> {}]

\* LIVE_VIEWER_WINDOW_SECONDS before now, and _bucket_start.
Cutoff == IF clock < 2 THEN 0 ELSE clock - 2
Bucket == clock \div 2

\* The views of s with the one of v replaced.
Replacing(s, v) == {p \in s : p[1] # v} \cup {<<v, clock>>}

ViewersInit ==
    /\ home \in [Worker -> Process]
    /\ clock = 1 /\ views = 0 /\ viewers = {} /\ events = {}
    /\ locmemLock = [p \in Process |-> None] /\ viewing = [w \in Worker |-> NoViewing]
    /\ counted = {} /\ died = {}

\* The clock turns; the entry expires a window after it was last set, when
\* its views have all left the window.
ClockTicks ==
    /\ clock < MaxTicks /\ clock' = clock + 1
    /\ viewers' = IF \E p \in viewers : p[2] + 2 >= clock + 1 THEN viewers ELSE {}
    /\ UNCHANGED <<home, views, events, locmemLock, viewing, counted, died>>

\* ProductViewRecordView.post: an active product, not a bot, and the feature
\* is on (see SiteSettings); otherwise nothing is recorded.  The cutoff is
\* taken before the lock.
RecordView(w) ==
    \E v \in Visitor :
        /\ viewing[w] = NoViewing /\ views < MaxViews /\ views' = views + 1
        /\ viewing' = [viewing EXCEPT ![w] = [NoViewing EXCEPT !.pc = "adding", !.visitor = v,
                                                               !.cutoff = Cutoff]]
        /\ UNCHANGED <<home, clock, viewers, events, locmemLock, counted, died>>

\* Mutant of ReadViewers: the lock is not taken.
ReadUnlocked(w) ==
    LET t == viewing[w] IN
    /\ t.pc = "adding"
    /\ viewing' = [viewing EXCEPT ![w] = [t EXCEPT !.pc = "locked",
                                            !.read = {p \in viewers : p[2] >= t.cutoff}]]
    /\ UNCHANGED <<home, clock, views, viewers, events, locmemLock, counted, died>>

\* _add_live_viewer_locmem: under the lock of the process the entry is read
\* and pruned ...
ReadViewers(w) ==
    LET t == viewing[w] IN
    /\ t.pc = "adding" /\ locmemLock[home[w]] = None
    /\ locmemLock' = [locmemLock EXCEPT ![home[w]] = w]
    /\ viewing' = [viewing EXCEPT ![w] = [t EXCEPT !.pc = "locked",
                                            !.read = {p \in viewers : p[2] >= t.cutoff}]]
    /\ UNCHANGED <<home, clock, views, viewers, events, counted, died>>

Unlocked(w) == [p \in Process |-> IF locmemLock[p] = w THEN None ELSE locmemLock[p]]

\* ... and set again with the visitor in it.
WriteViewers(w) ==
    LET t == viewing[w] IN
    /\ t.pc = "locked"
    /\ viewers' = Replacing(t.read, t.visitor)
    /\ counted' = Replacing(counted, t.visitor)
    /\ locmemLock' = Unlocked(w)
    /\ viewing' = [viewing EXCEPT ![w].pc = "added"]
    /\ UNCHANGED <<home, clock, views, events, died>>

\* get_or_create of the visitor's event in the bucket of now.
RecordEvent(w) ==
    /\ viewing[w].pc = "added"
    /\ events' = events \cup {<<viewing[w].visitor, Bucket>>}
    /\ viewing' = [viewing EXCEPT ![w] = NoViewing]
    /\ UNCHANGED <<home, clock, views, viewers, locmemLock, counted, died>>

\* purge_old_view_events_task.
PurgeEvents ==
    /\ events' = {e \in events : e[2] + Retention >= Bucket}
    /\ events' # events
    /\ UNCHANGED <<home, clock, views, viewers, locmemLock, viewing, counted, died>>

\* A process is killed: its lock goes with it.
ViewerCrash(w) ==
    /\ viewing[w] # NoViewing /\ Cardinality(died) < MaxViewerCrashes
    /\ died' = died \cup {viewing[w].visitor}
    /\ locmemLock' = Unlocked(w)
    /\ viewing' = [viewing EXCEPT ![w] = NoViewing]
    /\ UNCHANGED <<home, clock, views, viewers, events, counted>>

ViewersNext == \/ \E w \in Worker : \/ RecordView(w) \/ ReadViewers(w) \/ WriteViewers(w)
                                    \/ RecordEvent(w) \/ ViewerCrash(w)
               \/ ClockTicks \/ PurgeEvents

ViewersSpec == ViewersInit /\ [][ViewersNext]_viewerVars
-----------------------------------------------------------------------------
\* get_live_viewer_count counts these.
LiveNow == {p[1] : p \in {q \in viewers : q[2] >= Cutoff}}

\* The types of the variables; the entry has a visitor once.
ViewersTypeOK ==
    /\ home \in [Worker -> Process] /\ clock \in 1 .. MaxTicks /\ views \in 0 .. MaxViews
    /\ viewers \subseteq Visitor \X (0 .. MaxTicks) /\ counted \subseteq Visitor \X (0 .. MaxTicks)
    /\ events \subseteq Visitor \X (0 .. MaxTicks)
    /\ locmemLock \in [Process -> Worker \cup {None}]
    /\ viewing \in [Worker -> [pc : {"idle", "adding", "locked", "added"},
                               visitor : Visitor \cup {None}, cutoff : 0 .. MaxTicks,
                               read : SUBSET (Visitor \X (0 .. MaxTicks))]]
    /\ died \subseteq Visitor
    /\ \A p, q \in viewers : p[1] = q[1] => p = q

\* "SADD/SCARD keep the increment and the read atomic under concurrent
\* traffic", "guarded by a lock so concurrent writes do not lose updates"
\* (cache.py): whoever was counted less than a window ago is counted.  Two
\* processes read the same entry, and the second drops the visitor the first
\* has added.
NoViewerLost == \A p \in counted : p[2] >= Cutoff => p[1] \in LiveNow

\* Within one process the lock does keep every viewer for a window, and a
\* viewer whose request was not killed has a view event of that bucket or a
\* later one, whatever was pruned and purged.
OneProcessKeepsViewers ==
    (\A v, w \in Worker : home[v] = home[w]) =>
        /\ NoViewerLost
        /\ \A p \in viewers : \/ \E e \in events : e[1] = p[1] /\ e[2] >= p[2] \div 2
                              \/ \E w \in Worker : viewing[w].visitor = p[1]
                              \/ p[1] \in died \/ p[2] < Cutoff
=============================================================================
