--------------------------- MODULE Notifications ---------------------------
(***************************************************************************)
(* Sending SMS to one recipient (apps/notifications): the lookup of the    *)
(* idempotency key, the rate limit kept in the cache, the log row, the     *)
(* call to the provider, and the provider's delivery reports.              *)
(***************************************************************************)
EXTENDS Workers

CONSTANTS
    LogId, SendKey,
    SendLimit,       \* _SEND_RATE_LIMIT: sends per window
    MaxSmsCrashes    \* bound: senders killed half-way

ASSUME NotificationsAssumption ==
    None \notin LogId \cup SendKey /\ SendLimit \in Nat /\ MaxSmsCrashes \in Nat

VARIABLES
    log,        \* NotificationLog rows: [status, key, named]; named: it has the provider's id
    submitted,  \* (provider) logs whose message the provider accepted
    rate,       \* the recipient's counter in the cache
    sender,     \* what each request is doing
    inWindow,   \* (history) messages submitted since the counter last expired
    sendsRaced, \* (history) whether two requests were ever under way at once
    smsCrashes

smsVars == <<log, submitted, rate, sender, inWindow, sendsRaced, smsCrashes>>
-----------------------------------------------------------------------------
LogStatuses == {"pending", "sent", "delivered", "failed"}

NoLog == [status |-> "none", key |-> None, named |-> FALSE]
NoSend == [pc |-> "idle", log |-> None, key |-> None, count |-> 0, to |-> "none"]

Logs == {n \in LogId : log[n].status # "none"}

NotificationsInit == /\ log = [n \in LogId |-> NoLog]
                     /\ submitted = {} /\ rate = 0 /\ inWindow = 0
                     /\ sender = [w \in Worker |-> NoSend]
                     /\ sendsRaced = FALSE /\ smsCrashes = 0

StartSend(w, t) == /\ sender[w] = NoSend
                   /\ sender' = [sender EXCEPT ![w] = t]
                   /\ sendsRaced' = (sendsRaced \/ \E v \in Worker : sender[v] # NoSend)

SendAt(w, pc) == sender[w].pc = pc
SendTo(w, pc) == sender' = [sender EXCEPT ![w].pc = pc]
SendEnds(w) == sender' = [sender EXCEPT ![w] = NoSend]

\* send_sms: a key that has a log answers with it, otherwise the limit is read
\* (_check_send_rate_limit, first loop).
LookUpKey(w) ==
    \E n \in LogId \ Logs, k \in SendKey \cup {None} :
        /\ \A v \in Worker : sender[v].log # n
        /\ k # None => \A m \in Logs : log[m].key # k
        /\ rate < SendLimit
        /\ StartSend(w, [NoSend EXCEPT !.pc = "allowed", !.log = n, !.key = k])
        /\ UNCHANGED <<log, submitted, rate, inWindow, smsCrashes>>

\* The second loop: cache.get(...) + 1, then cache.set.
ReadRate(w) == /\ SendAt(w, "allowed")
               /\ sender' = [sender EXCEPT ![w].pc = "read", ![w].count = rate]
               /\ UNCHANGED <<log, submitted, rate, inWindow, sendsRaced, smsCrashes>>

\* Mutant of WriteRate: the counter is written back as it was read.
WriteRateStuck(w) == /\ SendAt(w, "read")
                     /\ rate' = sender[w].count
                     /\ SendTo(w, "counted")
                     /\ UNCHANGED <<log, submitted, inWindow, sendsRaced, smsCrashes>>

WriteRate(w) == /\ SendAt(w, "read")
                /\ rate' = sender[w].count + 1
                /\ SendTo(w, "counted")
                /\ UNCHANGED <<log, submitted, inWindow, sendsRaced, smsCrashes>>

\* Mutant of KeyTaken: the key has no unique constraint.
KeyFree(k) == FALSE

\* The unique constraint on idempotency_key.
KeyTaken(k) == k # None /\ \E m \in Logs : log[m].key = k

InsertLog(w) ==
    LET t == sender[w] IN
    /\ SendAt(w, "counted")
    /\ IF KeyTaken(t.key) THEN SendEnds(w) /\ UNCHANGED log
       ELSE /\ log' = [log EXCEPT ![t.log] = [NoLog EXCEPT !.status = "pending", !.key = t.key]]
            /\ SendTo(w, "logged")
    /\ UNCHANGED <<submitted, rate, inWindow, sendsRaced, smsCrashes>>

\* The provider accepts the message, or refuses it (or cannot be reached).
Submit(w) ==
    /\ SendAt(w, "logged")
    /\ \/ /\ submitted' = submitted \cup {sender[w].log} /\ inWindow' = inWindow + 1
          /\ sender' = [sender EXCEPT ![w].pc = "answered", ![w].to = "sent"]
       \/ /\ UNCHANGED <<submitted, inWindow>>
          /\ sender' = [sender EXCEPT ![w].pc = "answered", ![w].to = "failed"]
    /\ UNCHANGED <<log, rate, sendsRaced, smsCrashes>>

\* update_status: the status and the provider's id in one UPDATE.
SaveOutcome(w) ==
    LET t == sender[w] IN
    /\ SendAt(w, "answered")
    /\ log' = [log EXCEPT ![t.log].status = t.to, ![t.log].named = (t.to = "sent")]
    /\ SendEnds(w)
    /\ UNCHANGED <<submitted, rate, inWindow, sendsRaced, smsCrashes>>
-----------------------------------------------------------------------------
\* DeliveryReportView: the log is found by the provider's id, so a report that
\* comes before the outcome is saved is answered and forgotten; a log that is
\* delivered or failed already is left alone.
LoadReport(w) ==
    \E n \in submitted, to \in {"delivered", "failed"} :
        /\ log[n].named /\ log[n].status \notin {"delivered", "failed"}
        /\ StartSend(w, [NoSend EXCEPT !.pc = "reported", !.log = n, !.to = to])
        /\ UNCHANGED <<log, submitted, rate, inWindow, smsCrashes>>

SaveReport(w) ==
    /\ SendAt(w, "reported")
    /\ log' = [log EXCEPT ![sender[w].log].status = sender[w].to]
    /\ SendEnds(w)
    /\ UNCHANGED <<submitted, rate, inWindow, sendsRaced, smsCrashes>>

\* The counter expires a window after the last send.
RateExpires ==
    /\ rate > 0 /\ \A w \in Worker : sender[w] = NoSend
    /\ rate' = 0 /\ inWindow' = 0
    /\ UNCHANGED <<log, submitted, sender, sendsRaced, smsCrashes>>

SenderCrash(w) ==
    /\ sender[w] # NoSend /\ smsCrashes < MaxSmsCrashes
    /\ SendEnds(w) /\ smsCrashes' = smsCrashes + 1
    /\ UNCHANGED <<log, submitted, rate, inWindow, sendsRaced>>

SendContinues(w) == \/ ReadRate(w) \/ WriteRate(w) \/ InsertLog(w) \/ Submit(w)
                    \/ SaveOutcome(w) \/ SaveReport(w)

NotificationsNext ==
    \/ \E w \in Worker : LookUpKey(w) \/ LoadReport(w) \/ SendContinues(w) \/ SenderCrash(w)
    \/ RateExpires

NotificationsSpec == NotificationsInit /\ [][NotificationsNext]_smsVars
-----------------------------------------------------------------------------
\* The types of the variables.
NotificationsTypeOK ==
    /\ log \in [LogId -> [status : LogStatuses \cup {"none"}, key : SendKey \cup {None},
                          named : BOOLEAN]]
    /\ submitted \subseteq LogId /\ rate \in Nat /\ inWindow \in Nat
    /\ sender \in [Worker -> [pc : {"idle", "allowed", "read", "counted", "logged", "answered",
                                    "reported"},
                              log : LogId \cup {None}, key : SendKey \cup {None}, count : Nat,
                              to : {"none", "sent", "delivered", "failed"}]]
    /\ sendsRaced \in BOOLEAN /\ smsCrashes \in Nat

\* However requests with the same key overlap, are retried or die, the
\* provider accepts at most one message for the key: send_sms inserts the log,
\* with its unique key, before it calls the provider.
OneSendPerKey ==
    \A m, n \in submitted : log[m].key = log[n].key /\ log[m].key # None => m = n

\* While sends to a recipient do not overlap, no more than the limit goes out
\* before the counter expires.  (The counter is read and written back in two
\* steps: overlapping sends pass the limit together.)
RateLimitHolds == ~sendsRaced => inWindow <= SendLimit

\* What a delivery report settled is never taken back by the sender, whose
\* save comes with the id that the report is found by; only another report
\* that was loaded before can change it.
DeliveryStays ==
    \A n \in LogId :
        log[n].status \in {"delivered", "failed"} /\ log'[n].status # log[n].status =>
            \E w \in Worker : SendAt(w, "reported") /\ sender[w].log = n
=============================================================================
