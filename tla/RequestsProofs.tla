---------------------------- MODULE RequestsProofs ----------------------------
(***************************************************************************)
(* The request handlers that check a row and write it, for every set of    *)
(* workers and rows and every bound: what a row promises holds whenever its*)
(* requests do not overlap, and what is locked holds whatever they do.     *)
(***************************************************************************)
EXTENDS Notifications, Redemptions, Accounts, Tickets, Inquiries, Addresses, Carts,
        WellFoundedInduction, TLAPS

(***************************************************************************)
(* Text messages: one submission per key, the rate limit, delivery reports.*)
(***************************************************************************)
\* The points of send_sms before its row is inserted, and all of them.
Unlogged == {"allowed", "read", "counted"}
Sending == Unlogged \cup {"logged", "answered"}

\* The types of a row and of what a request has in hand.
LogRow == [status : LogStatuses \cup {"none"}, key : SendKey \cup {None}, named : BOOLEAN]
SendRecord == [pc : {"idle", "allowed", "read", "counted", "logged", "answered", "reported"},
               log : LogId \cup {None}, key : SendKey \cup {None}, count : Nat,
               to : {"none", "sent", "delivered", "failed"}]

\* A request that is sending knows how far its row is; one that saves a report
\* has a row the provider knows.
Fits(t) ==
    /\ t.pc \in Sending => t.log \in LogId
    /\ t.pc \in Unlogged => log[t.log].status = "none"
    /\ t.pc \in {"logged", "answered"} => log[t.log].status = "pending" /\ ~log[t.log].named
    /\ t.pc = "answered" => t.to \in {"sent", "failed"}
    /\ t.pc = "reported" => /\ t.log \in LogId /\ log[t.log].named
                            /\ t.to \in {"delivered", "failed"}

\* Nobody else sends the row of t.
OwnRow(w, t) ==
    t.pc \in Sending =>
        \A v \in Worker \ {w} : sender[v].pc \in Sending => sender[v].log # t.log

SendersMatch == \A w \in Worker : Fits(sender[w]) /\ OwnRow(w, sender[w])

\* Rows have one key each, and only rows are submitted or named.
RowsMatch ==
    /\ \A m, n \in LogId : /\ log[m].status # "none" /\ log[n].status # "none"
                           /\ log[m].key = log[n].key /\ log[m].key # None
                           => m = n
    /\ \A n \in submitted : log[n].status # "none"
    /\ \A n \in LogId : log[n].named => log[n].status # "none"

SmsInv == NotificationsTypeOK /\ SendersMatch /\ RowsMatch

\* While no two requests overlap: the one at work, and the room it has found
\* in the counter for the message it may still submit.
Room(t) ==
    /\ t.pc \in {"allowed", "read"} => rate < SendLimit
    /\ t.pc = "read" => t.count = rate
    /\ t.pc \in {"counted", "logged"} => inWindow < rate

RateInv ==
    ~sendsRaced =>
        /\ inWindow <= rate /\ rate <= SendLimit
        /\ \A v, w \in Worker : sender[v] # NoSend /\ sender[w] # NoSend => v = w
        /\ \A w \in Worker : Room(sender[w])

\* A request that leaves without writing anything.
SenderEnds(w) == /\ sender' = [sender EXCEPT ![w] = NoSend] /\ smsCrashes' \in Nat
                 /\ UNCHANGED <<log, submitted, rate, inWindow, sendsRaced>>
-----------------------------------------------------------------------------
\* The type invariant, with the records named.
LEMMA Shapes ==
    ASSUME NotificationsTypeOK
    PROVE  log \in [LogId -> LogRow] /\ sender \in [Worker -> SendRecord]
  BY DEF NotificationsTypeOK, LogRow, SendRecord

\* An idle request is of the type.
LEMMA NoSendFits == NoSend \in SendRecord /\ NoSend.pc = "idle" /\ NoSend.log = None
  BY DEF NoSend, SendRecord

\* A request that goes on without writing its row.
LEMMA RequestMoves ==
    ASSUME SmsInv, NEW w \in Worker, NEW t \in SendRecord, Fits(t), OwnRow(w, t),
           sender' = [sender EXCEPT ![w] = t], log' = log, submitted' = submitted,
           rate' \in Nat, inWindow' \in Nat, smsCrashes' \in Nat, sendsRaced' \in BOOLEAN
    PROVE  SmsInv'
<1>1. NotificationsTypeOK'
  BY Shapes DEF SmsInv, NotificationsTypeOK, LogRow, SendRecord
<1>2. sender'[w] = t /\ \A v \in Worker \ {w} : sender'[v] = sender[v]
  BY Shapes DEF SmsInv
<1>3. SendersMatch'
  BY <1>2 DEF SmsInv, SendersMatch, Fits, OwnRow
<1>4. RowsMatch'
  BY DEF SmsInv, RowsMatch
<1> QED
  BY <1>1, <1>3, <1>4 DEF SmsInv

\* A request that writes the row it has in hand, which it alone sends or which
\* the provider knows already, and is left with t.
LEMMA RowWritten ==
    ASSUME SmsInv, NEW w \in Worker, NEW t \in SendRecord, NEW n \in LogId, NEW row \in LogRow,
           sender[w].log = n, t.log = n \/ t.pc = "idle",
           t.pc \in Sending => sender[w].pc \in Sending,
           sender[w].pc \in Sending \/ (log[n].named /\ row.named),
           sender[w].pc \in Sending => OwnRow(w, sender[w]) /\ ~log[n].named,
           row.status # "none",
           row.key # None =>
              \A m \in LogId \ {n} : log[m].status # "none" => log[m].key # row.key,
           sender' = [sender EXCEPT ![w] = t], log' = [log EXCEPT ![n] = row],
           submitted' = submitted, Fits(t)',
           rate' \in Nat, inWindow' \in Nat, smsCrashes' \in Nat, sendsRaced' \in BOOLEAN
    PROVE  SmsInv'
<1>1. NotificationsTypeOK'
  BY Shapes DEF SmsInv, NotificationsTypeOK, LogRow, SendRecord
<1>2. sender'[w] = t /\ \A v \in Worker \ {w} : sender'[v] = sender[v]
  BY Shapes DEF SmsInv
<1>3. log'[n] = row /\ \A m \in LogId \ {n} : log'[m] = log[m]
  BY Shapes DEF SmsInv
<1>4. ASSUME NEW v \in Worker \ {w}
      PROVE  Fits(sender[v])' /\ OwnRow(v, sender[v])'
  <2>1. Fits(sender[v]) /\ OwnRow(v, sender[v])
    BY DEF SmsInv, SendersMatch
  <2>2. CASE sender[v].log # n
    BY <1>2, <1>3, <2>1, <2>2 DEF Fits, OwnRow, Sending, Unlogged
  <2>3. CASE sender[v].log = n
    <3>1. sender[v].pc \notin Sending
      BY <2>1, <2>3 DEF SmsInv, RowsMatch, Fits, OwnRow, Sending
    <3>2. sender[v].pc = "reported" => log'[n].named
      BY <1>3, <2>1, <2>3 DEF Fits
    <3> QED
      BY <1>2, <1>3, <2>1, <2>3, <3>1, <3>2 DEF Fits, OwnRow, Sending, Unlogged
  <2> QED
    BY <2>2, <2>3
<1>5. OwnRow(w, t)'
  <2>1. "idle" \notin Sending
    BY DEF Sending, Unlogged
  <2> QED
    BY <1>2, <2>1 DEF OwnRow
<1>6. SendersMatch'
  BY <1>2, <1>4, <1>5 DEF SendersMatch
<1>7. RowsMatch'
  BY <1>3, Shapes DEF SmsInv, RowsMatch, NotificationsTypeOK
<1> QED
  BY <1>1, <1>6, <1>7 DEF SmsInv
-----------------------------------------------------------------------------
\* No notification is stored and no request is under way when the system
\* starts, so the invariant of apps/notifications holds.
THEOREM SmsInvStarts == NotificationsInit => SmsInv
<1> SUFFICES ASSUME NotificationsInit PROVE SmsInv
  OBVIOUS
<1>1. NotificationsTypeOK
  BY NotificationsAssumption
     DEF NotificationsInit, NotificationsTypeOK, NoLog, NoSend, LogStatuses
<1>2. SendersMatch
  BY DEF NotificationsInit, SendersMatch, Fits, OwnRow, Sending, Unlogged, NoSend
<1>3. RowsMatch
  BY DEF NotificationsInit, RowsMatch, NoLog
<1> QED
  BY <1>1, <1>2, <1>3 DEF SmsInv

\* Every step keeps the rows, the requests and what is submitted together: the
\* row is inserted under its unique key before the provider is called, and its
\* outcome is saved with the id that a report is found by.
THEOREM SmsStepKeeps == SmsInv /\ [NotificationsNext]_smsVars => SmsInv'
<1> SUFFICES ASSUME SmsInv, [NotificationsNext]_smsVars
             PROVE  SmsInv'
  OBVIOUS
<1>0. /\ log \in [LogId -> LogRow] /\ sender \in [Worker -> SendRecord]
      /\ rate \in Nat /\ inWindow \in Nat /\ smsCrashes \in Nat /\ sendsRaced \in BOOLEAN
      /\ submitted \subseteq LogId
  BY Shapes DEF SmsInv, NotificationsTypeOK
<1>1. \A w \in Worker : Fits(sender[w]) /\ OwnRow(w, sender[w])
  BY DEF SmsInv, SendersMatch
<1>2. ASSUME NEW w \in Worker, LookUpKey(w)
      PROVE  SmsInv'
  <2>1. PICK n \in LogId \ Logs, k \in SendKey \cup {None} :
          /\ \A v \in Worker : sender[v].log # n
          /\ StartSend(w, [NoSend EXCEPT !.pc = "allowed", !.log = n, !.key = k])
          /\ UNCHANGED <<log, submitted, rate, inWindow, smsCrashes>>
    BY <1>2 DEF LookUpKey
  <2> DEFINE t == [NoSend EXCEPT !.pc = "allowed", !.log = n, !.key = k]
  <2>2. t \in SendRecord /\ t.pc = "allowed" /\ t.log = n
    BY DEF NoSend, SendRecord
  <2>3. Fits(t) /\ OwnRow(w, t)
    BY <2>1, <2>2, <1>0 DEF Fits, OwnRow, Logs, Sending, Unlogged
  <2>4. sender' = [sender EXCEPT ![w] = t] /\ sendsRaced' \in BOOLEAN
    BY <2>1, Zenon DEF StartSend
  <2> HIDE DEF t
  <2> QED
    BY <1>0, <2>1, <2>2, <2>3, <2>4, RequestMoves
<1>3. ASSUME NEW w \in Worker, LoadReport(w)
      PROVE  SmsInv'
  <2>1. PICK n \in submitted, to \in {"delivered", "failed"} :
          /\ log[n].named
          /\ StartSend(w, [NoSend EXCEPT !.pc = "reported", !.log = n, !.to = to])
          /\ UNCHANGED <<log, submitted, rate, inWindow, smsCrashes>>
    BY <1>3 DEF LoadReport
  <2> DEFINE t == [NoSend EXCEPT !.pc = "reported", !.log = n, !.to = to]
  <2>2. t \in SendRecord /\ t.pc = "reported" /\ t.log = n /\ t.to = to
    BY <1>0 DEF NoSend, SendRecord
  <2>3. Fits(t) /\ OwnRow(w, t)
    BY <2>1, <2>2, <1>0 DEF Fits, OwnRow, Sending, Unlogged
  <2>4. sender' = [sender EXCEPT ![w] = t] /\ sendsRaced' \in BOOLEAN
    BY <2>1, Zenon DEF StartSend
  <2> HIDE DEF t
  <2> QED
    BY <1>0, <2>1, <2>2, <2>3, <2>4, RequestMoves
<1>4. ASSUME NEW w \in Worker, ReadRate(w)
      PROVE  SmsInv'
  <2> DEFINE t == [sender[w] EXCEPT !.pc = "read", !.count = rate]
  <2>1. sender[w].pc = "allowed" /\ sender' = [sender EXCEPT ![w] = t]
    BY <1>4, <1>0 DEF ReadRate, SendAt
  <2>2. t \in SendRecord /\ t.pc = "read" /\ t.log = sender[w].log
    BY <1>0 DEF SendRecord
  <2>3. Fits(t) /\ OwnRow(w, t)
    BY <1>1, <2>1, <2>2 DEF Fits, OwnRow, Sending, Unlogged
  <2> HIDE DEF t
  <2> QED
    BY <1>0, <1>4, <2>1, <2>2, <2>3, RequestMoves DEF ReadRate
<1>5. ASSUME NEW w \in Worker, WriteRate(w)
      PROVE  SmsInv'
  <2> DEFINE t == [sender[w] EXCEPT !.pc = "counted"]
  <2>1. sender[w].pc = "read" /\ sender' = [sender EXCEPT ![w] = t] /\ rate' \in Nat
    BY <1>5, <1>0 DEF WriteRate, SendAt, SendTo, SendRecord
  <2>2. t \in SendRecord /\ t.pc = "counted" /\ t.log = sender[w].log
    BY <1>0 DEF SendRecord
  <2>3. Fits(t) /\ OwnRow(w, t)
    BY <1>1, <2>1, <2>2 DEF Fits, OwnRow, Sending, Unlogged
  <2> HIDE DEF t
  <2> QED
    BY <1>0, <1>5, <2>1, <2>2, <2>3, RequestMoves DEF WriteRate
<1>6. ASSUME NEW w \in Worker, SenderEnds(w)
      PROVE  SmsInv'
  <2>1. Fits(NoSend) /\ OwnRow(w, NoSend)
    BY NoSendFits DEF Fits, OwnRow, Sending, Unlogged
  <2> QED
    BY <1>0, <1>6, <2>1, NoSendFits, RequestMoves DEF SenderEnds
<1>7. ASSUME NEW w \in Worker, InsertLog(w), ~KeyTaken(sender[w].key)
      PROVE  SmsInv'
  <2>0. PICK t \in SendRecord : t = [sender[w] EXCEPT !.pc = "logged"]
    BY <1>0 DEF SendRecord
  <2> DEFINE n == sender[w].log
             row == [NoLog EXCEPT !.status = "pending", !.key = sender[w].key]
  <2>1. /\ sender[w].pc = "counted" /\ sender' = [sender EXCEPT ![w] = t]
        /\ log' = [log EXCEPT ![n] = row]
        /\ UNCHANGED <<submitted, rate, inWindow, sendsRaced, smsCrashes>>
    BY <1>7, <2>0 DEF InsertLog, SendAt, SendTo
  <2>2. t \in SendRecord /\ t.pc = "logged" /\ t.log = n
    BY <1>0, <2>0 DEF SendRecord
  <2>3. /\ row \in LogRow /\ row.status = "pending" /\ ~row.named
        /\ row.key = sender[w].key
    BY <1>0 DEF SendRecord, LogRow, NoLog, LogStatuses
  <2>4. n \in LogId /\ log[n].status = "none" /\ ~log[n].named
    BY <1>0, <1>1, <2>1 DEF SmsInv, RowsMatch, Fits, Sending, Unlogged
  <2>5. \A m \in LogId : log[m].status # "none" /\ row.key # None => log[m].key # row.key
    BY <1>7, <2>3 DEF KeyTaken, Logs
  <2>6. sender[w].pc \in Sending /\ t.pc \in Sending /\ t.pc # "reported"
    BY <2>1, <2>2 DEF Sending, Unlogged
  <2> HIDE DEF n, row
  <2>7. log'[t.log].status = "pending" /\ ~log'[t.log].named /\ t.log \in LogId
    BY <1>0, <2>1, <2>2, <2>3, <2>4
  <2>8. Fits(t)'
    BY <2>2, <2>7 DEF Fits, Sending, Unlogged
  <2>9. row.key # None => \A m \in LogId \ {n} : log[m].status # "none" => log[m].key # row.key
    BY <2>5
  <2>10. sender[w].log = n /\ OwnRow(w, sender[w])
    BY <1>1 DEF n
  <2> QED
    BY <1>0, <2>1, <2>2, <2>3, <2>4, <2>6, <2>8, <2>9, <2>10, RowWritten
<1>8. ASSUME NEW w \in Worker, Submit(w)
      PROVE  SmsInv'
  <2>1. PICK to \in {"sent", "failed"} :
          sender' = [sender EXCEPT ![w] = [sender[w] EXCEPT !.pc = "answered", !.to = to]]
    BY <1>8, <1>0 DEF Submit
  <2> DEFINE t == [sender[w] EXCEPT !.pc = "answered", !.to = to]
  <2>2. /\ sender[w].pc = "logged" /\ submitted' \subseteq submitted \cup {sender[w].log}
        /\ inWindow' \in Nat /\ UNCHANGED <<log, rate, sendsRaced, smsCrashes>>
    BY <1>8, <1>0 DEF Submit, SendAt
  <2>3. t \in SendRecord /\ t.pc = "answered" /\ t.log = sender[w].log /\ t.to = to
    BY <1>0 DEF SendRecord
  <2>4. Fits(t) /\ OwnRow(w, t)
    BY <1>1, <2>2, <2>3 DEF Fits, OwnRow, Sending, Unlogged
  <2>5. sender[w].log \in LogId /\ log[sender[w].log].status = "pending"
    BY <1>1, <2>2 DEF Fits, Sending, Unlogged
  <2> HIDE DEF t
  <2>6. SendersMatch' /\ sender' \in [Worker -> SendRecord]
    <3>1. sender'[w] = t /\ \A v \in Worker \ {w} : sender'[v] = sender[v]
      BY <1>0, <2>1 DEF t
    <3> QED
      BY <1>0, <1>1, <2>1, <2>2, <2>3, <2>4, <3>1 DEF SendersMatch, Fits, OwnRow, t
  <2>7. NotificationsTypeOK'
    BY <1>0, <2>2, <2>5, <2>6 DEF NotificationsTypeOK, LogRow, SendRecord
  <2>8. RowsMatch'
    BY <2>2, <2>5 DEF SmsInv, RowsMatch
  <2> QED
    BY <2>6, <2>7, <2>8 DEF SmsInv
<1>9. ASSUME NEW w \in Worker, SaveOutcome(w) \/ SaveReport(w)
      PROVE  SmsInv'
  <2> DEFINE n == sender[w].log
             row == IF SaveOutcome(w)
                    THEN [log[n] EXCEPT !.status = sender[w].to, !.named = (sender[w].to = "sent")]
                    ELSE [log[n] EXCEPT !.status = sender[w].to]
  <2>1. /\ sender[w].pc = IF SaveOutcome(w) THEN "answered" ELSE "reported"
        /\ sender' = [sender EXCEPT ![w] = NoSend] /\ log' = [log EXCEPT ![n] = row]
        /\ UNCHANGED <<submitted, rate, inWindow, sendsRaced, smsCrashes>>
    BY <1>9, <1>0 DEF SaveOutcome, SaveReport, SendAt, SendEnds
  <2>2. /\ n \in LogId /\ sender[w].to \in LogStatuses
        /\ SaveOutcome(w) => /\ sender[w].pc \in Sending /\ ~log[n].named
                             /\ log[n].status = "pending"
        /\ ~SaveOutcome(w) => log[n].named
    BY <1>1, <2>1 DEF Fits, Sending, Unlogged, LogStatuses
  <2>3. /\ row \in LogRow /\ row.key = log[n].key /\ row.status # "none"
        /\ ~SaveOutcome(w) => row.named
    BY <1>0, <2>2, log[n] \in LogRow DEF LogRow, LogStatuses
  <2>4. log[n].status # "none"
    BY <2>2 DEF SmsInv, RowsMatch
  <2>5. row.key # None => \A m \in LogId \ {n} : log[m].status # "none" => log[m].key # row.key
    BY <2>2, <2>3, <2>4 DEF SmsInv, RowsMatch
  <2>6. Fits(NoSend)' /\ NoSend.pc \notin Sending
    BY NoSendFits DEF Fits, Sending, Unlogged
  <2>7. sender[w].pc \in Sending => ~log[n].named
    BY <2>1, <2>2 DEF Sending, Unlogged
  <2> HIDE DEF n, row
  <2> QED
    BY <1>0, <1>1, <2>1, <2>2, <2>3, <2>5, <2>6, <2>7, NoSendFits, RowWritten DEF n
<1>10. CASE RateExpires
  BY <1>0, <1>10 DEF RateExpires, SmsInv, NotificationsTypeOK, SendersMatch, Fits, OwnRow, RowsMatch
<1>11. CASE UNCHANGED smsVars
  BY <1>11 DEF smsVars, SmsInv, NotificationsTypeOK, SendersMatch, Fits, OwnRow, RowsMatch
<1>12. ASSUME NEW w \in Worker, SenderCrash(w) \/ (InsertLog(w) /\ KeyTaken(sender[w].key))
       PROVE  SenderEnds(w)
  BY <1>0, <1>12 DEF SenderCrash, InsertLog, SendEnds, SenderEnds
<1> QED
  BY <1>2, <1>3, <1>4, <1>5, <1>6, <1>7, <1>8, <1>9, <1>10, <1>11, <1>12
     DEF NotificationsNext, SendContinues
-----------------------------------------------------------------------------
\* The types of the variables hold throughout (apps/notifications).
THEOREM SmsTypes == NotificationsSpec => []NotificationsTypeOK
<1>1. SmsInv => NotificationsTypeOK
  BY DEF SmsInv
<1> QED
  BY <1>1, SmsInvStarts, SmsStepKeeps, PTL DEF NotificationsSpec

\* The provider accepts at most one message per idempotency key, however
\* requests with the key overlap, repeat and die (send_sms).
THEOREM KeySentOnce == NotificationsSpec => []OneSendPerKey
<1>1. SmsInv => OneSendPerKey
  BY DEF SmsInv, RowsMatch, OneSendPerKey, NotificationsTypeOK
<1> QED
  BY <1>1, SmsInvStarts, SmsStepKeeps, PTL DEF NotificationsSpec

\* What a delivery report settled is changed only by another report that had
\* been loaded (DeliveryReportView against the end of send_sms).
THEOREM DeliveryFinal == NotificationsSpec => [][DeliveryStays]_smsVars
<1>1. SmsInv /\ [NotificationsNext]_smsVars => [DeliveryStays]_smsVars
  <2> SUFFICES ASSUME SmsInv, NotificationsNext, NEW n \in LogId,
                      log[n].status \in {"delivered", "failed"}, log'[n].status # log[n].status
               PROVE  \E w \in Worker : SendAt(w, "reported") /\ sender[w].log = n
    BY DEF DeliveryStays
  <2>0. log \in [LogId -> LogRow] /\ \A w \in Worker : Fits(sender[w])
    BY Shapes DEF SmsInv, SendersMatch
  <2>1. log' # log
    OBVIOUS
  <2>2. PICK w \in Worker : InsertLog(w) \/ SaveOutcome(w) \/ SaveReport(w)
    BY <2>1 DEF NotificationsNext, SendContinues, LookUpKey, LoadReport, ReadRate, WriteRate,
                Submit, SenderCrash, RateExpires
  <2>3. sender[w].log = n
    BY <2>0, <2>1, <2>2 DEF InsertLog, SaveOutcome, SaveReport
  <2>4. ~InsertLog(w) /\ ~SaveOutcome(w)
    BY <2>0, <2>3 DEF InsertLog, SaveOutcome, SendAt, Fits, Unlogged
  <2> QED
    BY <2>2, <2>3, <2>4 DEF SaveReport
<1> QED
  BY <1>1, SmsInvStarts, SmsStepKeeps, PTL DEF NotificationsSpec

\* A request alone at work that goes on with t.
LEMMA AloneMoves ==
    ASSUME SmsInv, RateInv, ~sendsRaced, NEW w \in Worker, NEW t \in SendRecord,
           \A v \in Worker \ {w} : sender[v] = NoSend,
           sender' = [sender EXCEPT ![w] = t], Room(t)',
           rate' \in Nat, inWindow' \in Nat, inWindow' <= rate', rate' <= SendLimit
    PROVE  RateInv'
<1>1. sender'[w] = t /\ \A v \in Worker \ {w} : sender'[v] = NoSend
  BY Shapes DEF SmsInv
<1>2. \A v \in Worker \ {w} : Room(sender[v])'
  BY <1>1, NoSendFits DEF Room
<1> QED
  BY <1>1, <1>2 DEF RateInv

\* Nothing has been counted against a recipient when the system starts
\* (_check_send_rate_limit).
THEOREM RateInvStarts == NotificationsInit => RateInv
  BY NotificationsAssumption DEF NotificationsInit, RateInv, Room, NoSend

\* Every step that does not overlap another keeps a message in hand within the
\* limit (_check_send_rate_limit).
THEOREM RateStepKeeps == SmsInv /\ RateInv /\ [NotificationsNext]_smsVars => RateInv'
<1> SUFFICES ASSUME SmsInv, RateInv, [NotificationsNext]_smsVars, ~sendsRaced'
             PROVE  RateInv'
  BY DEF RateInv
<1>0. /\ sender \in [Worker -> SendRecord] /\ SendLimit \in Nat
      /\ rate \in Nat /\ inWindow \in Nat /\ sendsRaced \in BOOLEAN
  BY Shapes, NotificationsAssumption DEF SmsInv, NotificationsTypeOK
<1>1. CASE UNCHANGED smsVars
  BY <1>1 DEF smsVars, RateInv, Room
<1>2. CASE RateExpires
  BY <1>0, <1>2, NoSendFits DEF RateExpires, RateInv, Room
<1>3. ASSUME NEW w \in Worker, LookUpKey(w) \/ LoadReport(w)
      PROVE  RateInv'
  <2>1. PICK t \in SendRecord : /\ StartSend(w, t)
                                /\ (t.pc = "allowed" /\ rate < SendLimit) \/ t.pc = "reported"
    <3>1. CASE LookUpKey(w)
      <4>1. PICK n \in LogId, k \in SendKey \cup {None} :
               /\ StartSend(w, [NoSend EXCEPT !.pc = "allowed", !.log = n, !.key = k])
               /\ rate < SendLimit
        BY <3>1 DEF LookUpKey
      <4> DEFINE t == [NoSend EXCEPT !.pc = "allowed", !.log = n, !.key = k]
      <4>2. t \in SendRecord /\ t.pc = "allowed"
        BY DEF NoSend, SendRecord
      <4> HIDE DEF t
      <4> QED
        BY <4>1, <4>2, Zenon DEF t
    <3>2. CASE LoadReport(w)
      <4>1. PICK n \in LogId, to \in {"delivered", "failed"} :
               StartSend(w, [NoSend EXCEPT !.pc = "reported", !.log = n, !.to = to])
        BY <3>2 DEF LoadReport, SmsInv, NotificationsTypeOK
      <4> DEFINE t == [NoSend EXCEPT !.pc = "reported", !.log = n, !.to = to]
      <4>2. t \in SendRecord /\ t.pc = "reported"
        BY DEF NoSend, SendRecord
      <4> HIDE DEF t
      <4> QED
        BY <4>1, <4>2, Zenon DEF t
    <3> QED
      BY <1>3, <3>1, <3>2
  <2>2. ~sendsRaced /\ \A v \in Worker : sender[v] = NoSend
    BY <2>1, Zenon DEF StartSend
  <2>3. sender' = [sender EXCEPT ![w] = t] /\ rate' = rate /\ inWindow' = inWindow
    BY <1>3, <2>1 DEF StartSend, LookUpKey, LoadReport
  <2>4. Room(t)'
    BY <2>1, <2>3 DEF Room
  <2> QED
    BY <1>0, <2>2, <2>3, <2>4, AloneMoves DEF RateInv
<1>4. ASSUME NEW w \in Worker, SendContinues(w) \/ SenderCrash(w)
      PROVE  RateInv'
  <2>1. ~sendsRaced /\ sender[w] # NoSend
    BY <1>4, NoSendFits DEF SendContinues, SenderCrash, ReadRate, WriteRate, InsertLog, Submit,
                            SaveOutcome, SaveReport, SendAt
  <2>2. /\ \A v \in Worker \ {w} : sender[v] = NoSend
        /\ inWindow <= rate /\ rate <= SendLimit /\ Room(sender[w])
    BY <2>1 DEF RateInv
  <2>3. PICK t \in SendRecord : sender' = [sender EXCEPT ![w] = t] /\ Room(t)'
    <3>1. CASE ReadRate(w)
      <4>1. PICK t \in SendRecord : t = [sender[w] EXCEPT !.pc = "read", !.count = rate]
        BY <1>0 DEF SendRecord
      <4>2. sender' = [sender EXCEPT ![w] = t] /\ rate' = rate /\ inWindow' = inWindow
        BY <1>0, <3>1, <4>1 DEF ReadRate
      <4>3. t.pc = "read" /\ t.count = rate /\ rate < SendLimit
        BY <1>0, <2>2, <3>1, <4>1 DEF ReadRate, SendAt, Room, SendRecord
      <4>4. Room(t)'
        BY <4>2, <4>3 DEF Room
      <4> QED
        BY <4>2, <4>4
    <3>2. CASE WriteRate(w)
      <4>1. PICK t \in SendRecord : t = [sender[w] EXCEPT !.pc = "counted"]
        BY <1>0 DEF SendRecord
      <4>2. sender' = [sender EXCEPT ![w] = t] /\ rate' = rate + 1 /\ inWindow' = inWindow
        BY <1>0, <2>2, <3>2, <4>1 DEF WriteRate, SendAt, SendTo, Room
      <4>3. t.pc = "counted"
        BY <1>0, <4>1 DEF SendRecord
      <4>4. Room(t)'
        BY <1>0, <2>2, <4>2, <4>3 DEF Room
      <4> QED
        BY <4>2, <4>4
    <3>3. CASE InsertLog(w)
      <4>1. [sender[w] EXCEPT !.pc = "logged"] \in SendRecord
        BY <1>0 DEF SendRecord
      <4> QED
        BY <1>0, <3>3, <4>1, <2>2, NoSendFits
           DEF InsertLog, SendAt, SendTo, SendEnds, Room, SendRecord
    <3>4. CASE Submit(w)
      <4>1. PICK to \in {"sent", "failed"} :
               sender' = [sender EXCEPT ![w] = [sender[w] EXCEPT !.pc = "answered", !.to = to]]
        BY <1>0, <3>4 DEF Submit
      <4>2. PICK t \in SendRecord : t = [sender[w] EXCEPT !.pc = "answered", !.to = to]
        BY <1>0 DEF SendRecord
      <4>3. Room(t)'
        BY <1>0, <4>2 DEF Room, SendRecord
      <4> QED
        BY <4>1, <4>2, <4>3
    <3>5. CASE SaveOutcome(w) \/ SaveReport(w) \/ SenderCrash(w)
      BY <3>5, NoSendFits DEF SaveOutcome, SaveReport, SenderCrash, SendEnds, Room
    <3> QED
      BY <1>4, <3>1, <3>2, <3>3, <3>4, <3>5 DEF SendContinues
  <2>4. rate' \in Nat /\ inWindow' \in Nat /\ inWindow' <= rate' /\ rate' <= SendLimit
    BY <1>0, <1>4, <2>2 DEF SendContinues, SenderCrash, ReadRate, WriteRate, InsertLog, Submit,
                            SaveOutcome, SaveReport, SendAt, Room
  <2> QED
    BY <2>1, <2>2, <2>3, <2>4, AloneMoves
<1> QED
  BY <1>1, <1>2, <1>3, <1>4 DEF NotificationsNext

\* While sends to a recipient do not overlap, no more than the limit is
\* submitted before the counter expires.
THEOREM LimitKept == NotificationsSpec => []RateLimitHolds
<1>1. SmsInv /\ RateInv => RateLimitHolds
  BY NotificationsAssumption DEF SmsInv, NotificationsTypeOK, RateInv, RateLimitHolds
<1> QED
  BY <1>1, SmsInvStarts, SmsStepKeeps, RateInvStarts, RateStepKeeps, PTL DEF NotificationsSpec

-----------------------------------------------------------------------------
(***************************************************************************)
(* Coupons and discounts: no redemption beyond the limits.                 *)
(***************************************************************************)
\* The types of the discount's row and of what a request has in hand.
DiscountRow == [max : Limit \cup {Unlimited}, count : Nat]
Redeeming == [pc : {"idle", "coupon", "discount", "edit"}, shopper : Shopper, row : DiscountRow]

\* A request that is about to commit holds the row, and the row still has room
\* for it.
Admitted(w, t) ==
    /\ t.pc = "coupon" =>
          /\ promoLock["coupon"] = w /\ Within(used, coupon.total)
          /\ t.shopper # None => usedBy[t.shopper] < coupon.each
    /\ t.pc = "discount" =>
          promoLock["discount"] = w /\ Within(discount.count, discount.max)

\* Until an edit of the discount overlaps another request, it is alone and
\* will save the counter as it is.
EditOfLimit ==
    ~countRaced =>
        /\ discount.count = recorded
        /\ \A w \in Worker : redeemer[w].pc = "edit" =>
              /\ redeemer[w].row.count = discount.count
              /\ \A v \in Worker \ {w} : redeemer[v] = NoRedeem

RedeemInv ==
    /\ RedemptionsTypeOK
    /\ \A w \in Worker : Admitted(w, redeemer[w])
    /\ EditOfLimit
-----------------------------------------------------------------------------
\* The type invariant, with the records named.
LEMMA RedeemShapes ==
    ASSUME RedemptionsTypeOK
    PROVE  /\ redeemer \in [Worker -> Redeeming] /\ discount \in DiscountRow
           /\ promoLock \in [PromoRows -> Worker \cup {None}]
           /\ used \in Nat /\ usedBy \in [Shopper -> Nat] /\ recorded \in Nat
           /\ coupon \in CouponRow
  BY DEF RedemptionsTypeOK, Redeeming, DiscountRow

\* An idle request is of the type.
LEMMA Idle == NoRedeem \in Redeeming /\ NoRedeem.pc = "idle"
  BY DEF NoRedeem, Redeeming, NoDiscount, DiscountRow, Shopper

\* The types after a step that leaves the coupon alone.
LEMMA TypesKept ==
    ASSUME RedeemInv, redeemer' \in [Worker -> Redeeming], discount' \in DiscountRow,
           promoLock' \in [PromoRows -> Worker \cup {None}], used' \in Nat,
           usedBy' \in [Shopper -> Nat], recorded' \in Nat, coupon' \in CouponRow,
           couponDates' \in BOOLEAN, countRaced' \in BOOLEAN
    PROVE  RedemptionsTypeOK'
  BY DEF RedemptionsTypeOK, Redeeming, DiscountRow

\* A request that starts, and may take the lock of one row.
LEMMA StartKeeps ==
    ASSUME RedeemInv, NEW w \in Worker, NEW t \in Redeeming, StartRedeem(w, t),
           promoLock' \in [PromoRows -> Worker \cup {None}],
           \A r \in PromoRows : promoLock[r] # None => promoLock'[r] = promoLock[r],
           UNCHANGED <<coupon, couponDates, used, usedBy, discount, recorded>>,
           Admitted(w, t)',
           t.pc = "edit" => t.row = discount
    PROVE  RedeemInv'
<1>0. /\ redeemer[w] = NoRedeem /\ redeemer' = [redeemer EXCEPT ![w] = t]
      /\ countRaced' \in BOOLEAN /\ couponDates' \in BOOLEAN
      /\ ~countRaced' => /\ ~countRaced
                         /\ \A v \in Worker : redeemer[v] # NoRedeem =>
                               t.pc # "edit" /\ redeemer[v].pc # "edit"
  <2>1. redeemer[w] = NoRedeem /\ redeemer' = [redeemer EXCEPT ![w] = t]
    BY DEF StartRedeem
  <2>2. countRaced' = (countRaced \/ \E v \in {u \in Worker : redeemer[u] # NoRedeem} :
                                        "edit" \in {t.pc, redeemer[v].pc})
    BY Zenon DEF StartRedeem
  <2>3. countRaced' \in BOOLEAN /\ couponDates' \in BOOLEAN
    BY <2>2, Zenon DEF RedeemInv, RedemptionsTypeOK
  <2>4. ASSUME ~countRaced', NEW v \in Worker, redeemer[v] # NoRedeem
        PROVE  ~countRaced /\ t.pc # "edit" /\ redeemer[v].pc # "edit"
    BY <2>2, <2>4, Zenon
  <2>5. ~countRaced' => ~countRaced
    BY <2>2, Zenon
  <2> QED
    BY <2>1, <2>3, <2>4, <2>5
<1>1. redeemer'[w] = t /\ \A v \in Worker \ {w} : redeemer'[v] = redeemer[v]
  BY <1>0, RedeemShapes DEF RedeemInv
<1>2. RedemptionsTypeOK'
  BY <1>0, RedeemShapes, TypesKept DEF RedeemInv
<1>3. ASSUME NEW v \in Worker PROVE Admitted(v, redeemer[v])'
  <2>1. CASE v = w
    BY <1>1, <2>1
  <2>2. CASE v # w
    BY <1>1, <2>2, WorkersAssumption DEF RedeemInv, Admitted, PromoRows
  <2> QED
    BY <2>1, <2>2
<1>4. EditOfLimit'
  <2> SUFFICES ASSUME ~countRaced'
               PROVE  EditOfLimit'
    BY DEF EditOfLimit
  <2>1. ~countRaced /\ \A v \in Worker : redeemer[v].pc # "edit"
    BY <1>0, Idle
  <2>2. t.pc = "edit" => \A v \in Worker : redeemer[v] = NoRedeem
    BY <1>0
  <2>3. discount'.count = recorded'
    BY <2>1 DEF RedeemInv, EditOfLimit
  <2> QED
    BY <1>1, <2>1, <2>2, <2>3 DEF EditOfLimit
<1> QED
  BY <1>2, <1>3, <1>4 DEF RedeemInv

\* A request that ends and releases its row, whatever it wrote under the lock.
LEMMA RedeemEnds ==
    ASSUME RedeemInv, NEW w \in Worker, EndRedeem(w),
           used' \in Nat, usedBy' \in [Shopper -> Nat], discount' \in DiscountRow,
           recorded' \in Nat, UNCHANGED <<coupon, couponDates, countRaced>>,
           promoLock["coupon"] = w \/ UNCHANGED <<used, usedBy>>,
           \/ promoLock["discount"] = w
           \/ promoLock["discount"] = None
           \/ UNCHANGED <<discount, recorded>>,
           ~countRaced => discount'.count = recorded',
           ~countRaced /\ redeemer[w].pc # "edit" /\ discount'.count # discount.count =>
              \A v \in Worker : redeemer[v].pc # "edit"
    PROVE  RedeemInv'
<1>0. /\ redeemer' = [redeemer EXCEPT ![w] = NoRedeem]
      /\ promoLock' = [r \in PromoRows |-> IF promoLock[r] = w THEN None ELSE promoLock[r]]
  BY DEF EndRedeem
<1>1. redeemer'[w] = NoRedeem /\ \A v \in Worker \ {w} : redeemer'[v] = redeemer[v]
  BY <1>0, RedeemShapes DEF RedeemInv
<1>2. RedemptionsTypeOK'
  <2>1. redeemer' \in [Worker -> Redeeming] /\ promoLock' \in [PromoRows -> Worker \cup {None}]
    BY <1>0, Idle, RedeemShapes DEF RedeemInv
  <2> QED
    BY <2>1, RedeemShapes, TypesKept DEF RedeemInv, RedemptionsTypeOK
<1>3. ASSUME NEW v \in Worker PROVE Admitted(v, redeemer[v])'
  <2>1. CASE v = w
    BY <1>1, <2>1, Idle DEF Admitted
  <2>2. CASE v # w
    <3>1. \A r \in PromoRows : promoLock[r] = v => promoLock'[r] = v
      BY <1>0, <2>2, WorkersAssumption
    <3>2. Admitted(v, redeemer[v]) /\ v # None
      BY WorkersAssumption DEF RedeemInv
    <3> QED
      BY <1>1, <2>2, <3>1, <3>2 DEF Admitted, PromoRows
  <2> QED
    BY <2>1, <2>2
<1>4. EditOfLimit'
  BY <1>1, Idle DEF RedeemInv, EditOfLimit
<1> QED
  BY <1>2, <1>3, <1>4 DEF RedeemInv
-----------------------------------------------------------------------------
\* No request is under way when the system starts, so each part of the
\* invariant of apps/promotions holds.
THEOREM RedeemInvStarts == RedemptionsInit => RedeemInv
<1> SUFFICES ASSUME RedemptionsInit PROVE RedeemInv
  OBVIOUS
<1>1. RedemptionsTypeOK
  <2>1. discount \in DiscountRow /\ recorded \in Nat /\ used \in Nat
    BY DEF RedemptionsInit, DiscountRow
  <2>2. redeemer \in [Worker -> Redeeming]
    BY Idle DEF RedemptionsInit
  <2>3. promoLock \in [PromoRows -> Worker \cup {None}] /\ usedBy \in [Shopper -> Nat]
    BY DEF RedemptionsInit
  <2>4. coupon \in CouponRow /\ couponDates \in BOOLEAN /\ countRaced \in BOOLEAN
    BY DEF RedemptionsInit
  <2> QED
    BY <2>1, <2>2, <2>3, <2>4 DEF RedemptionsTypeOK, Redeeming, DiscountRow
<1>2. \A w \in Worker : Admitted(w, redeemer[w])
  BY Idle DEF RedemptionsInit, Admitted
<1>3. EditOfLimit
  BY Idle DEF RedemptionsInit, EditOfLimit
<1> QED
  BY <1>1, <1>2, <1>3 DEF RedeemInv

\* Every step keeps the room of an admitted request under its row's lock
\* (record_redemption, record_discount_redemption, update_discount).
THEOREM RedeemStepKeeps == RedeemInv /\ [RedemptionsNext]_redemptionVars => RedeemInv'
<1> SUFFICES ASSUME RedeemInv, [RedemptionsNext]_redemptionVars
             PROVE  RedeemInv'
  OBVIOUS
<1>0. /\ redeemer \in [Worker -> Redeeming] /\ discount \in DiscountRow
      /\ promoLock \in [PromoRows -> Worker \cup {None}]
      /\ used \in Nat /\ usedBy \in [Shopper -> Nat] /\ recorded \in Nat
      /\ coupon \in CouponRow /\ couponDates \in BOOLEAN /\ countRaced \in BOOLEAN
      /\ \A w \in Worker : Admitted(w, redeemer[w])
  BY RedeemShapes DEF RedeemInv, RedemptionsTypeOK
<1>1. ASSUME NEW w \in Worker, LockCoupon(w)
      PROVE  RedeemInv'
  <2>1. PICK s \in Shopper :
          /\ promoLock["coupon"] = None /\ Redeemable(s)
          /\ StartRedeem(w, [NoRedeem EXCEPT !.pc = "coupon", !.shopper = s])
          /\ promoLock' = [promoLock EXCEPT !["coupon"] = w]
          /\ UNCHANGED <<coupon, couponDates, used, usedBy, discount, recorded>>
    BY <1>1 DEF LockCoupon
  <2>2. PICK t \in Redeeming : t = [NoRedeem EXCEPT !.pc = "coupon", !.shopper = s]
    BY Idle DEF NoRedeem, Redeeming, NoDiscount, DiscountRow
  <2>3. t.pc = "coupon" /\ t.shopper = s
    BY <2>2 DEF NoRedeem
  <2>4. /\ promoLock' \in [PromoRows -> Worker \cup {None}] /\ promoLock'["coupon"] = w
        /\ \A r \in PromoRows : promoLock[r] # None => promoLock'[r] = promoLock[r]
    BY <1>0, <2>1 DEF PromoRows
  <2>5. Admitted(w, t)'
    BY <2>1, <2>3, <2>4 DEF Admitted, Redeemable, Within
  <2> QED
    BY <2>1, <2>2, <2>3, <2>4, <2>5, StartKeeps
<1>2. ASSUME NEW w \in Worker, LockDiscount(w)
      PROVE  RedeemInv'
  <2>1. PICK t \in Redeeming : t = [NoRedeem EXCEPT !.pc = "discount"]
    BY Idle DEF NoRedeem, Redeeming, NoDiscount, DiscountRow, Shopper
  <2>2. /\ StartRedeem(w, t) /\ t.pc = "discount" /\ promoLock["discount"] = None
        /\ promoLock' = [promoLock EXCEPT !["discount"] = w]
        /\ Within(discount.count, discount.max)
        /\ UNCHANGED <<coupon, couponDates, used, usedBy, discount, recorded>>
    BY <1>2, <2>1 DEF LockDiscount, NoRedeem
  <2>3. /\ promoLock' \in [PromoRows -> Worker \cup {None}] /\ promoLock'["discount"] = w
        /\ \A r \in PromoRows : promoLock[r] # None => promoLock'[r] = promoLock[r]
    BY <1>0, <2>2 DEF PromoRows
  <2>4. Admitted(w, t)'
    BY <2>2, <2>3 DEF Admitted, Within
  <2> QED
    BY <2>2, <2>3, <2>4, StartKeeps
<1>3. ASSUME NEW w \in Worker, LoadDiscount(w)
      PROVE  RedeemInv'
  <2>1. PICK t \in Redeeming : t = [NoRedeem EXCEPT !.pc = "edit", !.row = discount]
    BY <1>0, Idle DEF NoRedeem, Redeeming, Shopper
  <2>2. /\ StartRedeem(w, t) /\ t.pc = "edit" /\ t.row = discount
        /\ UNCHANGED <<coupon, couponDates, used, usedBy, discount, recorded, promoLock>>
    BY <1>3, <2>1 DEF LoadDiscount, NoRedeem
  <2>3. Admitted(w, t)'
    BY <2>2 DEF Admitted
  <2> QED
    BY <1>0, <2>2, <2>3, StartKeeps
<1>4. ASSUME NEW w \in Worker, CommitRedemption(w)
      PROVE  RedeemInv'
  <2>1. redeemer[w].pc = "coupon" /\ promoLock["coupon"] = w /\ redeemer[w].shopper \in Shopper
    BY <1>0, <1>4 DEF CommitRedemption, Admitted, Redeeming
  <2>2. /\ EndRedeem(w) /\ UNCHANGED <<coupon, couponDates, discount, recorded, countRaced>>
        /\ used' \in Nat /\ usedBy' \in [Shopper -> Nat]
    BY <1>0, <1>4, <2>1 DEF CommitRedemption
  <2>3. ~countRaced => discount'.count = recorded'
    BY <2>2 DEF RedeemInv, EditOfLimit
  <2> QED
    BY <1>0, <2>1, <2>2, <2>3, RedeemEnds
<1>5. ASSUME NEW w \in Worker, CommitCount(w)
      PROVE  RedeemInv'
  <2>1. redeemer[w].pc = "discount" /\ promoLock["discount"] = w
    BY <1>0, <1>5 DEF CommitCount, Admitted
  <2>2. /\ EndRedeem(w) /\ UNCHANGED <<coupon, couponDates, used, usedBy, countRaced>>
        /\ discount' \in DiscountRow /\ recorded' \in Nat
        /\ discount.count = recorded => discount'.count = recorded'
    BY <1>0, <1>5 DEF CommitCount, DiscountRow
  <2>3. ~countRaced => \A v \in Worker : redeemer[v].pc # "edit"
    BY <2>1, Idle DEF RedeemInv, EditOfLimit
  <2>4. ~countRaced => discount'.count = recorded'
    BY <2>2 DEF RedeemInv, EditOfLimit
  <2> QED
    BY <1>0, <2>1, <2>2, <2>3, <2>4, RedeemEnds
<1>6. ASSUME NEW w \in Worker, SaveDiscount(w)
      PROVE  RedeemInv'
  <2>1. PICK n \in Limit \cup {Unlimited} : discount' = [redeemer[w].row EXCEPT !.max = n]
    BY <1>6 DEF SaveDiscount
  <2>2. /\ redeemer[w].pc = "edit" /\ promoLock["discount"] = None /\ EndRedeem(w)
        /\ UNCHANGED <<coupon, couponDates, used, usedBy, recorded, countRaced>>
    BY <1>6 DEF SaveDiscount
  <2>3. discount' \in DiscountRow /\ discount'.count = redeemer[w].row.count
    BY <1>0, <2>1 DEF DiscountRow, Redeeming
  <2>4. ~countRaced => discount'.count = discount.count /\ discount'.count = recorded'
    BY <2>2, <2>3 DEF RedeemInv, EditOfLimit
  <2> QED
    BY <1>0, <2>2, <2>3, <2>4, RedeemEnds
<1>7. CASE EditCoupon
  <2>1. RedemptionsTypeOK'
    BY <1>0, <1>7, TypesKept DEF EditCoupon
  <2>2. EditOfLimit'
    BY <1>7 DEF RedeemInv, EditCoupon, EditOfLimit
  <2>3. \A w \in Worker : Admitted(w, redeemer[w])'
    BY <1>0, <1>7, WorkersAssumption DEF EditCoupon, Admitted
  <2> QED
    BY <2>1, <2>2, <2>3 DEF RedeemInv
<1>8. CASE CouponDatesTurn
  <2>1. couponDates' \in BOOLEAN
    BY <1>8, Zenon DEF CouponDatesTurn
  <2>2. RedemptionsTypeOK'
    BY <1>0, <1>8, <2>1, TypesKept DEF CouponDatesTurn
  <2> QED
    BY <1>8, <2>2 DEF RedeemInv, CouponDatesTurn, EditOfLimit, Admitted
<1>9. CASE UNCHANGED redemptionVars
  BY <1>9 DEF redemptionVars, RedeemInv, RedemptionsTypeOK, EditOfLimit, Admitted
<1> QED
  BY <1>1, <1>2, <1>3, <1>4, <1>5, <1>6, <1>7, <1>8, <1>9 DEF RedemptionsNext
-----------------------------------------------------------------------------
\* The types of the variables hold throughout (apps/promotions).
THEOREM RedemptionTypes == RedemptionsSpec => []RedemptionsTypeOK
<1>1. RedeemInv => RedemptionsTypeOK
  BY DEF RedeemInv
<1> QED
  BY <1>1, RedeemInvStarts, RedeemStepKeeps, PTL DEF RedemptionsSpec

\* No redemption is recorded beyond the limits of the coupon or the discount
\* as they stand when it commits, and the discount's counter is the number of
\* its redemptions until an edit overlaps another request.
THEOREM NothingBeyondLimits == RedemptionsSpec => LimitsHold
<1> DEFINE Held ==
      /\ \A s \in Shopper : usedBy'[s] > usedBy[s] =>
            /\ coupon.total = Unlimited \/ used' <= coupon.total
            /\ s = None \/ usedBy'[s] <= coupon.each
      /\ ~countRaced => discount.count = recorded
      /\ recorded' > recorded => discount.max = Unlimited \/ discount'.count <= discount.max
<1>1. RedeemInv /\ RedemptionsNext => Held
  <2> SUFFICES ASSUME RedeemInv, RedemptionsNext
               PROVE  Held
    OBVIOUS
  <2>0. /\ redeemer \in [Worker -> Redeeming] /\ discount \in DiscountRow
        /\ used \in Nat /\ usedBy \in [Shopper -> Nat] /\ recorded \in Nat
        /\ coupon \in CouponRow /\ Limit \subseteq Nat
        /\ \A w \in Worker : Admitted(w, redeemer[w])
    BY RedeemShapes, RedemptionsAssumption DEF RedeemInv
  <2>1. ~countRaced => discount.count = recorded
    BY DEF RedeemInv, EditOfLimit
  <2>2. ASSUME NEW s \in Shopper, usedBy'[s] > usedBy[s]
        PROVE  /\ coupon.total = Unlimited \/ used' <= coupon.total
               /\ s = None \/ usedBy'[s] <= coupon.each
    <3>1. usedBy' # usedBy
      BY <2>0, <2>2
    <3>2. PICK w \in Worker : CommitRedemption(w)
      BY <3>1 DEF RedemptionsNext, LockCoupon, LockDiscount, LoadDiscount, CommitCount,
                  SaveDiscount, EditCoupon, CouponDatesTurn
    <3>3. /\ redeemer[w].pc = "coupon" /\ used' = used + 1
          /\ usedBy' = [usedBy EXCEPT ![redeemer[w].shopper] = @ + 1]
      BY <3>1, <3>2 DEF CommitRedemption
    <3>4. s = redeemer[w].shopper /\ usedBy'[s] = usedBy[s] + 1
      BY <2>0, <2>2, <3>3 DEF Redeeming
    <3>5. coupon.total \in Nat \cup {Unlimited} /\ coupon.each \in Nat
      BY <2>0 DEF CouponRow
    <3>6. Within(used, coupon.total) /\ (s # None => usedBy[s] < coupon.each)
      BY <2>0, <3>3, <3>4 DEF Admitted
    <3>7. coupon.total = Unlimited \/ used' <= coupon.total
      BY <2>0, <3>3, <3>5, <3>6 DEF Within
    <3>8. s = None \/ usedBy'[s] <= coupon.each
      BY <2>0, <3>4, <3>5, <3>6
    <3> QED
      BY <3>7, <3>8
  <2>3. ASSUME recorded' > recorded
        PROVE  discount.max = Unlimited \/ discount'.count <= discount.max
    <3>1. recorded' # recorded
      BY <2>0, <2>3
    <3>2. PICK w \in Worker : CommitCount(w)
      BY <3>1 DEF RedemptionsNext, LockCoupon, LockDiscount, LoadDiscount, CommitRedemption,
                  SaveDiscount, EditCoupon, CouponDatesTurn
    <3>3. redeemer[w].pc = "discount" /\ discount' = [discount EXCEPT !.count = @ + 1]
      BY <3>1, <3>2 DEF CommitCount
    <3> QED
      BY <2>0, <3>3 DEF Admitted, Within, DiscountRow
  <2> QED
    BY <2>1, <2>2, <2>3
<1>2. RedeemInv /\ [RedemptionsNext]_redemptionVars => [Held]_redemptionVars
  BY <1>1
<1>3. RedemptionsSpec => [][Held]_redemptionVars
  BY <1>2, RedeemInvStarts, RedeemStepKeeps, PTL DEF RedemptionsSpec
<1> QED
  BY <1>3 DEF LimitsHold

-----------------------------------------------------------------------------
(***************************************************************************)
(* Passwords and refresh tokens.                                           *)
(***************************************************************************)
CallRecord == [op : {"none", "refresh", "change", "reset", "profile", "changed", "revoke"},
               password : 0 .. passwords, token : Token \cup {None}, tokens : SUBSET Token]

TokenRecord == [state : {"unused", "live", "revoked"}, since : 0 .. passwords]

\* What a request knows as long as none overlapped it: the profile form has the
\* password of the row, a refresh has a live token, and a revocation has every live
\* token in hand and the password that its change has set.
CallerKnows(c) ==
    /\ c.op = "profile" => c.password = password
    /\ c.op = "refresh" => c.token \in Live
    /\ c.op = "revoke" => Live \subseteq c.tokens

OneCall == \A v, w \in Worker : caller[v] # NoCall /\ caller[w] # NoCall => v = w

HoldsToken == \A w \in Worker : caller[w].op = "refresh" => caller[w].token \in Token

AccountsInv ==
    /\ AccountsTypeOK /\ HoldsToken /\ LastPasswordStays
    /\ ~callsRaced => OneCall /\ \A w \in Worker : CallerKnows(caller[w])
-----------------------------------------------------------------------------
\* The types of the variables, by their records.
LEMMA AccountShapes ==
    AccountsTypeOK <=>
        /\ passwords \in 0 .. MaxPasswords /\ password \in 0 .. passwords
        /\ token \in [Token -> TokenRecord] /\ revokedTo \in 0 .. passwords
        /\ caller \in [Worker -> CallRecord]
        /\ callsRaced \in BOOLEAN /\ accountCrashes \in Nat
  BY Zenon DEF AccountsTypeOK, CallRecord, TokenRecord

\* An idle slot's record.
LEMMA IdleCall ==
    NoCall.op = "none" /\ NoCall.password = 0 /\ NoCall.token = None /\ NoCall.tokens = {}
  BY DEF NoCall

\* Nothing is under way at the start and no password was changed.
LEMMA AccountsStart == AccountsInit => AccountsInv
<1> SUFFICES ASSUME AccountsInit PROVE AccountsInv
  OBVIOUS
<1>1. \A w \in Worker : caller[w] = NoCall
  BY DEF AccountsInit
<1>2. AccountsTypeOK
  <2>1. NoCall \in CallRecord /\ NoToken \in TokenRecord /\ passwords = 0
    BY AccountsAssumption DEF AccountsInit, NoCall, NoToken, CallRecord, TokenRecord
  <2>2. token \in [Token -> TokenRecord] /\ caller \in [Worker -> CallRecord]
    BY <2>1 DEF AccountsInit
  <2>3. /\ passwords \in 0 .. MaxPasswords /\ password \in 0 .. passwords
        /\ revokedTo \in 0 .. passwords /\ accountCrashes \in Nat
    <3>1. password = 0 /\ passwords = 0 /\ revokedTo = 0 /\ accountCrashes = 0
      BY DEF AccountsInit
    <3> QED
      BY <3>1, AccountsAssumption
  <2>4. callsRaced \in BOOLEAN
    BY Zenon DEF AccountsInit
  <2> QED
    BY <2>2, <2>3, <2>4, AccountShapes, Zenon
<1>3. Live = {}
  BY DEF AccountsInit, NoToken, Live
<1> QED
  BY <1>1, <1>2, <1>3, IdleCall
     DEF AccountsInit, AccountsInv, HoldsToken, LastPasswordStays, OneCall, CallerKnows

\* A request that begins.
LEMMA CallKeeps ==
    ASSUME AccountsInv, NEW w \in Worker, NEW c \in CallRecord, Call(w, c),
           UNCHANGED <<password, passwords, token, revokedTo>>,
           c.op # "revoke", c.op = "profile" => c.password = password,
           c.op = "refresh" => c.token \in Live
    PROVE  AccountsInv'
<1>0. /\ caller \in [Worker -> CallRecord] /\ caller[w] = NoCall
      /\ caller' = [caller EXCEPT ![w] = c] /\ accountCrashes' = accountCrashes
      /\ callsRaced' = (callsRaced \/ \E v \in Worker : caller[v] # NoCall)
  BY AccountShapes DEF AccountsInv, Call
<1>1. Live' = Live /\ Live \subseteq Token
  BY DEF Live
<1>2. caller'[w] = c /\ \A v \in Worker \ {w} : caller'[v] = caller[v]
  BY <1>0
<1>3. callsRaced' \in BOOLEAN
  BY <1>0, AccountShapes, Zenon DEF AccountsInv
<1>4. AccountsTypeOK'
  <2>1. caller' \in [Worker -> CallRecord']
    BY <1>0 DEF CallRecord
  <2> QED
    BY <1>0, <1>3, <2>1, AccountShapes DEF AccountsInv, AccountsTypeOK, CallRecord
<1>5. HoldsToken'
  BY <1>1, <1>2 DEF AccountsInv, HoldsToken
<1>6. ASSUME ~callsRaced' PROVE LastPasswordStays' /\ OneCall' /\ \A v \in Worker : CallerKnows(caller[v])'
  <2>1. ~callsRaced /\ \A v \in Worker : caller[v] = NoCall
    BY <1>0, <1>6, Zenon
  <2>2. LastPasswordStays'
    BY <1>1, <2>1 DEF AccountsInv, LastPasswordStays
  <2>3. OneCall'
    BY <1>2, <2>1 DEF OneCall
  <2>4. \A v \in Worker : CallerKnows(caller[v])'
    BY <1>1, <1>2, <2>1, IdleCall DEF CallerKnows
  <2> QED
    BY <2>2, <2>3, <2>4
<1>7. LastPasswordStays'
  BY <1>6 DEF LastPasswordStays
<1> QED
  BY <1>4, <1>5, <1>6, <1>7 DEF AccountsInv

\* A request goes on or ends: only its own record and the account move, and while
\* none has overlapped it, it keeps what LastPasswordStays says and what it knows.
LEMMA GoesKeeps ==
    ASSUME AccountsInv, NEW w \in Worker, NEW c, Goes(w, c), caller[w] # NoCall,
           passwords' \in 0 .. MaxPasswords, passwords' >= passwords,
           c \in CallRecord', password' \in 0 .. passwords', revokedTo' \in 0 .. passwords',
           token' \in [Token -> TokenRecord'],
           c.op = "refresh" => c.token \in Token,
           ~callsRaced => /\ password' = passwords'
                          /\ \A k \in Live' : token'[k].since >= revokedTo'
                          /\ CallerKnows(c)'
    PROVE  AccountsInv'
<1>0. /\ caller \in [Worker -> CallRecord] /\ passwords \in Nat
      /\ caller' = [caller EXCEPT ![w] = c] /\ callsRaced' = callsRaced
      /\ accountCrashes' = accountCrashes
  BY AccountShapes, AccountsAssumption DEF AccountsInv, Goes
<1>1. caller'[w] = c /\ \A v \in Worker \ {w} : caller'[v] = caller[v]
  BY <1>0
<1>2. CallRecord \subseteq CallRecord'
  BY <1>0 DEF CallRecord
<1>3. caller' \in [Worker -> CallRecord']
  BY <1>0, <1>2
<1>4. AccountsTypeOK'
  BY <1>0, <1>3, AccountShapes DEF AccountsInv, AccountsTypeOK, CallRecord, TokenRecord
<1>5. HoldsToken'
  BY <1>1 DEF AccountsInv, HoldsToken
<1>6. ASSUME ~callsRaced PROVE OneCall' /\ \A v \in Worker : CallerKnows(caller[v])'
  <2>1. \A v \in Worker \ {w} : caller[v] = NoCall
    BY <1>6 DEF AccountsInv, OneCall
  <2>2. OneCall'
    BY <1>1, <2>1 DEF OneCall
  <2>3. \A v \in Worker : CallerKnows(caller[v])'
    <3>1. CallerKnows(caller[w])'
      BY <1>1, <1>6 DEF CallerKnows
    <3>2. \A v \in Worker \ {w} : CallerKnows(caller[v])'
      BY <1>1, <2>1, IdleCall DEF CallerKnows
    <3> QED
      BY <3>1, <3>2
  <2> QED
    BY <2>2, <2>3
<1>7. LastPasswordStays'
  BY <1>0 DEF LastPasswordStays
<1> QED
  BY <1>0, <1>4, <1>5, <1>6, <1>7 DEF AccountsInv

\* Every step keeps it.
LEMMA AccountsStepKeeps == AccountsInv /\ [AccountsNext]_accountVars => AccountsInv'
<1> SUFFICES ASSUME AccountsInv, [AccountsNext]_accountVars PROVE AccountsInv'
  OBVIOUS
<1>0. /\ passwords \in 0 .. MaxPasswords /\ password \in 0 .. passwords
      /\ token \in [Token -> TokenRecord] /\ revokedTo \in 0 .. passwords
      /\ caller \in [Worker -> CallRecord] /\ passwords \in Nat
      /\ accountCrashes \in Nat /\ MaxPasswords \in Nat
  BY AccountShapes, AccountsAssumption DEF AccountsInv
<1>1. Live \subseteq Token /\ \A k \in Token : k \in Live <=> token[k].state = "live"
  BY DEF Live
<1>a. ASSUME AtOnce, token' \in [Token -> TokenRecord],
             ~callsRaced /\ (\A v \in Worker : caller[v] = NoCall) =>
                 \A k \in Live' : token'[k].since >= revokedTo
      PROVE  AccountsInv'
  <2>1. /\ UNCHANGED <<password, passwords, revokedTo, caller, accountCrashes>>
        /\ callsRaced' = (callsRaced \/ \E v \in Worker : caller[v] # NoCall)
    BY <1>a DEF AtOnce
  <2>2. callsRaced' \in BOOLEAN
    BY <2>1, AccountShapes, Zenon DEF AccountsInv
  <2>3. AccountsTypeOK'
    BY <1>0, <1>a, <2>1, <2>2, AccountShapes DEF AccountsInv, AccountsTypeOK, CallRecord, TokenRecord
  <2>4. HoldsToken'
    BY <2>1 DEF AccountsInv, HoldsToken
  <2>5. ASSUME ~callsRaced'
        PROVE  LastPasswordStays' /\ OneCall' /\ \A w \in Worker : CallerKnows(caller[w])'
    <3>1. ~callsRaced /\ \A v \in Worker : caller[v] = NoCall
      BY <2>1, <2>5, Zenon
    <3>2. LastPasswordStays'
      BY <1>a, <2>1, <3>1 DEF AccountsInv, LastPasswordStays
    <3>3. OneCall' /\ \A w \in Worker : CallerKnows(caller[w])'
      BY <2>1, <3>1, IdleCall DEF OneCall, CallerKnows
    <3> QED
      BY <3>2, <3>3
  <2>6. LastPasswordStays'
    BY <2>5 DEF LastPasswordStays
  <2> QED
    BY <2>3, <2>4, <2>5, <2>6 DEF AccountsInv
<1>2. CASE Login
  <2>1. PICK k \in Token : /\ token' = [token EXCEPT ![k] = [state |-> "live", since |-> password]]
                           /\ AtOnce
    BY <1>2 DEF Login
  <2>2. token' \in [Token -> TokenRecord]
    BY <1>0, <2>1 DEF TokenRecord
  <2>3. ASSUME ~callsRaced PROVE \A j \in Live' : token'[j].since >= revokedTo
    <3>1. password = passwords /\ \A j \in Live : token[j].since >= revokedTo
      BY <2>3 DEF AccountsInv, LastPasswordStays
    <3>2. password >= revokedTo
      BY <1>0, <3>1
    <3> QED
      BY <1>0, <2>1, <3>1, <3>2 DEF Live
  <2> QED
    BY <1>a, <2>1, <2>2, <2>3
<1>3. CASE Logout
  <2>1. PICK k \in Live : token' = [token EXCEPT ![k].state = "revoked"] /\ AtOnce
    BY <1>3 DEF Logout
  <2>2. token' \in [Token -> TokenRecord]
    BY <1>0, <2>1 DEF TokenRecord
  <2>3. ASSUME ~callsRaced PROVE \A j \in Live' : token'[j].since >= revokedTo
    <3>1. \A j \in Live : token[j].since >= revokedTo
      BY <2>3 DEF AccountsInv, LastPasswordStays
    <3> QED
      BY <1>0, <2>1, <3>1 DEF Live, TokenRecord
  <2> QED
    BY <1>a, <2>1, <2>2, <2>3
<1>4. ASSUME NEW w \in Worker, CheckToken(w) PROVE AccountsInv'
  <2>1. PICK k \in Live : /\ Call(w, [NoCall EXCEPT !.op = "refresh", !.token = k])
                          /\ UNCHANGED <<password, passwords, token, revokedTo>>
    BY <1>4 DEF CheckToken
  <2>2. PICK c \in CallRecord : c = [NoCall EXCEPT !.op = "refresh", !.token = k]
    <3>1. k \in Token /\ 0 \in 0 .. passwords
      BY <1>0, <1>1
    <3> QED
      BY <3>1 DEF NoCall, CallRecord
  <2>3. c.op = "refresh" /\ c.token = k /\ Call(w, c)
    BY <2>1, <2>2 DEF NoCall
  <2> QED
    BY <2>1, <2>3, CallKeeps
<1>5. ASSUME NEW w \in Worker, RotateToken(w) PROVE AccountsInv'
  <2> DEFINE c == caller[w]
  <2>1. PICK k \in Token :
          /\ token[k] = NoToken
          /\ token' = [token EXCEPT ![c.token].state = "revoked",
                                    ![k] = [token[c.token] EXCEPT !.state = "live"]]
          /\ c.op = "refresh" /\ Goes(w, NoCall)
          /\ UNCHANGED <<password, passwords, revokedTo>>
    BY <1>5 DEF RotateToken
  <2>2. c.token \in Token /\ c # NoCall
    BY <2>1, IdleCall DEF AccountsInv, HoldsToken
  <2>3. token' \in [Token -> TokenRecord]
    BY <1>0, <2>1, <2>2 DEF TokenRecord
  <2>4. ASSUME ~callsRaced PROVE \A j \in Live' : token'[j].since >= revokedTo
    <3>1. c.token \in Live /\ \A j \in Live : token[j].since >= revokedTo
      BY <2>1, <2>4 DEF AccountsInv, LastPasswordStays, CallerKnows
    <3>2. \A j \in Token : \/ j = k /\ token'[j].since = token[c.token].since
                           \/ j = c.token /\ j # k /\ token'[j].state = "revoked"
                           \/ j \notin {k, c.token} /\ token'[j] = token[j]
      BY <1>0, <2>1, <2>2 DEF TokenRecord
    <3> QED
      BY <3>1, <3>2 DEF Live
  <2>5. NoCall \in CallRecord' /\ CallerKnows(NoCall)'
    BY <1>0, <2>1 DEF NoCall, CallRecord, CallerKnows
  <2>6. ~callsRaced => password' = passwords'
    BY <2>1 DEF AccountsInv, LastPasswordStays
  <2>7. TokenRecord' = TokenRecord
    BY <2>1 DEF TokenRecord
  <2>8. /\ Goes(w, NoCall) /\ caller[w] # NoCall /\ NoCall.op # "refresh"
        /\ passwords' \in 0 .. MaxPasswords /\ passwords' >= passwords
        /\ password' \in 0 .. passwords' /\ revokedTo' \in 0 .. passwords'
        /\ token' \in [Token -> TokenRecord']
    BY <1>0, <2>1, <2>2, <2>3, <2>7, IdleCall
  <2>9. ~callsRaced => \A j \in Live' : token'[j].since >= revokedTo'
    BY <2>1, <2>4
  <2> QED
    BY <2>5, <2>6, <2>8, <2>9, GoesKeeps
<1>6. ASSUME NEW w \in Worker, LoadAccount(w) PROVE AccountsInv'
  <2>1. PICK op \in {"change", "reset", "profile"} :
          /\ Call(w, [NoCall EXCEPT !.op = op, !.password = password])
          /\ UNCHANGED <<password, passwords, token, revokedTo>>
    BY <1>6 DEF LoadAccount
  <2>2. PICK c \in CallRecord : c = [NoCall EXCEPT !.op = op, !.password = password]
    BY <1>0 DEF NoCall, CallRecord
  <2>3. c.op = op /\ c.password = password /\ Call(w, c)
    BY <2>1, <2>2 DEF NoCall
  <2> QED
    BY <2>1, <2>3, CallKeeps
<1>7. ASSUME NEW w \in Worker, SavePassword(w) PROVE AccountsInv'
  <2> DEFINE c == caller[w]
  <2>0. PICK d : d = IF c.op = "change" THEN [c EXCEPT !.op = "changed", !.password = passwords + 1]
                                        ELSE NoCall
    OBVIOUS
  <2>1. /\ c.op \in {"change", "reset"} /\ passwords < MaxPasswords
        /\ passwords' = passwords + 1 /\ password' = passwords + 1
        /\ Goes(w, d) /\ UNCHANGED <<token, revokedTo>>
    BY <1>7, <2>0 DEF SavePassword
  <2>2. c # NoCall /\ passwords' \in 0 .. MaxPasswords /\ passwords' >= passwords
    BY <1>0, <2>1, IdleCall
  <2>3. d \in CallRecord' /\ d.op \in {"changed", "none"}
    <3>1. c \in CallRecord /\ 0 \in 0 .. passwords' /\ passwords + 1 \in 0 .. passwords'
      BY <1>0, <2>1
    <3>2. CASE c.op = "change"
      <4>1. d = [c EXCEPT !.op = "changed", !.password = passwords + 1]
        BY <2>0, <3>2
      <4> QED
        BY <3>1, <4>1 DEF CallRecord
    <3>3. CASE c.op # "change"
      <4>1. d = NoCall
        BY <2>0, <3>3
      <4> QED
        BY <3>1, <4>1 DEF CallRecord, NoCall
    <3> QED
      BY <3>2, <3>3
  <2>4. token' \in [Token -> TokenRecord'] /\ revokedTo' \in 0 .. passwords'
        /\ password' \in 0 .. passwords'
    BY <1>0, <2>1 DEF TokenRecord
  <2>5. ~callsRaced => \A k \in Live' : token'[k].since >= revokedTo'
    BY <2>1 DEF AccountsInv, LastPasswordStays, Live
  <2>6. CallerKnows(d)'
    BY <2>3 DEF CallerKnows
  <2> QED
    BY <2>1, <2>2, <2>3, <2>4, <2>5, <2>6, GoesKeeps
<1>8. ASSUME NEW w \in Worker, ReadTokens(w) PROVE AccountsInv'
  <2> DEFINE c == caller[w]
  <2>0. PICK d : d = [c EXCEPT !.op = "revoke", !.tokens = Live]
    OBVIOUS
  <2>1. /\ c.op = "changed" /\ Goes(w, d)
        /\ UNCHANGED <<password, passwords, token, revokedTo>>
    BY <1>8, <2>0 DEF ReadTokens
  <2>2. c # NoCall
    BY <2>1, IdleCall
  <2>3. d \in CallRecord' /\ d.op = "revoke" /\ d.tokens = Live
    BY <1>0, <1>1, <2>0, <2>1 DEF CallRecord
  <2>4. Live' = Live /\ TokenRecord' = TokenRecord
    BY <2>1 DEF Live, TokenRecord
  <2>5. CallerKnows(d)'
    BY <2>3, <2>4 DEF CallerKnows
  <2>6. ~callsRaced => password = passwords /\ \A k \in Live : token[k].since >= revokedTo
    BY DEF AccountsInv, LastPasswordStays
  <2> QED
    BY <1>0, <2>1, <2>2, <2>3, <2>4, <2>5, <2>6, GoesKeeps
<1>9. ASSUME NEW w \in Worker, RevokeToken(w) PROVE AccountsInv'
  <2> DEFINE c == caller[w]
  <2>1. c.op = "revoke" /\ c # NoCall /\ UNCHANGED <<password, passwords>> /\ c \in CallRecord
    BY <1>0, <1>9, IdleCall DEF RevokeToken
  <2>2. ~callsRaced => /\ password = passwords /\ Live \subseteq c.tokens
                       /\ \A k \in Live : token[k].since >= revokedTo
    BY <2>1 DEF AccountsInv, LastPasswordStays, CallerKnows
  <2>3. TokenRecord' = TokenRecord /\ CallRecord' = CallRecord /\ NoCall \in CallRecord
    BY <1>0, <2>1 DEF TokenRecord, CallRecord, NoCall
  <2>4. CallerKnows(NoCall)'
    BY IdleCall DEF CallerKnows
  <2>5. CASE c.tokens = {}
    <3>1. revokedTo' = c.password /\ Goes(w, NoCall) /\ UNCHANGED token
      BY <1>9, <2>5 DEF RevokeToken
    <3>2. c.password \in 0 .. passwords
      BY <2>1 DEF CallRecord
    <3>3. ~callsRaced => Live' = {}
      BY <2>2, <2>5, <3>1 DEF Live
    <3> QED
      BY <1>0, <2>1, <2>2, <2>3, <2>4, <3>1, <3>2, <3>3, IdleCall, GoesKeeps
  <2>6. CASE c.tokens # {}
    <3> DEFINE k == CHOOSE j \in c.tokens : TRUE
    <3>1. k \in c.tokens /\ revokedTo' = revokedTo
      BY <1>9, <2>6 DEF RevokeToken
    <3>2. CASE k \in Live
      <4>0. PICK d : d = [c EXCEPT !.tokens = @ \ {k}]
        OBVIOUS
      <4>1. token' = [token EXCEPT ![k].state = "revoked"] /\ Goes(w, d)
        BY <1>9, <2>6, <3>2, <4>0 DEF RevokeToken
      <4> HIDE DEF k
      <4>2. token' \in [Token -> TokenRecord]
        BY <1>0, <1>1, <3>2, <4>1 DEF TokenRecord
      <4>3. Live' = Live \ {k} /\ \A j \in Live' : token'[j] = token[j]
        BY <1>0, <1>1, <3>2, <4>1 DEF Live, TokenRecord
      <4>4. d \in CallRecord /\ d.op = "revoke" /\ d.tokens = c.tokens \ {k}
        BY <2>1, <4>0 DEF CallRecord
      <4>5. ~callsRaced => CallerKnows(d)'
        BY <2>2, <4>3, <4>4 DEF CallerKnows
      <4> QED
        BY <1>0, <2>1, <2>2, <2>3, <3>1, <4>1, <4>2, <4>3, <4>4, <4>5, GoesKeeps
    <3>3. CASE k \notin Live
      <4>1. UNCHANGED token /\ Goes(w, NoCall)
        BY <1>9, <2>6, <3>3 DEF RevokeToken
      <4>2. Live' = Live
        BY <4>1 DEF Live
      <4> QED
        BY <1>0, <2>1, <2>2, <2>3, <2>4, <3>1, <4>1, <4>2, IdleCall, GoesKeeps
    <3> QED
      BY <3>2, <3>3
  <2> QED
    BY <2>5, <2>6
<1>10. ASSUME NEW w \in Worker, SaveProfile(w) PROVE AccountsInv'
  <2>1. /\ caller[w].op = "profile" /\ password' = caller[w].password /\ Goes(w, NoCall)
        /\ UNCHANGED <<passwords, token, revokedTo>> /\ caller[w] # NoCall
        /\ caller[w] \in CallRecord
    BY <1>0, <1>10, IdleCall DEF SaveProfile
  <2>2. ~callsRaced => /\ password = passwords /\ caller[w].password = password
                       /\ \A k \in Live : token[k].since >= revokedTo
    BY <2>1 DEF AccountsInv, LastPasswordStays, CallerKnows
  <2>3. TokenRecord' = TokenRecord /\ NoCall \in CallRecord' /\ Live' = Live
    BY <1>0, <2>1 DEF TokenRecord, CallRecord, NoCall, Live
  <2>4. CallerKnows(NoCall)' /\ password' \in 0 .. passwords
    BY <2>1, IdleCall DEF CallerKnows, CallRecord
  <2> QED
    BY <1>0, <2>1, <2>2, <2>3, <2>4, IdleCall, GoesKeeps
<1>11. ASSUME NEW w \in Worker, AccountCrash(w) PROVE AccountsInv'
  <2>1. /\ caller' = [caller EXCEPT ![w] = NoCall] /\ accountCrashes' = accountCrashes + 1
        /\ UNCHANGED <<password, passwords, token, revokedTo, callsRaced>>
    BY <1>11 DEF AccountCrash
  <2>2. caller'[w] = NoCall /\ \A v \in Worker \ {w} : caller'[v] = caller[v]
    BY <1>0, <2>1
  <2>3. AccountsTypeOK'
    <3>1. NoCall \in CallRecord
      BY <1>0 DEF CallRecord, NoCall
    <3>2. caller' \in [Worker -> CallRecord] /\ accountCrashes' \in Nat
      BY <1>0, <2>1, <3>1
    <3> QED
      BY <2>1, <3>2, AccountShapes DEF AccountsInv, AccountsTypeOK, CallRecord
  <2>4. HoldsToken' /\ LastPasswordStays'
    BY <2>1, <2>2, IdleCall DEF AccountsInv, HoldsToken, LastPasswordStays, Live
  <2>5. ~callsRaced => OneCall' /\ \A v \in Worker : CallerKnows(caller[v])'
    BY <2>1, <2>2, IdleCall DEF AccountsInv, OneCall, CallerKnows, Live
  <2> QED
    BY <2>1, <2>3, <2>4, <2>5 DEF AccountsInv
<1>12. CASE UNCHANGED accountVars
  BY <1>12 DEF accountVars, AccountsInv, AccountsTypeOK, HoldsToken, LastPasswordStays, OneCall,
               CallerKnows, Live
<1> QED
  BY <1>2, <1>3, <1>4, <1>5, <1>6, <1>7, <1>8, <1>9, <1>10, <1>11, <1>12 DEF AccountsNext

\* The account, its tokens and the requests about it keep their types.
THEOREM AccountTypes == AccountsSpec => []AccountsTypeOK
<1>1. AccountsInv => AccountsTypeOK
  BY DEF AccountsInv
<1> QED
  BY <1>1, AccountsStart, AccountsStepKeeps, PTL DEF AccountsSpec

\* Requests that do not overlap leave the password that was set last, and no refresh
\* token from before the last change that came to its end.
THEOREM PasswordIsTheLast == AccountsSpec => []LastPasswordStays
<1>1. AccountsInv => LastPasswordStays
  BY DEF AccountsInv
<1> QED
  BY <1>1, AccountsStart, AccountsStepKeeps, PTL DEF AccountsSpec

-----------------------------------------------------------------------------
(***************************************************************************)
(* Support tickets.                                                        *)
(***************************************************************************)
TicketRow == [status : TicketStatuses \cup {"none"}, agent : Agent \cup {None},
              messages : 0 .. MaxMessages]

DeskRecord == [op : {"none", "reply", "status", "assign"}, ticket : Ticket \cup {None},
               seen : TicketRow, to : TicketStatuses \cup {"none"}, agent : Agent \cup {None}]

UnopenedBlank == \A k \in Ticket \ Opened : ticket[k] = NoTicket

\* A request has validated the ticket that it saw, which was there.
Validated ==
    \A w \in Worker : desk[w] # NoRequest =>
        /\ desk[w].ticket \in Opened /\ desk[w].agent \in Agent
        /\ desk[w].op \in {"reply", "status"} => desk[w].seen.status # "closed"
        /\ desk[w].op = "status" => desk[w].to \in TicketStatuses

\* As long as no two requests overlapped, what a request saw is still so.
SeenStill ==
    \A w \in Worker : desk[w] # NoRequest =>
        /\ \A v \in Worker : desk[v] # NoRequest => v = w
        /\ desk[w].seen = ticket[desk[w].ticket]

TicketsInv == TicketsTypeOK /\ UnopenedBlank /\ Validated /\ (~deskRaced => SeenStill)
-----------------------------------------------------------------------------
\* The types of the variables, by their records.
LEMMA TicketShapes ==
    TicketsTypeOK <=>
        /\ ticket \in [Ticket -> TicketRow] /\ returnTicket \in Ticket \cup {None}
        /\ desk \in [Worker -> DeskRecord] /\ deskRaced \in BOOLEAN
  BY Zenon DEF TicketsTypeOK, TicketRow, DeskRecord

\* The blank ticket and an idle slot's record.
LEMMA BlankTicket ==
    /\ NoTicket \in TicketRow /\ NoTicket.status = "none" /\ NoTicket.agent = None
    /\ NoRequest \in DeskRecord /\ NoRequest.op = "none" /\ None \notin Agent
  BY TicketsAssumption DEF NoTicket, NoRequest, TicketRow, DeskRecord

\* A closed ticket has nowhere to go, and no move leads to no ticket.
LEMMA TicketMovesFrom ==
    /\ TicketMoves("closed") = {}
    /\ \A s : TicketMoves(s) \subseteq TicketStatuses
  BY DEF TicketMoves, TicketStatuses

\* There are no tickets at the start.
LEMMA TicketsStart == TicketsInit => TicketsInv
<1> SUFFICES ASSUME TicketsInit PROVE TicketsInv
  OBVIOUS
<1>1. /\ ticket = [k \in Ticket |-> NoTicket] /\ returnTicket = None
      /\ desk = [w \in Worker |-> NoRequest]
  BY DEF TicketsInit
<1>2. deskRaced \in BOOLEAN
  BY Zenon DEF TicketsInit
<1>3. TicketsTypeOK
  BY <1>1, <1>2, BlankTicket, TicketShapes
<1> QED
  BY <1>1, <1>3 DEF TicketsInv, UnopenedBlank, Validated, SeenStill

\* One row of a ticket that is there is saved, by the request w.
LEMMA TicketSaved ==
    ASSUME TicketsInv, NEW w \in Worker, desk[w] # NoRequest, NEW r \in TicketRow,
           ticket' = [ticket EXCEPT ![desk[w].ticket] = r], r.status # "none",
           desk' = [desk EXCEPT ![w] = NoRequest], UNCHANGED <<returnTicket, deskRaced>>
    PROVE  TicketsInv'
<1>0. /\ ticket \in [Ticket -> TicketRow] /\ desk \in [Worker -> DeskRecord]
      /\ desk[w].ticket \in Ticket
  BY TicketShapes DEF TicketsInv, Validated, Opened
<1>1. /\ desk'[w] = NoRequest /\ \A v \in Worker \ {w} : desk'[v] = desk[v]
      /\ ticket'[desk[w].ticket] = r
      /\ \A k \in Ticket \ {desk[w].ticket} : ticket'[k] = ticket[k]
  BY <1>0
<1>2. TicketsTypeOK'
  <2>1. ticket' \in [Ticket -> TicketRow] /\ desk' \in [Worker -> DeskRecord]
    BY <1>0, BlankTicket
  <2> QED
    BY <2>1, TicketShapes DEF TicketsInv, TicketsTypeOK, TicketRow, DeskRecord
<1>3. UnopenedBlank' /\ Opened \subseteq Opened'
  BY <1>0, <1>1 DEF TicketsInv, UnopenedBlank, Opened
<1>4. Validated'
  BY <1>1, <1>3 DEF TicketsInv, Validated
<1>5. ~deskRaced => SeenStill'
  BY <1>1 DEF TicketsInv, SeenStill
<1> QED
  BY <1>2, <1>3, <1>4, <1>5 DEF TicketsInv

\* Every step keeps it, and takes nothing from a closed or an assigned ticket that
\* ClosedIsFinal does not allow.
LEMMA TicketsStepKeeps == TicketsInv /\ [TicketsNext]_ticketVars => TicketsInv' /\ ClosedIsFinal
<1> SUFFICES ASSUME TicketsInv, [TicketsNext]_ticketVars PROVE TicketsInv' /\ ClosedIsFinal
  OBVIOUS
<1>0. /\ ticket \in [Ticket -> TicketRow] /\ returnTicket \in Ticket \cup {None}
      /\ desk \in [Worker -> DeskRecord] /\ UnopenedBlank /\ Validated
      /\ MaxMessages \in Nat /\ 1 <= MaxMessages /\ None \notin Agent /\ None \notin Ticket
  BY TicketShapes, TicketsAssumption DEF TicketsInv
<1>s. ~deskRaced => SeenStill
  BY DEF TicketsInv
<1>1. CASE CreateTicket
  <2>1. PICK k \in Ticket \ Opened, aboutReturn \in BOOLEAN :
          /\ ticket' = [ticket EXCEPT ![k] = [NoTicket EXCEPT !.status = "open", !.messages = 1]]
          /\ returnTicket' = IF aboutReturn THEN k ELSE returnTicket
          /\ UNCHANGED <<desk, deskRaced>>
    BY <1>1 DEF CreateTicket
  <2>2. PICK r \in TicketRow : r = [NoTicket EXCEPT !.status = "open", !.messages = 1]
    <3>1. 1 \in 0 .. MaxMessages
      BY <1>0
    <3> QED
      BY <3>1, BlankTicket DEF TicketRow, TicketStatuses
  <2>3. /\ ticket' = [ticket EXCEPT ![k] = r] /\ r.status = "open"
        /\ returnTicket' \in Ticket \cup {None}
    BY <1>0, <2>1, <2>2 DEF NoTicket
  <2>4. /\ \A j \in Ticket \ {k} : ticket'[j] = ticket[j]
        /\ ticket'[k] = r /\ ticket[k] = NoTicket
    BY <1>0, <2>3 DEF UnopenedBlank
  <2>5. TicketsTypeOK'
    <3>1. ticket' \in [Ticket -> TicketRow]
      BY <1>0, <2>3
    <3> QED
      BY <2>1, <2>3, <3>1, TicketShapes DEF TicketsInv, TicketsTypeOK, TicketRow, DeskRecord
  <2>6. UnopenedBlank' /\ Opened \subseteq Opened'
    BY <1>0, <2>3, <2>4 DEF UnopenedBlank, Opened
  <2>7. Validated'
    BY <1>0, <2>1, <2>6 DEF Validated
  <2>8. ~deskRaced' => SeenStill'
    BY <1>0, <1>s, <2>1, <2>4 DEF SeenStill, Validated
  <2>9. ClosedIsFinal
    BY <2>4, BlankTicket DEF ClosedIsFinal
  <2> QED
    BY <2>5, <2>6, <2>7, <2>8, <2>9 DEF TicketsInv
<1>2. ASSUME NEW w \in Worker, LoadTicket(w) PROVE TicketsInv' /\ ClosedIsFinal
  <2>1. PICK k \in Opened, op \in {"reply", "status", "assign"}, a \in Agent, to \in TicketStatuses :
          /\ desk[w] = NoRequest
          /\ op = "reply" => ticket[k].status # "closed"
          /\ op = "status" => to \in TicketMoves(ticket[k].status)
          /\ desk' = [desk EXCEPT ![w] = [op |-> op, ticket |-> k, seen |-> ticket[k],
                                          to |-> to, agent |-> a]]
          /\ deskRaced' = (deskRaced \/ \E v \in Worker : desk[v] # NoRequest)
          /\ UNCHANGED <<ticket, returnTicket>>
    BY <1>2 DEF LoadTicket, MayReply
  <2>2. k \in Ticket
    BY DEF Opened
  <2>3. PICK q \in DeskRecord :
          q = [op |-> op, ticket |-> k, seen |-> ticket[k], to |-> to, agent |-> a]
    BY <1>0, <2>2 DEF DeskRecord
  <2>4. /\ desk'[w] = q /\ \A v \in Worker \ {w} : desk'[v] = desk[v]
        /\ desk' \in [Worker -> DeskRecord]
    BY <1>0, <2>1, <2>3
  <2>5. deskRaced' \in BOOLEAN
    BY <2>1, TicketShapes, Zenon DEF TicketsInv
  <2>6. TicketsTypeOK'
    BY <2>1, <2>4, <2>5, TicketShapes DEF TicketsInv, TicketsTypeOK, TicketRow, DeskRecord
  <2>7. UnopenedBlank' /\ Opened' = Opened
    BY <1>0, <2>1 DEF UnopenedBlank, Opened
  <2>8. Validated'
    <3>1. /\ q.ticket = k /\ q.agent = a /\ q.to = to /\ q.seen = ticket[k]
          /\ q.op \in {"reply", "status"} => q.seen.status # "closed"
      BY <2>1, <2>3, TicketMovesFrom
    <3> QED
      BY <1>0, <2>4, <2>7, <3>1 DEF Validated
  <2>9. ~deskRaced' => SeenStill'
    <3> SUFFICES ASSUME ~deskRaced' PROVE SeenStill'
      OBVIOUS
    <3>1. \A v \in Worker : desk[v] = NoRequest
      BY <2>1, Zenon
    <3> QED
      BY <2>1, <2>3, <2>4, <3>1 DEF SeenStill
  <2>10. ClosedIsFinal
    BY <2>1 DEF ClosedIsFinal
  <2> QED
    BY <2>6, <2>7, <2>8, <2>9, <2>10 DEF TicketsInv
<1>3. ASSUME NEW w \in Worker, SaveReply(w) PROVE TicketsInv' /\ ClosedIsFinal
  <2> DEFINE q == desk[w]
  <2>1. /\ q.op = "reply" /\ ticket[q.ticket].messages < MaxMessages
        /\ ticket' = [ticket EXCEPT ![q.ticket] =
                        [status |-> IF q.seen.status = "open" THEN "pending_customer" ELSE @.status,
                         agent |-> IF q.seen.agent = None THEN q.agent ELSE @.agent,
                         messages |-> @.messages + 1]]
        /\ desk' = [desk EXCEPT ![w] = NoRequest]
        /\ UNCHANGED <<returnTicket, deskRaced>>
    BY <1>3 DEF SaveReply
  <2>2. /\ q # NoRequest /\ q.ticket \in Ticket /\ ticket[q.ticket].status # "none"
        /\ q.agent \in Agent /\ q.seen.status # "closed"
    BY <1>0, <2>1, BlankTicket DEF Validated, Opened
  <2>3. ticket[q.ticket] \in TicketRow
    BY <1>0, <2>2
  <2>4. PICK r : r = [status |-> IF q.seen.status = "open" THEN "pending_customer"
                                 ELSE ticket[q.ticket].status,
                      agent |-> IF q.seen.agent = None THEN q.agent ELSE ticket[q.ticket].agent,
                      messages |-> ticket[q.ticket].messages + 1]
    OBVIOUS
  <2>5. ticket' = [ticket EXCEPT ![q.ticket] = r]
    BY <1>0, <2>1, <2>2, <2>4
  <2>6. r \in TicketRow /\ r.status # "none" /\ (ticket[q.ticket].agent # None => r.agent # None)
    BY <1>0, <2>1, <2>2, <2>3, <2>4 DEF TicketRow, TicketStatuses
  <2>7. ClosedIsFinal
    <3>1. ASSUME ticket[q.ticket].status = "closed" PROVE deskRaced
      BY <1>s, <2>2, <3>1 DEF SeenStill
    <3>2. /\ ticket'[q.ticket] = r /\ desk'[w] = NoRequest
          /\ \A k \in Ticket \ {q.ticket} : ticket'[k] = ticket[k]
      BY <1>0, <2>1, <2>2, <2>5
    <3> QED
      BY <2>1, <2>2, <2>6, <3>1, <3>2 DEF ClosedIsFinal
  <2> QED
    BY <2>1, <2>2, <2>5, <2>6, <2>7, TicketSaved
<1>4. ASSUME NEW w \in Worker, SaveStatus(w) PROVE TicketsInv' /\ ClosedIsFinal
  <2> DEFINE q == desk[w]
  <2>1. /\ q.op = "status" /\ ticket' = [ticket EXCEPT ![q.ticket].status = q.to]
        /\ desk' = [desk EXCEPT ![w] = NoRequest]
        /\ UNCHANGED <<returnTicket, deskRaced>>
    BY <1>4 DEF SaveStatus
  <2>2. /\ q # NoRequest /\ q.ticket \in Ticket /\ q.seen.status # "closed"
        /\ q.to \in TicketStatuses
    BY <1>0, <2>1, BlankTicket DEF Validated, Opened
  <2>3. ticket[q.ticket] \in TicketRow
    BY <1>0, <2>2
  <2>4. PICK r : r = [ticket[q.ticket] EXCEPT !.status = q.to]
    OBVIOUS
  <2>5. ticket' = [ticket EXCEPT ![q.ticket] = r]
    BY <1>0, <2>1, <2>2, <2>4
  <2>6. /\ r \in TicketRow /\ r.status # "none" /\ r.agent = ticket[q.ticket].agent
        /\ r.messages = ticket[q.ticket].messages
    BY <2>2, <2>3, <2>4 DEF TicketRow, TicketStatuses
  <2>7. ClosedIsFinal
    <3>1. ASSUME ticket[q.ticket].status = "closed" PROVE deskRaced
      BY <1>s, <2>2, <3>1 DEF SeenStill
    <3>2. /\ ticket'[q.ticket] = r /\ desk'[w] = NoRequest
          /\ \A k \in Ticket \ {q.ticket} : ticket'[k] = ticket[k]
      BY <1>0, <2>1, <2>2, <2>5
    <3> QED
      BY <2>1, <2>2, <2>6, <3>1, <3>2 DEF ClosedIsFinal
  <2> QED
    BY <2>1, <2>2, <2>5, <2>6, <2>7, TicketSaved
<1>5. ASSUME NEW w \in Worker, SaveAgent(w) PROVE TicketsInv' /\ ClosedIsFinal
  <2> DEFINE q == desk[w]
  <2>1. /\ q.op = "assign" /\ ticket' = [ticket EXCEPT ![q.ticket].agent = q.agent]
        /\ desk' = [desk EXCEPT ![w] = NoRequest]
        /\ UNCHANGED <<returnTicket, deskRaced>>
    BY <1>5 DEF SaveAgent
  <2>2. /\ q # NoRequest /\ q.ticket \in Ticket /\ q.agent \in Agent
        /\ ticket[q.ticket].status # "none"
    BY <1>0, <2>1, BlankTicket DEF Validated, Opened
  <2>3. ticket[q.ticket] \in TicketRow
    BY <1>0, <2>2
  <2>4. PICK r : r = [ticket[q.ticket] EXCEPT !.agent = q.agent]
    OBVIOUS
  <2>5. ticket' = [ticket EXCEPT ![q.ticket] = r]
    BY <1>0, <2>1, <2>2, <2>4
  <2>6. /\ r \in TicketRow /\ r.status = ticket[q.ticket].status /\ r.agent = q.agent
        /\ r.messages = ticket[q.ticket].messages
    BY <2>2, <2>3, <2>4 DEF TicketRow
  <2>7. ClosedIsFinal
    <3>2. /\ ticket'[q.ticket] = r
          /\ \A k \in Ticket \ {q.ticket} : ticket'[k] = ticket[k]
      BY <1>0, <2>2, <2>5
    <3> QED
      BY <1>0, <2>2, <2>6, <3>2 DEF ClosedIsFinal
  <2> QED
    BY <2>1, <2>2, <2>5, <2>6, <2>7, TicketSaved
<1>6. CASE UNCHANGED ticketVars
  BY <1>6 DEF ticketVars, TicketsInv, TicketsTypeOK, UnopenedBlank, Opened, Validated, SeenStill,
              ClosedIsFinal
<1> QED
  BY <1>1, <1>2, <1>3, <1>4, <1>5, <1>6 DEF TicketsNext

\* A closed ticket stays closed and takes no message, but for a reply or a status
\* request that overlapped the one that closed it; an agent is never taken away.
THEOREM TicketsSettle == TicketsSpec => [][ClosedIsFinal]_ticketVars
<1>1. TicketsInv /\ [TicketsNext]_ticketVars => TicketsInv' /\ [ClosedIsFinal]_ticketVars
  BY TicketsStepKeeps
<1> QED
  BY <1>1, TicketsStart, PTL DEF TicketsSpec

-----------------------------------------------------------------------------
(***************************************************************************)
(* Inquiries and the orders they become.                                   *)
(***************************************************************************)
InquiryClerkRecord == [op : {"none", "move", "convert"}, inquiry : Inquiry \cup {None},
                       to : InquiryStates \cup {"unused"}]

\* A busy slot has an inquiry that is there, and means to write a status of the queue.
ClerksKnow ==
    \A w \in Worker : inquiryClerk[w] # NoInquiryClerk =>
        /\ inquiryClerk[w].inquiry \in Inquiry /\ inquiry[inquiryClerk[w].inquiry].status # "unused"
        /\ inquiryClerk[w].to \in InquiryStates

\* As long as nobody wrote an inquiry that another had loaded: a move that was
\* checked may still be made, and an inquiry with an order is converted.
MovesStillAllowed ==
    \A w \in Worker : inquiryClerk[w].op = "move" =>
        MayMove(inquiry[inquiryClerk[w].inquiry].status, inquiryClerk[w].to)

OrderedIsConverted == \A i \in Inquiry : inquiry[i].order # 0 => inquiry[i].status = "converted"

UnusedBlank == \A i \in Inquiry : inquiry[i].status = "unused" => inquiry[i] = NoInquiry

InquiriesInv ==
    /\ InquiriesTypeOK /\ ClerksKnow /\ UnusedBlank
    /\ ~inquiryRaced => MovesStillAllowed /\ OrderedIsConverted
-----------------------------------------------------------------------------
\* The moves of the graph stay in the queue, and none leaves a converted inquiry.
LEMMA InquiryMovesFrom ==
    /\ \A s : InquiryMoves(s) \subseteq InquiryStates
    /\ InquiryMoves("converted") = {} /\ InquiryMoves("unused") = {}
  BY DEF InquiryMoves, InquiryStates

\* An unused row and an idle slot's record.
LEMMA IdleInquiry ==
    /\ NoInquiry.status = "unused" /\ NoInquiry.order = 0
    /\ NoInquiryClerk \in InquiryClerkRecord /\ NoInquiryClerk.op = "none"
    /\ NoInquiryClerk.inquiry = None
  BY DEF NoInquiry, NoInquiryClerk, InquiryClerkRecord

\* The queue is empty at the start.
LEMMA InquiriesStart == InquiriesInit => InquiriesInv
<1> SUFFICES ASSUME InquiriesInit PROVE InquiriesInv
  OBVIOUS
<1>1. /\ inquiry = [i \in Inquiry |-> NoInquiry] /\ intakes = 0
      /\ inquiryClerk = [w \in Worker |-> NoInquiryClerk]
  BY DEF InquiriesInit
<1>2. inquiryRaced \in BOOLEAN
  BY Zenon DEF InquiriesInit
<1>3. inquiry \in [Inquiry -> [status : InquiryStates \cup {"unused"}, order : 0 .. intakes]]
  BY <1>1 DEF NoInquiry
<1>4. intakes \in 0 .. MaxIntakes
  BY <1>1, InquiriesAssumption
<1>5. InquiriesTypeOK
  BY <1>1, <1>2, <1>3, <1>4, IdleInquiry DEF InquiriesTypeOK, InquiryClerkRecord
<1>6. ClerksKnow /\ UnusedBlank /\ MovesStillAllowed /\ OrderedIsConverted
  BY <1>1, IdleInquiry DEF UnusedBlank, ClerksKnow, MovesStillAllowed, OrderedIsConverted
<1> QED
  BY <1>5, <1>6 DEF InquiriesInv

\* A slot w writes the status s and the order n to the inquiry it has, and is idle
\* again; if another had that inquiry, they raced.
LEMMA InquiryWritten ==
    ASSUME InquiriesInv, NEW w \in Worker, inquiryClerk[w] # NoInquiryClerk,
           NEW s \in InquiryStates, NEW n \in Nat, WritesInquiry(w),
           inquiry' = [inquiry EXCEPT ![inquiryClerk[w].inquiry] = [status |-> s, order |-> n]],
           intakes' \in intakes .. MaxIntakes, n <= intakes',
           ~inquiryRaced => n = 0 \/ s = "converted"
    PROVE  InquiriesInv'
<1> DEFINE i == inquiryClerk[w].inquiry
<1>0. /\ inquiry \in [Inquiry -> [status : InquiryStates \cup {"unused"}, order : 0 .. intakes]]
      /\ intakes \in Nat /\ MaxIntakes \in Nat /\ inquiryClerk \in [Worker -> InquiryClerkRecord]
      /\ intakes' \in Nat /\ intakes <= intakes' /\ intakes' <= MaxIntakes
  BY InquiriesAssumption DEF InquiriesInv, InquiriesTypeOK, InquiryClerkRecord
<1>1. i \in Inquiry
  BY DEF InquiriesInv, ClerksKnow
<1>2. /\ inquiryClerk' = [inquiryClerk EXCEPT ![w] = NoInquiryClerk]
      /\ inquiryClerk' \in [Worker -> InquiryClerkRecord]
  BY <1>0, IdleInquiry DEF WritesInquiry
<1>3. inquiryRaced' \in BOOLEAN
  <2>1. inquiryRaced' = (inquiryRaced \/ \E v \in Worker \ {w} :
                           inquiryClerk[v].inquiry = inquiryClerk[w].inquiry)
    BY DEF WritesInquiry
  <2> QED
    BY <2>1, Zenon
<1>4. inquiry' \in [Inquiry -> [status : InquiryStates \cup {"unused"}, order : 0 .. intakes']]
  BY <1>0, <1>1
<1>5. InquiriesTypeOK'
  BY <1>0, <1>2, <1>3, <1>4 DEF InquiriesTypeOK, InquiryClerkRecord
<1>6. /\ inquiry'[i].status = s /\ inquiry'[i].order = n
      /\ \A j \in Inquiry \ {i} : inquiry'[j] = inquiry[j]
      /\ inquiryClerk'[w] = NoInquiryClerk
      /\ \A v \in Worker \ {w} : inquiryClerk'[v] = inquiryClerk[v]
  BY <1>0, <1>1, <1>2
<1>7. ClerksKnow' /\ UnusedBlank'
  BY <1>1, <1>6 DEF ClerksKnow, UnusedBlank, InquiriesInv, InquiryStates
<1>8. ASSUME ~inquiryRaced' PROVE MovesStillAllowed' /\ OrderedIsConverted'
  <2>1. ~inquiryRaced /\ \A v \in Worker \ {w} : inquiryClerk[v].inquiry # i
    BY <1>8 DEF WritesInquiry
  <2>2. OrderedIsConverted'
    BY <1>6, <2>1 DEF OrderedIsConverted, InquiriesInv
  <2>3. \A v \in Worker : inquiryClerk'[v].op = "move" =>
           /\ inquiryClerk'[v] = inquiryClerk[v] /\ inquiryClerk[v] # NoInquiryClerk
           /\ inquiry'[inquiryClerk[v].inquiry] = inquiry[inquiryClerk[v].inquiry]
    BY <1>6, <2>1, IdleInquiry DEF InquiriesInv, ClerksKnow
  <2> QED
    BY <2>1, <2>2, <2>3 DEF MovesStillAllowed, InquiriesInv
<1> QED
  BY <1>5, <1>7, <1>8 DEF InquiriesInv

\* Every step keeps it.
LEMMA InquiriesStepKeeps ==
    InquiriesInv /\ [InquiriesNext]_inquiryVars => InquiriesInv'
<1> SUFFICES ASSUME InquiriesInv, [InquiriesNext]_inquiryVars PROVE InquiriesInv'
  OBVIOUS
<1>0. /\ inquiry \in [Inquiry -> [status : InquiryStates \cup {"unused"}, order : 0 .. intakes]]
      /\ intakes \in Nat /\ MaxIntakes \in Nat /\ intakes <= MaxIntakes
      /\ inquiryClerk \in [Worker -> InquiryClerkRecord]
      /\ inquiryRaced \in BOOLEAN /\ None \notin Worker
  BY InquiriesAssumption, WorkersAssumption DEF InquiriesInv, InquiriesTypeOK, InquiryClerkRecord
<1>1. CASE RecordInquiry
  <2>1. PICK i \in Inquiry : /\ inquiry[i] = NoInquiry
                             /\ inquiry' = [inquiry EXCEPT ![i].status = "new"]
                             /\ UNCHANGED <<intakes, inquiryClerk, inquiryRaced>>
    BY <1>1 DEF RecordInquiry
  <2>2. /\ inquiry' \in [Inquiry -> [status : InquiryStates \cup {"unused"}, order : 0 .. intakes]]
        /\ inquiry'[i].status = "new" /\ inquiry'[i].order = 0
        /\ \A j \in Inquiry \ {i} : inquiry'[j] = inquiry[j]
    BY <1>0, <2>1, IdleInquiry DEF InquiryStates
  <2>3. InquiriesTypeOK'
    BY <2>1, <2>2 DEF InquiriesInv, InquiriesTypeOK
  <2>4. /\ ClerksKnow' /\ UnusedBlank'
        /\ \A w \in Worker : inquiryClerk[w] # NoInquiryClerk => inquiryClerk[w].inquiry \in Inquiry \ {i}
    BY <2>1, <2>2, IdleInquiry DEF InquiriesInv, ClerksKnow, UnusedBlank
  <2>5. ~inquiryRaced => MovesStillAllowed' /\ OrderedIsConverted'
    <3>1. ~inquiryRaced => OrderedIsConverted'
      BY <2>1, <2>2 DEF InquiriesInv, OrderedIsConverted
    <3>2. \A w \in Worker : inquiryClerk[w].op = "move" => inquiryClerk[w] # NoInquiryClerk
      BY IdleInquiry
    <3> QED
      BY <2>1, <2>2, <2>4, <3>1, <3>2 DEF InquiriesInv, MovesStillAllowed
  <2> QED
    BY <2>1, <2>3, <2>4, <2>5 DEF InquiriesInv
<1>2. ASSUME NEW w \in Worker, LoadInquiry(w) PROVE InquiriesInv'
  <2>1. PICK i \in Inquiry, op \in {"move", "convert"}, to \in InquiryStates :
        /\ inquiryClerk[w] = NoInquiryClerk /\ inquiry[i] # NoInquiry
        /\ op = "move" => MayMove(inquiry[i].status, to)
        /\ inquiryClerk' = [inquiryClerk EXCEPT ![w] = [op |-> op, inquiry |-> i, to |-> to]]
        /\ UNCHANGED <<inquiry, intakes, inquiryRaced>>
    BY <1>2 DEF LoadInquiry
  <2>2. PICK c \in InquiryClerkRecord : c = [op |-> op, inquiry |-> i, to |-> to]
    BY DEF InquiryClerkRecord
  <2>3. /\ inquiryClerk' \in [Worker -> InquiryClerkRecord] /\ inquiryClerk'[w] = c
        /\ \A v \in Worker \ {w} : inquiryClerk'[v] = inquiryClerk[v]
    BY <1>0, <2>1, <2>2
  <2>4. InquiriesTypeOK'
    BY <2>1, <2>3 DEF InquiriesInv, InquiriesTypeOK, InquiryClerkRecord
  <2>5. ClerksKnow' /\ UnusedBlank'
    <3>1. inquiry[i].status # "unused"
      BY <2>1 DEF InquiriesInv, UnusedBlank
    <3> QED
      BY <2>1, <2>2, <2>3, <3>1 DEF ClerksKnow, UnusedBlank, InquiriesInv
  <2>6. ~inquiryRaced => MovesStillAllowed' /\ OrderedIsConverted'
    BY <2>1, <2>2, <2>3 DEF MovesStillAllowed, OrderedIsConverted, InquiriesInv
  <2> QED
    BY <2>1, <2>4, <2>5, <2>6 DEF InquiriesInv
<1>3. ASSUME NEW w \in Worker, MoveInquiry(w) PROVE InquiriesInv'
  <2>1. /\ inquiryClerk[w].op = "move" /\ WritesInquiry(w) /\ intakes' = intakes
        /\ inquiry' = [inquiry EXCEPT ![inquiryClerk[w].inquiry].status = inquiryClerk[w].to]
    BY <1>3 DEF MoveInquiry
  <2>2. /\ inquiryClerk[w] # NoInquiryClerk /\ inquiryClerk[w].inquiry \in Inquiry
        /\ inquiryClerk[w].to \in InquiryStates
    BY <2>1, IdleInquiry DEF InquiriesInv, ClerksKnow
  <2>3. PICK n \in Nat : n = inquiry[inquiryClerk[w].inquiry].order /\ n <= intakes
    BY <1>0, <2>2
  <2>4. inquiry' = [inquiry EXCEPT ![inquiryClerk[w].inquiry] =
                      [status |-> inquiryClerk[w].to, order |-> n]]
    <3>1. [inquiry[inquiryClerk[w].inquiry] EXCEPT !.status = inquiryClerk[w].to]
            = [status |-> inquiryClerk[w].to, order |-> n]
      BY <1>0, <2>2, <2>3
    <3> QED
      BY <2>1, <3>1
  <2>5. ~inquiryRaced => n = 0 \/ inquiryClerk[w].to = "converted"
    BY <2>1, <2>2, <2>3, InquiryMovesFrom DEF InquiriesInv, MovesStillAllowed, OrderedIsConverted, MayMove
  <2>6. PICK s \in InquiryStates : s = inquiryClerk[w].to
    BY <2>2
  <2>7. intakes' \in intakes .. MaxIntakes /\ n <= intakes'
    BY <1>0, <2>1, <2>3
  <2> QED
    BY <1>3, <2>1, <2>2, <2>4, <2>5, <2>6, <2>7, InquiryWritten
<1>4. ASSUME NEW w \in Worker, ConvertInquiry(w) PROVE InquiriesInv'
  <2>1. /\ inquiryClerk[w].op = "convert" /\ WritesInquiry(w) /\ intakes < MaxIntakes
        /\ intakes' = intakes + 1
        /\ inquiry' = [inquiry EXCEPT ![inquiryClerk[w].inquiry] =
                         [status |-> "converted", order |-> intakes + 1]]
    BY <1>4 DEF ConvertInquiry
  <2>2. inquiryClerk[w] # NoInquiryClerk /\ "converted" \in InquiryStates
    BY <2>1, IdleInquiry DEF InquiryStates
  <2>3. PICK n \in Nat : n = intakes + 1
    BY <1>0
  <2>4. intakes' \in intakes .. MaxIntakes /\ n <= intakes'
    BY <1>0, <2>1, <2>3
  <2>5. PICK s \in InquiryStates : s = "converted"
    BY <2>2
  <2> QED
    BY <1>4, <2>1, <2>2, <2>3, <2>4, <2>5, InquiryWritten
<1>5. ASSUME NEW w \in Worker, DropInquiry(w) PROVE InquiriesInv'
  <2>1. /\ inquiryClerk' = [inquiryClerk EXCEPT ![w] = NoInquiryClerk]
        /\ UNCHANGED <<inquiry, intakes, inquiryRaced>>
    BY <1>5 DEF DropInquiry
  <2>2. inquiryClerk' \in [Worker -> InquiryClerkRecord]
    BY <1>0, <2>1, IdleInquiry
  <2>3. InquiriesTypeOK'
    BY <2>1, <2>2 DEF InquiriesInv, InquiriesTypeOK, InquiryClerkRecord
  <2>4. /\ inquiryClerk'[w] = NoInquiryClerk
        /\ \A v \in Worker \ {w} : inquiryClerk'[v] = inquiryClerk[v]
    BY <1>0, <2>1
  <2>5. ClerksKnow' /\ UnusedBlank' /\ (~inquiryRaced => MovesStillAllowed' /\ OrderedIsConverted')
    BY <2>1, <2>4, IdleInquiry DEF InquiriesInv, ClerksKnow, UnusedBlank, MovesStillAllowed,
                                      OrderedIsConverted
  <2> QED
    BY <2>1, <2>3, <2>5 DEF InquiriesInv
<1>6. CASE UNCHANGED inquiryVars
  BY <1>6 DEF inquiryVars, InquiriesInv, InquiriesTypeOK, ClerksKnow, UnusedBlank, MovesStillAllowed,
              OrderedIsConverted
<1> QED
  BY <1>1, <1>2, <1>3, <1>4, <1>5, <1>6 DEF InquiriesNext

\* An inquiry that became an order stays converted: the step that breaks it has
\* not kept the invariant, but for those it says raced.
LEMMA ConvertedStep ==
    InquiriesInv /\ InquiriesInv' /\ [InquiriesNext]_inquiryVars => ConvertedStays
<1> SUFFICES ASSUME InquiriesInv, InquiriesInv', [InquiriesNext]_inquiryVars, ~inquiryRaced',
                    NEW i \in Inquiry, inquiry[i].order # 0
             PROVE  inquiry'[i].status = "converted" /\ inquiry'[i].order # 0
  BY DEF ConvertedStays
<1>0. /\ inquiry \in [Inquiry -> [status : InquiryStates \cup {"unused"}, order : 0 .. intakes]]
      /\ intakes \in Nat
  BY InquiriesAssumption DEF InquiriesInv, InquiriesTypeOK
<1>1. inquiry'[i].order # 0
  <2>1. CASE RecordInquiry
    BY <1>0, <2>1 DEF RecordInquiry
  <2>2. ASSUME NEW w \in Worker, MoveInquiry(w) PROVE inquiry'[i].order # 0
    BY <1>0, <2>2 DEF MoveInquiry
  <2>3. ASSUME NEW w \in Worker, ConvertInquiry(w) PROVE inquiry'[i].order # 0
    BY <1>0, <2>3 DEF ConvertInquiry
  <2>4. ASSUME NEW w \in Worker, LoadInquiry(w) \/ DropInquiry(w) PROVE inquiry'[i].order # 0
    BY <2>4 DEF LoadInquiry, DropInquiry
  <2>5. CASE UNCHANGED inquiryVars
    BY <2>5 DEF inquiryVars
  <2> QED
    BY <2>1, <2>2, <2>3, <2>4, <2>5 DEF InquiriesNext
<1>2. OrderedIsConverted'
  BY DEF InquiriesInv
<1> QED
  BY <1>1, <1>2 DEF OrderedIsConverted

\* ConvertedStays: as long as no two requests work on one inquiry at once, one that
\* became an order stays converted (transition_inquiry, create_staff_order).
THEOREM InquiriesStayConverted == InquiriesSpec => [][ConvertedStays]_inquiryVars
<1>1. InquiriesInv /\ [InquiriesNext]_inquiryVars => InquiriesInv' /\ ConvertedStays
  BY InquiriesStepKeeps, ConvertedStep
<1> QED
  BY InquiriesStart, <1>1, PTL DEF InquiriesSpec

-----------------------------------------------------------------------------
(***************************************************************************)
(* Saved addresses and the delivery areas.                                 *)
(***************************************************************************)
ClerkRecord == [op : {"none", "clear", "write", "sync"}, address : Address \cup {None},
                row : {"unused", "plain", "default"}, areas : SUBSET Area, on : BOOLEAN]

\* A slot that is to write an entry has it.
ClerkHasEntry == \A w \in Worker : clerk[w].op \in {"clear", "write"} => clerk[w].address \in Address

\* As long as requests do not overlap: one slot is at work, and where it is about
\* to write a default, the entry it writes is the only default left.
ClearedFirst ==
    \A w \in Worker : clerk[w] # NoClerk =>
        /\ \A v \in Worker : clerk[v] # NoClerk => v = w
        /\ clerk[w].op = "write" /\ clerk[w].row = "default" => Defaults \subseteq {clerk[w].address}

AddressesInv ==
    /\ AddressesTypeOK /\ ClerkHasEntry
    /\ ~clerksRaced => ClearedFirst /\ \A a, b \in Defaults : a = b
-----------------------------------------------------------------------------
\* An idle slot's record.
LEMMA IdleClerk == /\ NoClerk \in ClerkRecord /\ NoClerk.op = "none" /\ NoClerk.row = "unused"
                   /\ NoClerk.address = None
  BY DEF NoClerk, ClerkRecord

\* The types of the variables, by their records.
LEMMA AddressesShapes ==
    AddressesTypeOK <=>
        /\ address \in [Address -> {"unused", "plain", "default"}]
        /\ area \in [Area -> {"unused", "active", "off"}]
        /\ clerk \in [Worker -> ClerkRecord]
        /\ clerksRaced \in BOOLEAN /\ directoryCrashes \in Nat
  BY Zenon DEF AddressesTypeOK, ClerkRecord

\* The directory is empty at the start.
LEMMA AddressesStart == AddressesInit => AddressesInv
<1> SUFFICES ASSUME AddressesInit PROVE AddressesInv
  OBVIOUS
<1>1. /\ address = [a \in Address |-> "unused"] /\ area = [a \in Area |-> "unused"]
      /\ clerk = [w \in Worker |-> NoClerk] /\ directoryCrashes = 0
  BY DEF AddressesInit
<1>2. clerksRaced \in BOOLEAN
  BY Zenon DEF AddressesInit
<1>3. AddressesTypeOK
  <2>1. /\ address \in [Address -> {"unused", "plain", "default"}]
        /\ area \in [Area -> {"unused", "active", "off"}]
        /\ clerk \in [Worker -> ClerkRecord] /\ directoryCrashes \in Nat
    BY <1>1, IdleClerk
  <2> QED
    BY <1>2, <2>1, AddressesShapes
<1> QED
  BY <1>1, <1>3, IdleClerk DEF AddressesInv, ClerkHasEntry, ClearedFirst, Defaults

\* A slot takes a request up: if another is busy they race, and otherwise it is
\* the only one.
LEMMA ClerkBegins ==
    ASSUME AddressesInv, NEW w \in Worker, NEW c \in ClerkRecord, StartClerk(w, c),
           c.op \in {"clear", "write"} => c.address \in Address,
           c.op = "write" /\ c.row = "default" => address[c.address] = "default"
    PROVE  AddressesInv'
<1>0. /\ clerk \in [Worker -> ClerkRecord] /\ clerk[w] = NoClerk
      /\ clerk' = [clerk EXCEPT ![w] = c]
      /\ UNCHANGED <<address, area, directoryCrashes>>
  BY AddressesShapes DEF AddressesInv, StartClerk
<1>1. clerksRaced' \in BOOLEAN
  <2>1. clerksRaced' = (clerksRaced \/ \E v \in Worker : clerk[v] # NoClerk)
    BY DEF StartClerk
  <2> QED
    BY <2>1, Zenon
<1>2. AddressesTypeOK'
  <2>1. clerk' \in [Worker -> ClerkRecord]
    BY <1>0
  <2> QED
    BY <1>0, <1>1, <2>1 DEF AddressesInv, AddressesTypeOK, ClerkRecord
<1>3. clerk'[w] = c /\ \A v \in Worker \ {w} : clerk'[v] = clerk[v]
  BY <1>0
<1>4. ClerkHasEntry'
  BY <1>0, <1>3 DEF AddressesInv, ClerkHasEntry
<1>5. ASSUME ~clerksRaced' PROVE ClearedFirst' /\ (\A a, b \in Defaults : a = b)'
  <2>1. ~clerksRaced /\ \A v \in Worker : clerk[v] = NoClerk
    BY <1>5 DEF StartClerk
  <2>2. Defaults' = Defaults /\ \A a, b \in Defaults : a = b
    BY <1>0, <2>1 DEF Defaults, AddressesInv
  <2>3. c.op = "write" /\ c.row = "default" => Defaults \subseteq {c.address}
    BY <2>2 DEF Defaults
  <2> QED
    BY <1>3, <2>1, <2>2, <2>3 DEF ClearedFirst
<1> QED
  BY <1>2, <1>4, <1>5 DEF AddressesInv

\* A busy slot goes on with c, having perhaps changed the directory: what is the only
\* default for it stays so, and alone it leaves no second one.
LEMMA ClerkGoesOn ==
    ASSUME AddressesInv, NEW w \in Worker, NEW c \in ClerkRecord, clerk[w] # NoClerk,
           clerk' = [clerk EXCEPT ![w] = c], UNCHANGED clerksRaced, AddressesTypeOK',
           c.op \in {"clear", "write"} => c.address \in Address,
           ~clerksRaced => (\A a, b \in Defaults : a = b)',
           ~clerksRaced => (c.op = "write" /\ c.row = "default" => Defaults' \subseteq {c.address})
    PROVE  AddressesInv'
<1>0. clerk \in [Worker -> ClerkRecord]
  BY AddressesShapes DEF AddressesInv
<1>3. clerk'[w] = c /\ \A v \in Worker \ {w} : clerk'[v] = clerk[v]
  BY <1>0
<1>4. ClerkHasEntry'
  BY <1>3 DEF AddressesInv, ClerkHasEntry
<1>5. ASSUME ~clerksRaced PROVE ClearedFirst'
  <2>1. \A v \in Worker : clerk[v] # NoClerk => v = w
    BY <1>5 DEF AddressesInv, ClearedFirst
  <2>2. \A v \in Worker : clerk'[v] # NoClerk => v = w
    BY <1>3, <2>1
  <2> QED
    BY <1>3, <1>5, <2>2 DEF ClearedFirst
<1> QED
  BY <1>4, <1>5 DEF AddressesInv

\* Every step keeps it.
LEMMA AddressesStepKeeps ==
    AddressesInv /\ [AddressesNext]_directoryVars => AddressesInv'
<1> SUFFICES ASSUME AddressesInv, [AddressesNext]_directoryVars PROVE AddressesInv'
  OBVIOUS
<1>0. /\ address \in [Address -> {"unused", "plain", "default"}]
      /\ area \in [Area -> {"unused", "active", "off"}]
      /\ clerk \in [Worker -> ClerkRecord]
      /\ clerksRaced \in BOOLEAN /\ directoryCrashes \in Nat
  BY AddressesShapes DEF AddressesInv
<1>1. ASSUME NEW w \in Worker, LoadAddress(w) PROVE AddressesInv'
  <2>1. PICK a \in Address, row \in {"plain", "default"} :
           StartClerk(w, [NoClerk EXCEPT !.address = a, !.row = row,
               !.op = IF row = "default" /\ address[a] # "default" THEN "clear" ELSE "write"])
    BY <1>1 DEF LoadAddress
  <2>2. PICK op \in {"clear", "write"} :
           op = IF row = "default" /\ address[a] # "default" THEN "clear" ELSE "write"
    OBVIOUS
  <2>3. PICK c \in ClerkRecord : c = [NoClerk EXCEPT !.address = a, !.row = row, !.op = op]
    BY IdleClerk DEF ClerkRecord
  <2>4. c.op = op /\ c.address = a /\ c.row = row
    BY <2>3, IdleClerk DEF ClerkRecord
  <2>5. StartClerk(w, c)
    BY <2>1, <2>2, <2>3
  <2> QED
    BY <1>1, <2>2, <2>4, <2>5, ClerkBegins
<1>2. ASSUME NEW w \in Worker, ClearDefaults(w) PROVE AddressesInv'
  <2>1. /\ clerk[w].op = "clear"
        /\ address' = [a \in Address |-> IF a \in Defaults \ {clerk[w].address} THEN "plain" ELSE address[a]]
        /\ clerk' = [clerk EXCEPT ![w] = [clerk[w] EXCEPT !.op = "write"]]
        /\ UNCHANGED <<area, clerksRaced, directoryCrashes>>
    BY <1>2 DEF ClearDefaults, Continue
  <2>2. PICK c \in ClerkRecord : /\ c = [clerk[w] EXCEPT !.op = "write"]
                                 /\ c.address = clerk[w].address /\ c.address \in Address
    BY <1>0, <1>2, <2>1 DEF ClerkRecord, AddressesInv, ClerkHasEntry
  <2>3. Defaults' \subseteq {c.address}
    BY <2>1, <2>2 DEF Defaults
  <2>4. AddressesTypeOK'
    <3>1. clerk' \in [Worker -> ClerkRecord]
      BY <1>0, <2>1, <2>2
    <3>2. address' \in [Address -> {"unused", "plain", "default"}]
      BY <1>0, <2>1
    <3> QED
      BY <2>1, <3>1, <3>2 DEF AddressesInv, AddressesTypeOK, ClerkRecord
  <2>5. clerk[w] # NoClerk
    BY <2>1, IdleClerk
  <2>6. clerk' = [clerk EXCEPT ![w] = c] /\ clerksRaced' = clerksRaced
    BY <2>1, <2>2
  <2>7. (\A a, b \in Defaults : a = b)'
    BY <2>3
  <2> QED
    BY <1>2, <2>2, <2>3, <2>4, <2>5, <2>6, <2>7, ClerkGoesOn
<1>3. ASSUME NEW w \in Worker, WriteAddress(w) PROVE AddressesInv'
  <2>1. /\ clerk[w].op = "write" /\ clerk[w].address \in Address
        /\ address' = [address EXCEPT ![clerk[w].address] = clerk[w].row]
        /\ clerk' = [clerk EXCEPT ![w] = NoClerk]
        /\ UNCHANGED <<area, clerksRaced, directoryCrashes>>
    BY <1>3 DEF WriteAddress, Continue, AddressesInv, ClerkHasEntry
  <2>2. AddressesTypeOK'
    <3>1. clerk' \in [Worker -> ClerkRecord]
      BY <1>0, <2>1, IdleClerk
    <3>2. address' \in [Address -> {"unused", "plain", "default"}]
      BY <1>0, <1>3, <2>1 DEF ClerkRecord
    <3> QED
      BY <2>1, <3>1, <3>2 DEF AddressesInv, AddressesTypeOK, ClerkRecord
  <2>3. clerk[w] # NoClerk
    BY <2>1, IdleClerk
  <2>4. ASSUME ~clerksRaced PROVE (\A a, b \in Defaults : a = b)'
    <3>1. Defaults' \subseteq Defaults \cup {clerk[w].address}
      BY <1>0, <2>1 DEF Defaults
    <3>2. clerk[w].row # "default" => Defaults' \subseteq Defaults
      BY <1>0, <2>1 DEF Defaults
    <3>3. /\ \A a, b \in Defaults : a = b
          /\ clerk[w].row = "default" => Defaults \subseteq {clerk[w].address}
      BY <1>3, <2>1, <2>3, <2>4 DEF AddressesInv, ClearedFirst
    <3> QED
      BY <3>1, <3>2, <3>3
  <2> QED
    BY <1>3, <2>1, <2>2, <2>3, <2>4, IdleClerk, ClerkGoesOn
<1>4. CASE DeleteAddress
  <2>1. PICK a \in Address :
           /\ address' = [address EXCEPT ![a] = "unused"]
           /\ clerksRaced' = (clerksRaced \/ \E v \in Worker : clerk[v] # NoClerk)
           /\ UNCHANGED <<area, clerk, directoryCrashes>>
    BY <1>4 DEF DeleteAddress
  <2>2. clerksRaced' \in BOOLEAN
    BY <2>1, Zenon
  <2>3. address' \in [Address -> {"unused", "plain", "default"}] /\ Defaults' \subseteq Defaults
    BY <1>0, <2>1 DEF Defaults
  <2>4. AddressesTypeOK'
    BY <2>1, <2>2, <2>3 DEF AddressesInv, AddressesTypeOK
  <2>5. ~clerksRaced' => ~clerksRaced /\ \A v \in Worker : clerk[v] = NoClerk
    BY <2>1
  <2> QED
    BY <2>1, <2>3, <2>4, <2>5 DEF AddressesInv, ClerkHasEntry, ClearedFirst
<1>5. CASE EditArea
  <2>1. /\ area' \in [Area -> {"unused", "active", "off"}]
        /\ UNCHANGED <<address, clerk, clerksRaced, directoryCrashes>>
    BY <1>0, <1>5 DEF EditArea
  <2> QED
    BY <2>1 DEF AddressesInv, AddressesTypeOK, ClerkHasEntry, ClearedFirst, Defaults
<1>6. ASSUME NEW w \in Worker, StartSync(w) PROVE AddressesInv'
  <2>1. PICK as \in SUBSET Area, on \in BOOLEAN :
           StartClerk(w, [NoClerk EXCEPT !.op = "sync", !.areas = as, !.on = on])
    BY <1>6 DEF StartSync
  <2>2. PICK c \in ClerkRecord : c = [NoClerk EXCEPT !.op = "sync", !.areas = as, !.on = on]
    BY IdleClerk DEF ClerkRecord
  <2>3. c.op = "sync"
    BY <2>2, IdleClerk DEF ClerkRecord
  <2> QED
    BY <1>6, <2>1, <2>2, <2>3, ClerkBegins
<1>7. ASSUME NEW w \in Worker, SyncArea(w) PROVE AddressesInv'
  <2>1. PICK a \in clerk[w].areas :
          /\ clerk[w].op = "sync"
          /\ area' = [area EXCEPT ![a] = IF @ = "unused" \/ clerk[w].on THEN "active" ELSE @]
          /\ clerk' = [clerk EXCEPT ![w] = IF clerk[w].areas = {a} THEN NoClerk
                                           ELSE [clerk[w] EXCEPT !.areas = @ \ {a}]]
          /\ UNCHANGED <<address, clerksRaced, directoryCrashes>>
    BY <1>7 DEF SyncArea, Continue
  <2>2. PICK c \in ClerkRecord :
          /\ c = IF clerk[w].areas = {a} THEN NoClerk ELSE [clerk[w] EXCEPT !.areas = @ \ {a}]
          /\ c.op \in {"sync", "none"}
    BY <1>0, <1>7, <2>1, IdleClerk DEF ClerkRecord
  <2>3. AddressesTypeOK'
    <3>1. clerk' \in [Worker -> ClerkRecord]
      BY <1>0, <2>1, <2>2
    <3>2. a \in Area
      BY <1>0, <1>7, <2>1 DEF ClerkRecord
    <3>3. area' \in [Area -> {"unused", "active", "off"}]
      BY <1>0, <2>1, <3>2
    <3> QED
      BY <2>1, <3>1, <3>3 DEF AddressesInv, AddressesTypeOK, ClerkRecord
  <2>4. clerk[w] # NoClerk /\ clerk' = [clerk EXCEPT ![w] = c] /\ clerksRaced' = clerksRaced
    BY <2>1, <2>2, IdleClerk
  <2>5. ~clerksRaced => (\A b, d \in Defaults : b = d)'
    BY <2>1 DEF Defaults, AddressesInv
  <2> QED
    BY <1>7, <2>2, <2>3, <2>4, <2>5, ClerkGoesOn
<1>8. ASSUME NEW w \in Worker, ClerkCrash(w) PROVE AddressesInv'
  <2>1. /\ clerk[w] # NoClerk /\ clerk' = [clerk EXCEPT ![w] = NoClerk]
        /\ directoryCrashes' = directoryCrashes + 1
        /\ UNCHANGED <<address, area, clerksRaced>>
    BY <1>8 DEF ClerkCrash
  <2>2. AddressesTypeOK'
    <3>1. clerk' \in [Worker -> ClerkRecord] /\ directoryCrashes' \in Nat
      BY <1>0, <2>1, IdleClerk
    <3> QED
      BY <2>1, <3>1 DEF AddressesInv, AddressesTypeOK, ClerkRecord
  <2>3. ~clerksRaced => (\A a, b \in Defaults : a = b)'
    BY <2>1 DEF Defaults, AddressesInv
  <2> QED
    BY <1>8, <2>1, <2>2, <2>3, IdleClerk, ClerkGoesOn
<1>9. CASE UNCHANGED directoryVars
  BY <1>9 DEF directoryVars, AddressesInv, AddressesTypeOK, ClerkHasEntry, ClearedFirst, Defaults
<1> QED
  BY <1>1, <1>2, <1>3, <1>4, <1>5, <1>6, <1>7, <1>8, <1>9 DEF AddressesNext

\* OneDefault: while requests do not overlap the directory never has two defaults,
\* whatever statement a request dies after (_clear_other_defaults, before the write).
THEOREM DirectoryHasOneDefault == AddressesSpec => []OneDefault
<1>1. AddressesInv => OneDefault
  BY DEF AddressesInv, OneDefault
<1> QED
  BY AddressesStart, AddressesStepKeeps, <1>1, PTL DEF AddressesSpec

-----------------------------------------------------------------------------
(***************************************************************************)
(* Carts.                                                                  *)
(***************************************************************************)
CartRow == [key : Key, quantity : 1 .. MaxQuantity]
EditRecord == [op : {"none", "insert", "add", "set"}, id : {0} \cup LineId,
               key : Key \cup {None}, quantity : 0 .. MaxQuantity]

\* A request under way has a product and bundle and a quantity for them, and one
\* that saves has the line to save.
EditsAimed ==
    \A w \in Worker : tab[w] # NoEdit =>
        /\ tab[w].key \in Key /\ tab[w].quantity \in 1 .. MaxQuantity
        /\ tab[w].op \in {"add", "set"} => tab[w].id \in LineId

\* Keys not used yet have no row.
UnusedLines == \A i \in LineId : inserted < i => line[i] = NoLine

\* As long as requests do not overlap and no bundle is gone, there is one under way
\* and what it found is still so.
EditsCurrent ==
    \A w \in Worker : tab[w] # NoEdit =>
        /\ \A v \in Worker : tab[v] # NoEdit => v = w
        /\ tab[w].op = "insert" => LinesFor(tab[w].key) = {}
        /\ tab[w].op \in {"add", "set"} => tab[w].id \in LinesFor(tab[w].key)

\* CartIsExact, of one product and bundle.
ExactFor(k) == /\ \A i, j \in LinesFor(k) : i = j
               /\ wanted[k] = 0 <=> LinesFor(k) = {}
               /\ \A i \in LinesFor(k) : line[i].quantity = wanted[k]

CartsInv ==
    /\ CartsTypeOK /\ EditsAimed /\ UnusedLines
    /\ ~tabsRaced /\ bundles = Bundle => EditsCurrent /\ \A k \in Key : ExactFor(k)
-----------------------------------------------------------------------------
\* The least number of a set of numbers is one of them.
LEMMA MinIn ==
    ASSUME NEW S \in SUBSET Nat, S # {}
    PROVE  Min(S) \in S
<1>1. PICK x \in S : \A y \in S : <<y, x>> \notin OpToRel(<, Nat)
  BY NatLessThanWellFounded, WFMin
<1>2. ASSUME NEW y \in S PROVE x <= y
  <2>1. <<y, x>> \in Nat \X Nat /\ x \in Nat /\ y \in Nat
    OBVIOUS
  <2>2. ~(y < x)
    <3> SUFFICES ASSUME y < x PROVE FALSE
      OBVIOUS
    <3>1. PICK p : p = <<y, x>>
      OBVIOUS
    <3>2. p[1] < p[2] /\ p \in Nat \X Nat
      BY <3>1, <2>1
    <3>3. p \in OpToRel(<, Nat)
      BY <3>2 DEF OpToRel
    <3> QED
      BY <3>1, <3>3, <1>1
  <2> QED
    BY <2>1, <2>2
<1> QED
  BY <1>2 DEF Min

\* The types of the variables, by their records.
LEMMA CartShapes ==
    CartsTypeOK <=>
        /\ line \in [LineId -> CartRow \cup {NoLine}]
        /\ inserted \in 0 .. MaxLines /\ bundles \subseteq Bundle /\ orderable \subseteq Product
        /\ tab \in [Worker -> EditRecord]
        /\ wanted \in [Key -> 0 .. MaxQuantity] /\ tabsRaced \in BOOLEAN
  BY Zenon DEF CartsTypeOK, CartRow, EditRecord

\* A line that is not there, an idle slot's record, and the bounds.
LEMMA IdleTab ==
    /\ NoLine.quantity = 0 /\ NoEdit \in EditRecord /\ NoEdit.op = "none"
    /\ MaxQuantity \in Nat /\ 1 <= MaxQuantity /\ MaxLines \in Nat
<1>1. /\ MaxQuantity \in Nat /\ 1 <= MaxQuantity /\ MaxLines \in Nat
  BY CartsAssumption
<1>2. 0 \in 0 .. MaxQuantity
  BY <1>1
<1> QED
  BY <1>1, <1>2 DEF NoLine, NoEdit, EditRecord

\* The rows that are there, by what they are.
LEMMA LinesAreRows ==
    ASSUME CartsInv
    PROVE  /\ Lines \subseteq LineId
           /\ \A i \in LineId : \/ i \in Lines /\ line[i] \in CartRow
                                \/ i \notin Lines /\ line[i] = NoLine
<1>1. line \in [LineId -> CartRow \cup {NoLine}]
  BY CartShapes DEF CartsInv
<1> QED
  BY <1>1, IdleTab DEF Lines, CartRow

\* The cart is empty at the start.
LEMMA CartsStart == CartsInit => CartsInv
<1> SUFFICES ASSUME CartsInit PROVE CartsInv
  OBVIOUS
<1>1. /\ line = [i \in LineId |-> NoLine] /\ inserted = 0 /\ bundles = Bundle /\ orderable = Product
      /\ tab = [w \in Worker |-> NoEdit] /\ wanted = [k \in Key |-> 0]
  BY DEF CartsInit
<1>2. tabsRaced \in BOOLEAN
  BY Zenon DEF CartsInit
<1>3. Lines = {} /\ \A k : LinesFor(k) = {}
  BY <1>1, IdleTab DEF Lines, LinesFor
<1>4. CartsTypeOK
  <2>1. inserted \in 0 .. MaxLines /\ 0 \in 0 .. MaxQuantity
    BY <1>1, IdleTab
  <2>2. /\ line \in [LineId -> CartRow \cup {NoLine}] /\ tab \in [Worker -> EditRecord]
        /\ wanted \in [Key -> 0 .. MaxQuantity]
    BY <1>1, <2>1, IdleTab
  <2> QED
    BY <1>1, <1>2, <2>1, <2>2, CartShapes
<1>5. EditsAimed /\ UnusedLines /\ EditsCurrent
  BY <1>1, IdleTab DEF EditsAimed, UnusedLines, EditsCurrent
<1>6. \A k \in Key : ExactFor(k)
  BY <1>1, <1>3 DEF ExactFor
<1> QED
  BY <1>4, <1>5, <1>6 DEF CartsInv

\* A request has looked its line up.
LEMMA EditBegins ==
    ASSUME CartsInv, NEW w \in Worker, NEW c \in EditRecord, StartEdit(w, c),
           c.key \in Key, c.quantity \in 1 .. MaxQuantity,
           c.op \in {"add", "set"} => c.id \in LinesFor(c.key),
           c.op = "insert" => LinesFor(c.key) = {}
    PROVE  CartsInv'
<1>0. /\ tab \in [Worker -> EditRecord]
      /\ tab[w] = NoEdit /\ tab' = [tab EXCEPT ![w] = c]
      /\ tabsRaced' = (tabsRaced \/ \E v \in Worker : tab[v] # NoEdit)
      /\ UNCHANGED <<line, inserted, bundles, orderable, wanted>>
  BY CartShapes DEF CartsInv, StartEdit
<1>1. tabsRaced' \in BOOLEAN
  BY <1>0, Zenon
<1>2. /\ tab' \in [Worker -> EditRecord] /\ tab'[w] = c
      /\ \A v \in Worker \ {w} : tab'[v] = tab[v]
  BY <1>0
<1>3. Lines' = Lines /\ \A k : LinesFor(k)' = LinesFor(k)
  BY <1>0 DEF Lines, LinesFor
<1>4. CartsTypeOK'
  BY <1>0, <1>1, <1>2 DEF CartsInv, CartsTypeOK, EditRecord
<1>5. EditsAimed' /\ UnusedLines'
  BY <1>0, <1>2 DEF CartsInv, EditsAimed, UnusedLines, LinesFor, Lines
<1>6. ASSUME ~tabsRaced', bundles' = Bundle PROVE EditsCurrent' /\ \A k \in Key : ExactFor(k)'
  <2>1. /\ \A v \in Worker : tab[v] = NoEdit
        /\ \A k \in Key : ExactFor(k)
    BY <1>0, <1>6 DEF CartsInv
  <2>2. EditsCurrent'
    BY <1>2, <1>3, <2>1 DEF EditsCurrent
  <2>3. \A k \in Key : ExactFor(k)'
    BY <1>0, <1>3, <2>1 DEF ExactFor
  <2> QED
    BY <2>2, <2>3
<1> QED
  BY <1>4, <1>5, <1>6 DEF CartsInv

\* A row is written for the product and bundle of the request, the first or the one
\* it found, and the shopper has it so.
LEMMA LineWritten ==
    ASSUME CartsInv, NEW w \in Worker, tab[w] # NoEdit,
           NEW i \in LineId, NEW k \in Key, NEW q \in 1 .. MaxQuantity, NEW p \in 0 .. MaxQuantity,
           line' = [line EXCEPT ![i] = [key |-> k, quantity |-> q]],
           wanted' = [wanted EXCEPT ![tab[w].key] = p],
           tab' = [tab EXCEPT ![w] = NoEdit], UNCHANGED <<bundles, orderable, tabsRaced>>,
           inserted' \in inserted .. MaxLines, i <= inserted',
           ~tabsRaced /\ bundles = Bundle =>
              k = tab[w].key /\ p = q /\ LinesFor(k) \subseteq {i} /\ (i \in Lines => i \in LinesFor(k))
    PROVE  CartsInv'
<1> DEFINE row == [key |-> k, quantity |-> q]
<1>0. /\ line \in [LineId -> CartRow \cup {NoLine}] /\ inserted \in 0 .. MaxLines
      /\ tab \in [Worker -> EditRecord] /\ wanted \in [Key -> 0 .. MaxQuantity] /\ tab[w].key \in Key
      /\ MaxLines \in Nat /\ MaxQuantity \in Nat
  BY CartShapes, IdleTab DEF CartsInv, EditsAimed
<1>1. /\ tab' \in [Worker -> EditRecord] /\ tab'[w] = NoEdit
      /\ \A v \in Worker \ {w} : tab'[v] = tab[v]
  BY <1>0, IdleTab
<1>2. /\ row \in CartRow /\ row.key = k /\ row.quantity = q
      /\ line' \in [LineId -> CartRow \cup {NoLine}] /\ line'[i] = row
      /\ \A j \in LineId \ {i} : line'[j] = line[j]
  BY <1>0 DEF CartRow
<1>3. /\ wanted' \in [Key -> 0 .. MaxQuantity] /\ wanted'[tab[w].key] = p
      /\ \A j \in Key \ {tab[w].key} : wanted'[j] = wanted[j]
  BY <1>0
<1>4. inserted' \in 0 .. MaxLines
  BY <1>0
<1>5. CartsTypeOK'
  BY <1>1, <1>2, <1>3, <1>4 DEF CartsInv, CartsTypeOK, EditRecord, CartRow
<1>6. EditsAimed'
  BY <1>1 DEF CartsInv, EditsAimed
<1>7. UnusedLines'
  <2> SUFFICES ASSUME NEW j \in LineId, inserted' < j PROVE line'[j] = NoLine
    BY DEF UnusedLines
  <2>1. j # i /\ inserted < j
    BY <1>0 DEF LineId
  <2> QED
    BY <1>2, <2>1 DEF CartsInv, UnusedLines
<1>8. ASSUME ~tabsRaced, bundles = Bundle PROVE EditsCurrent' /\ \A j \in Key : ExactFor(j)'
  <2>0. EditsCurrent /\ \A j \in Key : ExactFor(j)
    BY <1>8 DEF CartsInv
  <2>1. EditsCurrent'
    <3>1. \A v \in Worker : tab[v] # NoEdit => v = w
      BY <2>0 DEF EditsCurrent
    <3>2. \A v \in Worker : tab'[v] = NoEdit
      BY <1>1, <3>1
    <3> QED
      BY <3>2 DEF EditsCurrent
  <2>2. /\ k = tab[w].key /\ p = q /\ LinesFor(k) \subseteq {i} /\ (i \in Lines => i \in LinesFor(k))
    BY <1>8
  <2>3. Lines' = Lines \cup {i}
    BY <1>2 DEF Lines
  <2>4. LinesFor(k)' = {i}
    BY <1>2, <2>2, <2>3 DEF LinesFor, Lines
  <2>5. \A j \in Key \ {k} : LinesFor(j)' = LinesFor(j)
    BY <1>2, <2>2, <2>3 DEF LinesFor, Lines
  <2>6. ExactFor(k)'
    BY <1>0, <1>2, <1>3, <2>2, <2>4 DEF ExactFor
  <2>7. ASSUME NEW j \in Key \ {k} PROVE ExactFor(j)'
    <3>1. \A n \in LinesFor(j) : n # i /\ n \in LineId
      BY <1>2, <2>4, <2>5, <2>7 DEF LinesFor, Lines
    <3>2. ExactFor(j) /\ wanted'[j] = wanted[j] /\ LinesFor(j)' = LinesFor(j)
      BY <1>3, <2>0, <2>2, <2>5, <2>7
    <3> QED
      BY <1>2, <3>1, <3>2 DEF ExactFor
  <2> QED
    BY <2>1, <2>6, <2>7
<1> QED
  BY <1>5, <1>6, <1>7, <1>8 DEF CartsInv

\* A request ends without having written anything.
LEMMA EditGivesUp ==
    ASSUME CartsInv, NEW w \in Worker, tab' = [tab EXCEPT ![w] = NoEdit],
           inserted' \in inserted .. MaxLines,
           UNCHANGED <<line, bundles, orderable, wanted, tabsRaced>>
    PROVE  CartsInv'
<1>0. /\ tab \in [Worker -> EditRecord] /\ inserted \in 0 .. MaxLines /\ MaxLines \in Nat
  BY CartShapes, IdleTab DEF CartsInv
<1>1. /\ tab' \in [Worker -> EditRecord] /\ tab'[w] = NoEdit
      /\ \A v \in Worker \ {w} : tab'[v] = tab[v]
  BY <1>0, IdleTab
<1>2. inserted' \in 0 .. MaxLines /\ inserted <= inserted' /\ inserted' \in Nat
  BY <1>0
<1>3. CartsTypeOK'
  BY <1>1, <1>2 DEF CartsInv, CartsTypeOK, EditRecord
<1>4. EditsAimed' /\ UnusedLines'
  <2>1. UnusedLines'
    BY <1>0, <1>2 DEF CartsInv, UnusedLines, LineId
  <2> QED
    BY <1>1, <2>1 DEF CartsInv, EditsAimed
<1>5. Lines' = Lines /\ \A k : LinesFor(k)' = LinesFor(k)
  BY DEF Lines, LinesFor
<1>6. ASSUME ~tabsRaced, bundles = Bundle PROVE EditsCurrent' /\ \A k \in Key : ExactFor(k)'
  <2>1. EditsCurrent'
    BY <1>1, <1>5, <1>6 DEF CartsInv, EditsCurrent
  <2>2. \A k \in Key : ExactFor(k)'
    BY <1>5, <1>6 DEF CartsInv, ExactFor
  <2> QED
    BY <2>1, <2>2
<1> QED
  BY <1>3, <1>4, <1>6 DEF CartsInv

\* Every step keeps the invariant.
LEMMA CartsStepKeeps == CartsInv /\ [CartsNext]_cartVars => CartsInv'
<1> SUFFICES ASSUME CartsInv, [CartsNext]_cartVars PROVE CartsInv'
  OBVIOUS
<1>0. /\ line \in [LineId -> CartRow \cup {NoLine}] /\ inserted \in 0 .. MaxLines
      /\ tab \in [Worker -> EditRecord] /\ wanted \in [Key -> 0 .. MaxQuantity]
      /\ bundles \subseteq Bundle /\ orderable \subseteq Product
      /\ MaxLines \in Nat /\ MaxQuantity \in Nat /\ 1 <= MaxQuantity
  BY CartShapes, IdleTab DEF CartsInv
<1>l. \A i \in Lines : /\ i \in LineId /\ line[i] \in CartRow /\ line[i].key \in Key
                       /\ line[i].quantity \in 1 .. MaxQuantity
  BY LinesAreRows DEF CartRow
<1>m. \A a, b \in 1 .. MaxQuantity : Least(a + b, MaxQuantity) \in 1 .. MaxQuantity
  BY <1>0 DEF Least
<1>1. ASSUME NEW w \in Worker, LookUpLine(w) PROVE CartsInv'
  <2>1. PICK k \in Key, n \in 1 .. MaxQuantity :
          StartEdit(w, IF LinesFor(k) = {} THEN [op |-> "insert", id |-> 0, key |-> k, quantity |-> n]
                       ELSE [op |-> "add", id |-> Min(LinesFor(k)), key |-> k,
                             quantity |-> Least(line[Min(LinesFor(k))].quantity + n, MaxQuantity)])
    BY <1>1 DEF LookUpLine
  <2>2. CASE LinesFor(k) = {}
    <3>1. PICK c \in EditRecord :
             c = [op |-> "insert", id |-> 0, key |-> k, quantity |-> n]
      <4>1. n \in 0 .. MaxQuantity
        OBVIOUS
      <4> QED
        BY <4>1 DEF EditRecord
    <3>2. /\ c.op = "insert" /\ c.key = k /\ c.quantity = n
          /\ StartEdit(w, c)
      BY <2>1, <2>2, <3>1
    <3> QED
      BY <1>1, <2>2, <3>2, EditBegins
  <2>3. CASE LinesFor(k) # {}
    <3>1. LinesFor(k) \subseteq LineId /\ LineId \subseteq Nat
      BY DEF LinesFor, Lines, LineId
    <3>2. PICK i \in LinesFor(k) : i = Min(LinesFor(k))
      BY <2>3, <3>1, MinIn
    <3>3. PICK q \in 1 .. MaxQuantity : q = Least(line[i].quantity + n, MaxQuantity)
      BY <1>l, <1>m DEF LinesFor
    <3>4. PICK c \in EditRecord : c = [op |-> "add", id |-> i, key |-> k, quantity |-> q]
      <4>1. q \in 0 .. MaxQuantity /\ i \in LineId
        BY <3>1
      <4> QED
        BY <4>1 DEF EditRecord
    <3>5. /\ c.op = "add" /\ c.key = k /\ c.quantity = q /\ c.id = i
          /\ StartEdit(w, c)
      BY <2>1, <2>3, <3>2, <3>3, <3>4
    <3> QED
      BY <1>1, <3>5, EditBegins
  <2> QED
    BY <2>2, <2>3
<1>2. ASSUME NEW w \in Worker, LoadLine(w) PROVE CartsInv'
  <2>1. PICK i \in Lines, n \in 1 .. MaxQuantity :
           StartEdit(w, [op |-> "set", id |-> i, key |-> line[i].key, quantity |-> n])
    BY <1>2 DEF LoadLine
  <2>2. PICK k \in Key : k = line[i].key
    BY <1>l
  <2>3. PICK c \in EditRecord : c = [op |-> "set", id |-> i, key |-> k, quantity |-> n]
    <3>1. n \in 0 .. MaxQuantity /\ i \in LineId
      BY <1>l
    <3> QED
      BY <3>1 DEF EditRecord
  <2>4. c.op = "set" /\ c.id = i /\ c.key = k /\ c.quantity = n /\ StartEdit(w, c)
    BY <2>1, <2>2, <2>3
  <2>5. i \in LinesFor(k)
    BY <2>2 DEF LinesFor
  <2> QED
    BY <1>2, <2>4, <2>5, EditBegins
<1>3. ASSUME NEW w \in Worker, InsertLine(w) PROVE CartsInv'
  <2>1. /\ tab[w].op = "insert" /\ inserted < MaxLines /\ inserted' = inserted + 1
        /\ line' = IF tab[w].key[2] \in bundles \cup {None}
                   THEN [line EXCEPT ![inserted + 1] = [key |-> tab[w].key, quantity |-> tab[w].quantity]]
                   ELSE line
        /\ wanted' = IF tab[w].key[2] \in bundles \cup {None}
                     THEN [wanted EXCEPT ![tab[w].key] =
                              Least(wanted[tab[w].key] + tab[w].quantity, MaxQuantity)]
                     ELSE wanted
        /\ tab' = [tab EXCEPT ![w] = NoEdit]
        /\ UNCHANGED <<bundles, orderable, tabsRaced>>
    BY <1>3 DEF InsertLine
  <2>2. tab[w] # NoEdit /\ tab[w].key \in Key /\ tab[w].quantity \in 1 .. MaxQuantity
    BY <2>1, IdleTab DEF CartsInv, EditsAimed
  <2>3. inserted' \in inserted .. MaxLines /\ inserted + 1 \in LineId /\ inserted + 1 <= inserted'
    BY <1>0, <2>1 DEF LineId
  <2>4. CASE tab[w].key[2] \in bundles \cup {None}
    <3>1. PICK i \in LineId : i = inserted + 1
      BY <2>3
    <3>2. PICK k \in Key : k = tab[w].key
      BY <2>2
    <3>3. PICK q \in 1 .. MaxQuantity : q = tab[w].quantity
      BY <2>2
    <3>4. PICK p \in 0 .. MaxQuantity : p = Least(wanted[tab[w].key] + tab[w].quantity, MaxQuantity)
      BY <1>0, <2>2 DEF Least
    <3>5. /\ line' = [line EXCEPT ![i] = [key |-> k, quantity |-> q]]
          /\ wanted' = [wanted EXCEPT ![tab[w].key] = p]
      BY <2>1, <2>4, <3>1, <3>2, <3>3, <3>4
    <3>6. line[i] = NoLine /\ i \notin Lines
      <4>1. line[i] = NoLine
        BY <1>0, <3>1 DEF CartsInv, UnusedLines
      <4> QED
        BY <4>1, IdleTab DEF Lines
    <3>7. ASSUME ~tabsRaced, bundles = Bundle PROVE p = q /\ LinesFor(k) = {}
      <4>1. EditsCurrent /\ ExactFor(k)
        BY <3>7 DEF CartsInv
      <4>2. LinesFor(k) = {}
        BY <2>1, <2>2, <3>2, <4>1 DEF EditsCurrent
      <4>3. wanted[k] = 0
        BY <4>1, <4>2 DEF ExactFor
      <4> QED
        BY <1>0, <3>2, <3>3, <3>4, <4>2, <4>3 DEF Least
    <3> QED
      BY <1>3, <2>1, <2>2, <2>3, <3>1, <3>2, <3>5, <3>6, <3>7, LineWritten
  <2>5. CASE tab[w].key[2] \notin bundles \cup {None}
    BY <1>3, <2>1, <2>3, <2>5, EditGivesUp
  <2> QED
    BY <2>4, <2>5
<1>4. ASSUME NEW w \in Worker, SaveLine(w) PROVE CartsInv'
  <2>1. /\ tab[w].op \in {"add", "set"}
        /\ line' = IF tab[w].id \in Lines THEN [line EXCEPT ![tab[w].id].quantity = tab[w].quantity]
                   ELSE line
        /\ wanted' = IF tab[w].id \in Lines THEN [wanted EXCEPT ![tab[w].key] = tab[w].quantity]
                     ELSE wanted
        /\ tab' = [tab EXCEPT ![w] = NoEdit]
        /\ UNCHANGED <<inserted, bundles, orderable, tabsRaced>>
    BY <1>4 DEF SaveLine
  <2>2. /\ tab[w] # NoEdit /\ tab[w].key \in Key /\ tab[w].quantity \in 1 .. MaxQuantity
        /\ tab[w].id \in LineId
    BY <2>1, IdleTab DEF CartsInv, EditsAimed
  <2>3. inserted' \in inserted .. MaxLines
    BY <1>0, <2>1
  <2>4. CASE tab[w].id \in Lines
    <3>1. PICK i \in Lines : i = tab[w].id
      BY <2>4
    <3>2. PICK k \in Key : k = line[i].key
      BY <1>l
    <3>3. PICK q \in 1 .. MaxQuantity : q = tab[w].quantity /\ q \in 0 .. MaxQuantity
      BY <2>2
    <3>4. line' = [line EXCEPT ![i] = [key |-> k, quantity |-> q]]
      <4>1. line[i] \in CartRow
        BY <1>l
      <4>2. [line[i] EXCEPT !.quantity = q] = [key |-> k, quantity |-> q]
        BY <3>2, <4>1 DEF CartRow
      <4> QED
        BY <2>1, <2>4, <3>1, <3>3, <4>2
    <3>5. i <= inserted'
      <4>1. line[i] # NoLine /\ i \in LineId
        BY <1>l, IdleTab DEF Lines
      <4> QED
        BY <1>0, <2>1, <4>1 DEF CartsInv, UnusedLines, LineId
    <3>6. ASSUME ~tabsRaced, bundles = Bundle
          PROVE  k = tab[w].key /\ LinesFor(k) \subseteq {i} /\ i \in LinesFor(k)
      <4>1. EditsCurrent /\ \A j \in Key : ExactFor(j)
        BY <3>6 DEF CartsInv
      <4>2. i \in LinesFor(tab[w].key)
        BY <2>1, <2>2, <3>1, <4>1 DEF EditsCurrent
      <4>3. k = tab[w].key
        BY <3>2, <4>2 DEF LinesFor
      <4> QED
        BY <4>1, <4>2, <4>3 DEF ExactFor
    <3>7. wanted' = [wanted EXCEPT ![tab[w].key] = q] /\ i \in LineId
      BY <1>l, <2>1, <2>4, <3>3
    <3> QED
      BY <1>4, <2>1, <2>2, <2>3, <3>3, <3>4, <3>5, <3>6, <3>7, LineWritten
  <2>5. CASE tab[w].id \notin Lines
    BY <1>4, <2>1, <2>3, <2>5, EditGivesUp
  <2> QED
    BY <2>4, <2>5
<1>5. ASSUME NEW w \in Worker, RemoveLine(w) PROVE CartsInv'
  <2>1. PICK i \in Lines :
        /\ tab[w] = NoEdit
        /\ line' = [line EXCEPT ![i] = NoLine]
        /\ wanted' = [wanted EXCEPT ![line[i].key] = 0]
        /\ tabsRaced' = (tabsRaced \/ \E v \in Worker : tab[v] # NoEdit)
        /\ UNCHANGED <<inserted, bundles, orderable, tab>>
    BY <1>5 DEF RemoveLine
  <2>2. tabsRaced' \in BOOLEAN
    BY <2>1, Zenon
  <2>3. PICK k \in Key : k = line[i].key /\ i \in LineId
    BY <1>l
  <2>4. /\ line' \in [LineId -> CartRow \cup {NoLine}] /\ line'[i] = NoLine
        /\ \A j \in LineId \ {i} : line'[j] = line[j]
        /\ wanted' \in [Key -> 0 .. MaxQuantity] /\ wanted'[k] = 0
        /\ \A j \in Key \ {k} : wanted'[j] = wanted[j]
    BY <1>0, <2>1, <2>3
  <2>5. CartsTypeOK'
    BY <2>1, <2>2, <2>4 DEF CartsInv, CartsTypeOK, CartRow
  <2>6. EditsAimed' /\ UnusedLines'
    BY <2>1, <2>4 DEF CartsInv, EditsAimed, UnusedLines
  <2>7. ASSUME ~tabsRaced', bundles = Bundle PROVE EditsCurrent' /\ \A j \in Key : ExactFor(j)'
    <3>1. /\ \A v \in Worker : tab[v] = NoEdit
          /\ \A j \in Key : ExactFor(j)
      BY <2>1, <2>7 DEF CartsInv
    <3>2. EditsCurrent'
      BY <2>1, <3>1 DEF EditsCurrent
    <3>3. Lines' = Lines \ {i}
      BY <2>4, IdleTab DEF Lines
    <3>4. \A j \in Key : LinesFor(j)' = LinesFor(j) \ {i}
      BY <2>4, <3>3 DEF LinesFor, Lines
    <3>5. i \in LinesFor(k) /\ \A j \in Key \ {k} : i \notin LinesFor(j)
      BY <2>3 DEF LinesFor
    <3>6. ExactFor(k)'
      BY <2>4, <3>1, <3>4, <3>5 DEF ExactFor
    <3>7. ASSUME NEW j \in Key \ {k} PROVE ExactFor(j)'
      <4>1. /\ LinesFor(j)' = LinesFor(j) /\ wanted'[j] = wanted[j] /\ ExactFor(j)
            /\ \A n \in LinesFor(j) : n \in LineId /\ n # i
        BY <2>4, <3>1, <3>4, <3>5, <3>7 DEF LinesFor, Lines
      <4> QED
        BY <2>4, <4>1 DEF ExactFor
    <3> QED
      BY <3>2, <3>6, <3>7
  <2> QED
    BY <2>1, <2>5, <2>6, <2>7 DEF CartsInv
<1>6. CASE DeleteBundle
  <2>1. PICK b \in bundles :
        /\ bundles' = bundles \ {b}
        /\ line' = [i \in LineId |-> IF i \in Lines /\ line[i].key[2] = b
                                     THEN [line[i] EXCEPT !.key = <<line[i].key[1], None>>] ELSE line[i]]
        /\ UNCHANGED <<inserted, orderable, tab, wanted, tabsRaced>>
    BY <1>6 DEF DeleteBundle
  <2>2. \A i \in Lines : [line[i] EXCEPT !.key = <<line[i].key[1], None>>] \in CartRow
    <3> SUFFICES ASSUME NEW i \in Lines
                 PROVE  [line[i] EXCEPT !.key = <<line[i].key[1], None>>] \in CartRow
      OBVIOUS
    <3>1. line[i] \in CartRow /\ line[i].key \in Key
      BY <1>l
    <3>2. PICK k \in Key : k = <<line[i].key[1], None>>
      BY <3>1 DEF Key
    <3>3. [line[i] EXCEPT !.key = k] \in CartRow
      BY <3>1 DEF CartRow
    <3> QED
      BY <3>2, <3>3
  <2>3. line' \in [LineId -> CartRow \cup {NoLine}]
    BY <1>0, <2>1, <2>2
  <2>4. CartsTypeOK'
    BY <1>0, <2>1, <2>3 DEF CartsInv, CartsTypeOK, CartRow
  <2>5. EditsAimed' /\ UnusedLines'
    <3>1. \A i \in LineId : line[i] = NoLine => line'[i] = NoLine
      BY <2>1, IdleTab DEF Lines
    <3> QED
      BY <2>1, <3>1 DEF CartsInv, EditsAimed, UnusedLines
  <2>6. bundles' # Bundle
    BY <1>0, <2>1
  <2> QED
    BY <2>4, <2>5, <2>6 DEF CartsInv
<1>7. CASE StockChanges
  <2>1. orderable' \subseteq Product /\ UNCHANGED <<line, inserted, bundles, tab, wanted, tabsRaced>>
    BY <1>0, <1>7 DEF StockChanges
  <2> QED
    BY <2>1 DEF CartsInv, CartsTypeOK, EditsAimed, UnusedLines, EditsCurrent, ExactFor, LinesFor, Lines
<1>8. CASE UNCHANGED cartVars
  BY <1>8 DEF cartVars, CartsInv, CartsTypeOK, EditsAimed, UnusedLines, EditsCurrent, ExactFor,
              LinesFor, Lines
<1> QED
  BY <1>1, <1>2, <1>3, <1>4, <1>5, <1>6, <1>7, <1>8 DEF CartsNext

\* The types: no line leaves 1 .. MAX_LINE_QUANTITY, however requests overlap.
THEOREM CartTypes == CartsSpec => []CartsTypeOK
<1>1. CartsInv => CartsTypeOK
  BY DEF CartsInv
<1> QED
  BY CartsStart, CartsStepKeeps, <1>1, PTL DEF CartsSpec

\* CartIsExact: while the shopper's requests do not overlap and no bundle is deleted,
\* the cart has one line per product and bundle, with the quantity asked for (add_item,
\* update_item and remove_item of apps/cart).
THEOREM CartStaysExact == CartsSpec => []CartIsExact
<1>1. CartsInv => CartIsExact
  BY DEF CartsInv, CartIsExact, ExactFor
<1> QED
  BY CartsStart, CartsStepKeeps, <1>1, PTL DEF CartsSpec

===============================================================================
