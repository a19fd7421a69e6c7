----------------------------- MODULE Inquiries -----------------------------
(***************************************************************************)
(* The inquiry queue (apps/inquiries) and the staff intake that turns an   *)
(* inquiry into an order (the end of create_staff_order, apps/orders).     *)
(* Staff move an inquiry along the allowed graph, checked on the row as    *)
(* they loaded it; intake writes its columns whatever the graph says.      *)
(***************************************************************************)
EXTENDS Workers

CONSTANTS
    Inquiry,
    MaxIntakes   \* bound: orders taken in from an inquiry

ASSUME InquiriesAssumption == MaxIntakes \in Nat

VARIABLES
    inquiry,       \* rows of the queue: [status, order]; order: its converted_order, by number
    intakes,       \* orders taken in so far
    inquiryClerk,  \* what each request has loaded and is about to write
    inquiryRaced   \* (history) whether a request ever wrote an inquiry another had loaded

inquiryVars == <<inquiry, intakes, inquiryClerk, inquiryRaced>>
-----------------------------------------------------------------------------
InquiryStates == {"new", "contacted", "converted", "abandoned"}

\* _ALLOWED_TRANSITIONS.
InquiryMoves(s) == CASE s = "new" -> {"contacted", "abandoned"}
                     [] s = "contacted" -> {"converted", "abandoned"}
                     [] s = "abandoned" -> {"contacted"}
                     [] OTHER -> {}

MayMove(from, to) == to \in InquiryMoves(from)

NoInquiry == [status |-> "unused", order |-> 0]
NoInquiryClerk == [op |-> "none", inquiry |-> None, to |-> "unused"]

InquiriesInit ==
    /\ inquiry = [i \in Inquiry |-> NoInquiry]
    /\ intakes = 0
    /\ inquiryClerk = [w \in Worker |-> NoInquiryClerk]
    /\ inquiryRaced = FALSE

\* InquiryCreateView and record_inquiry.
RecordInquiry ==
    \E i \in Inquiry : /\ inquiry[i] = NoInquiry
                       /\ inquiry' = [inquiry EXCEPT ![i].status = "new"]
                       /\ UNCHANGED <<intakes, inquiryClerk, inquiryRaced>>

\* A request loads an inquiry: InquiryStatusUpdateView, which checks the move
\* at once, or the transaction of create_staff_order.
LoadInquiry(w) ==
    \E i \in Inquiry, op \in {"move", "convert"}, to \in InquiryStates :
        /\ inquiryClerk[w] = NoInquiryClerk /\ inquiry[i] # NoInquiry
        /\ IF op = "move" THEN MayMove(inquiry[i].status, to)
           ELSE to = "converted" /\ intakes < MaxIntakes
        /\ inquiryClerk' = [inquiryClerk EXCEPT ![w] = [op |-> op, inquiry |-> i, to |-> to]]
        /\ UNCHANGED <<inquiry, intakes, inquiryRaced>>

WritesInquiry(w) ==
    /\ inquiryClerk' = [inquiryClerk EXCEPT ![w] = NoInquiryClerk]
    /\ inquiryRaced' = (inquiryRaced \/ \E v \in Worker \ {w} :
                           inquiryClerk[v].inquiry = inquiryClerk[w].inquiry)

\* transition_inquiry: save(update_fields=["status", ...]).
MoveInquiry(w) ==
    LET c == inquiryClerk[w] IN
    /\ c.op = "move"
    /\ inquiry' = [inquiry EXCEPT ![c.inquiry].status = c.to]
    /\ WritesInquiry(w)
    /\ UNCHANGED intakes

\* create_staff_order commits its order, and the inquiry names it.
ConvertInquiry(w) ==
    LET c == inquiryClerk[w] IN
    /\ c.op = "convert" /\ intakes < MaxIntakes
    /\ intakes' = intakes + 1
    /\ inquiry' = [inquiry EXCEPT ![c.inquiry] = [status |-> "converted", order |-> intakes + 1]]
    /\ WritesInquiry(w)

\* The transaction of an intake is rolled back, or a request dies.
DropInquiry(w) ==
    /\ inquiryClerk[w] # NoInquiryClerk
    /\ inquiryClerk' = [inquiryClerk EXCEPT ![w] = NoInquiryClerk]
    /\ UNCHANGED <<inquiry, intakes, inquiryRaced>>

InquiriesNext ==
    \/ RecordInquiry
    \/ \E w \in Worker : \/ LoadInquiry(w) \/ MoveInquiry(w) \/ ConvertInquiry(w)
                         \/ DropInquiry(w)

InquiriesSpec == InquiriesInit /\ [][InquiriesNext]_inquiryVars
-----------------------------------------------------------------------------
\* The types of the variables.
InquiriesTypeOK ==
    /\ inquiry \in [Inquiry -> [status : InquiryStates \cup {"unused"}, order : 0 .. intakes]]
    /\ intakes \in 0 .. MaxIntakes
    /\ inquiryClerk \in [Worker -> [op : {"none", "move", "convert"}, inquiry : Inquiry \cup {None},
                                    to : InquiryStates \cup {"unused"}]]
    /\ inquiryRaced \in BOOLEAN

\* As long as no two requests work on one inquiry at once, an inquiry that
\* became an order stays converted, so the funnel keeps counting it, and only
\* another order can take its place.  (A move that was checked before the
\* intake committed takes it out of the funnel again.)
ConvertedStays ==
    ~inquiryRaced' => \A i \in Inquiry :
        inquiry[i].order # 0 => inquiry'[i].status = "converted" /\ inquiry'[i].order # 0
=============================================================================
