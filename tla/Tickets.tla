------------------------------ MODULE Tickets ------------------------------
(***************************************************************************)
(* Support tickets (apps/support).  Every staff handler loads the ticket,  *)
(* validates what it loaded and saves some of its columns; nothing locks   *)
(* the row, so a save can follow from a state that is gone.                *)
(***************************************************************************)
EXTENDS Workers

CONSTANTS
    Ticket,
    Agent,        \* staff users
    MaxMessages   \* bound: messages per ticket

ASSUME TicketsAssumption == None \notin Ticket \cup Agent /\ MaxMessages \in Nat \ {0}

VARIABLES
    ticket,       \* the committed row: [status, agent, messages]
    returnTicket, \* the ticket a return request points to
    desk,         \* what each request read and is about to save
    deskRaced     \* (history) whether two requests were ever under way at once

ticketVars == <<ticket, returnTicket, desk, deskRaced>>
-----------------------------------------------------------------------------
TicketStatuses == {"open", "pending_customer", "resolved", "closed"}

\* _TICKET_STATUS_TRANSITIONS: where a ticket may go.
TicketMoves(status) == CASE status = "open" -> {"pending_customer", "resolved", "closed"}
                         [] status = "pending_customer" -> {"open", "resolved", "closed"}
                         [] status = "resolved" -> {"open", "closed"}
                         [] OTHER -> {}

NoTicket == [status |-> "none", agent |-> None, messages |-> 0]
NoRequest == [op |-> "none", ticket |-> None, seen |-> NoTicket, to |-> "none", agent |-> None]

Opened == {k \in Ticket : ticket[k].status # "none"}
-----------------------------------------------------------------------------
TicketsInit == /\ ticket = [k \in Ticket |-> NoTicket]
               /\ returnTicket = None
               /\ desk = [w \in Worker |-> NoRequest]
               /\ deskRaced = FALSE

\* create_ticket, one transaction: the ticket, its first message and, when it
\* is about a return request, the link from that request.
CreateTicket ==
    \E k \in Ticket \ Opened, aboutReturn \in BOOLEAN :
        /\ ticket' = [ticket EXCEPT ![k] = [NoTicket EXCEPT !.status = "open", !.messages = 1]]
        /\ returnTicket' = IF aboutReturn THEN k ELSE returnTicket
        /\ UNCHANGED <<desk, deskRaced>>

\* add_staff_reply refuses a ticket that was closed when it was loaded.
MayReply(row) == row.status # "closed"

\* A handler loads the ticket and validates the request against it.
LoadTicket(w) ==
    \E k \in Opened, op \in {"reply", "status", "assign"}, a \in Agent, to \in TicketStatuses :
        /\ desk[w] = NoRequest
        /\ CASE op = "reply"  -> MayReply(ticket[k]) /\ to = "open"
             [] op = "status" -> to \in TicketMoves(ticket[k].status) /\ a = CHOOSE b \in Agent : TRUE
             [] OTHER         -> to = "open"
        /\ desk' = [desk EXCEPT ![w] = [op |-> op, ticket |-> k, seen |-> ticket[k],
                                        to |-> to, agent |-> a]]
        /\ deskRaced' = (deskRaced \/ \E v \in Worker : desk[v] # NoRequest)
        /\ UNCHANGED <<ticket, returnTicket>>

\* The first reply takes the ticket and hands it to the customer: the message
\* is inserted, and the columns are saved that the loaded row calls for.
SaveReply(w) ==
    LET q == desk[w] IN
    /\ q.op = "reply" /\ ticket[q.ticket].messages < MaxMessages
    /\ ticket' = [ticket EXCEPT ![q.ticket] =
                    [status |-> IF q.seen.status = "open" THEN "pending_customer" ELSE @.status,
                     agent |-> IF q.seen.agent = None THEN q.agent ELSE @.agent,
                     messages |-> @.messages + 1]]
    /\ desk' = [desk EXCEPT ![w] = NoRequest]
    /\ UNCHANGED <<returnTicket, deskRaced>>

\* set_ticket_status saves the status only, assign_ticket the agent only.
SaveStatus(w) ==
    LET q == desk[w] IN
    /\ q.op = "status"
    /\ ticket' = [ticket EXCEPT ![q.ticket].status = q.to]
    /\ desk' = [desk EXCEPT ![w] = NoRequest]
    /\ UNCHANGED <<returnTicket, deskRaced>>

\* Mutant of SaveAgent: it saves the status it loaded as well.
SaveAgentRow(w) ==
    LET q == desk[w] IN
    /\ q.op = "assign"
    /\ ticket' = [ticket EXCEPT ![q.ticket].agent = q.agent, ![q.ticket].status = q.seen.status]
    /\ desk' = [desk EXCEPT ![w] = NoRequest]
    /\ UNCHANGED <<returnTicket, deskRaced>>

SaveAgent(w) ==
    LET q == desk[w] IN
    /\ q.op = "assign"
    /\ ticket' = [ticket EXCEPT ![q.ticket].agent = q.agent]
    /\ desk' = [desk EXCEPT ![w] = NoRequest]
    /\ UNCHANGED <<returnTicket, deskRaced>>

TicketsNext ==
    \/ CreateTicket
    \/ \E w \in Worker : LoadTicket(w) \/ SaveReply(w) \/ SaveStatus(w) \/ SaveAgent(w)

TicketsSpec == TicketsInit /\ [][TicketsNext]_ticketVars
-----------------------------------------------------------------------------
\* The types of the variables.
TicketsTypeOK ==
    LET Row == [status : TicketStatuses \cup {"none"}, agent : Agent \cup {None},
                messages : 0 .. MaxMessages]
    IN /\ ticket \in [Ticket -> Row] /\ returnTicket \in Ticket \cup {None}
       /\ desk \in [Worker -> [op : {"none", "reply", "status", "assign"},
                               ticket : Ticket \cup {None}, seen : Row,
                               to : TicketStatuses \cup {"none"}, agent : Agent \cup {None}]]
       /\ deskRaced \in BOOLEAN

\* A closed ticket stays closed and takes no message; two requests on it that
\* overlap can break that.  Only a reply or a status request that was under
\* way can: an assignment never touches a closed ticket's status, whenever it
\* was loaded, and an assigned ticket is never left without an agent.
ClosedIsFinal ==
    \A k \in Ticket :
        /\ ticket[k].status = "closed" /\ (\/ ticket'[k].status # "closed"
                                           \/ ticket'[k].messages # ticket[k].messages)
           => deskRaced /\ \E w \in Worker : /\ desk[w].op \in {"reply", "status"}
                                             /\ desk[w].ticket = k /\ desk[w].seen.status # "closed"
                                             /\ desk'[w] = NoRequest
        /\ ticket[k].agent # None => ticket'[k].agent # None
=============================================================================
