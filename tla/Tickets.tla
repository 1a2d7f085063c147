------------------------------- MODULE Tickets -------------------------------
(***************************************************************************)
(* The help desk of controllers/tickets.py.  Every action is a handler up  *)
(* to its last statement; Commit and Rollback of Requests end it.  Texts   *)
(* and dates are left out, updated_at with them; of closed_at the model    *)
(* keeps whether it is set.                                                *)
(***************************************************************************)
EXTENDS Requests

CONSTANTS Tickets,
          Notes,     \* keys of ticket_comments
          Priorities

TicketKeys == Tickets \cup Notes

Statuses == {"open", "in_progress", "pending_user", "resolved", "closed"}
Closed == {"resolved", "closed"}

ASSUME TicketAssumption == TicketKeys \subseteq Keys /\ Tickets \cap Notes = {}
                           /\ "normal" \in Priorities

-----------------------------------------------------------------------------
Opened(u) == [requester |-> u, assignee |-> None, status |-> "open",
              priority |-> "normal", closedAt |-> FALSE]

TicketNew(w, u, k) == Fresh(k) /\ Serve(w, k, Insert(k, Opened(u)))

MaySee(u, k) == IsAdmin(u) \/ u = db[k].requester

\* Mutant of TicketComment: the flag is taken as it comes.
TicketCommentAsSent(w, u, k, n, internal) ==
    /\ Exists(k) /\ MaySee(u, k) /\ Fresh(n)
    /\ Serve(w, k, Insert(n, [ticket |-> k, author |-> u, internal |-> internal]))

\* Users cannot write internal notes: their flag is dropped.
TicketComment(w, u, k, n, internal) ==
    /\ Exists(k) /\ MaySee(u, k) /\ Fresh(n)
    /\ Serve(w, k, Insert(n, [ticket |-> k, author |-> u,
                              internal |-> internal /\ IsAdmin(u)]))

TicketAssign(w, u, k, assignee) ==
    /\ IsAdmin(u) /\ Exists(k)
    /\ Serve(w, k, Update(k, [assignee |-> assignee], {}))

\* Mutant of TicketStatus: reopening keeps the date.
TicketStatusKeepsDate(w, u, k, status) ==
    /\ Exists(k)
    /\ IsAdmin(u) \/ (u = db[k].requester /\ status \in {"pending_user", "closed"})
    /\ Serve(w, k, IF status \in Closed
                   THEN Update(k, [status |-> status, closedAt |-> TRUE], {"closedAt"})
                   ELSE Update(k, [status |-> status], {}))

\* An administrator sets any status, the requester two of them.
TicketStatus(w, u, k, status) ==
    /\ Exists(k)
    /\ IsAdmin(u) \/ (u = db[k].requester /\ status \in {"pending_user", "closed"})
    /\ Serve(w, k, IF status \in Closed
                   THEN Update(k, [status |-> status, closedAt |-> TRUE], {"closedAt"})
                   ELSE Update(k, [status |-> status, closedAt |-> FALSE], {}))

TicketPriority(w, u, k, priority) ==
    /\ IsAdmin(u) /\ Exists(k)
    /\ Serve(w, k, Update(k, [priority |-> priority], {}))

TicketsNext ==
    \E w \in Workers, u \in Users, k \in Tickets :
        \/ TicketNew(w, u, k)
        \/ \E n \in Notes, internal \in BOOLEAN : TicketComment(w, u, k, n, internal)
        \/ \E a \in Users \cup {None} : TicketAssign(w, u, k, a)
        \/ \E s \in Statuses : TicketStatus(w, u, k, s)
        \/ \E p \in Priorities : TicketPriority(w, u, k, p)

-----------------------------------------------------------------------------
TicketRow == [requester : Users, assignee : Users \cup {None}, status : Statuses,
              priority : Priorities, closedAt : BOOLEAN]

NoteRow == [ticket : Tickets, author : Users, internal : BOOLEAN]

ASSUME TicketRowAssumption == None \notin TicketRow \cup NoteRow

\* The rows of the help desk, as models/schema.py declares them; only those
\* who may see a ticket have written in it.
TicketsTypeOK ==
    /\ \A k \in Tickets : db[k] \in TicketRow \cup {None}
    /\ \A n \in Notes : /\ db[n] \in NoteRow \cup {None}
                        /\ Exists(n) => MaySee(db[n].author, db[n].ticket)

\* A ticket has a closing date exactly while it is resolved or closed, unless
\* requests about it overlap: each then writes the columns it has changed.
ClosedAtMatchesStatus ==
    \A k \in Tickets \ raced : Exists(k) => (db[k].closedAt <=> db[k].status \in Closed)

\* view_ticket: staff see all the notes of a ticket, its requester those that
\* are not internal.
Seen(u, k) == {n \in Notes : /\ Exists(n) /\ db[n].ticket = k /\ MaySee(u, k)
                             /\ IsAdmin(u) \/ ~db[n].internal}

\* Everybody keeps seeing what he wrote, and a requester sees all that was
\* written but internal notes of staff.
AuthorsSeeTheirNotes ==
    \A n \in Notes : Exists(n) =>
        /\ n \in Seen(db[n].author, db[n].ticket)
        /\ n \notin Seen(db[db[n].ticket].requester, db[n].ticket) => IsAdmin(db[n].author)
=============================================================================
