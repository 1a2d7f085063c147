---------------------------- MODULE Support_proofs ----------------------------
(***************************************************************************)
(* Proofs about the forum and the help desk, for any number of users,      *)
(* workers, requests, threads, comments and tickets.                       *)
(*                                                                         *)
(* What an open request is about to send was decided on the tables as they *)
(* were when its handler read them.  Two kinds of facts survive until it   *)
(* commits.  Of every request, WellFormed says what its statements may be: *)
(* they touch only rows of its subject, and never the columns that other   *)
(* rows rely on.  Of a request that nothing overlapped, Settled says what  *)
(* the tables will be once it has committed: as good as those of a handler *)
(* that runs alone.  Of the label of a deletion something is left even     *)
(* where requests overlap (Labelled): each column of it is sent by someone *)
(* who deletes the row, or was found there as he would have written it.    *)
(***************************************************************************)
EXTENDS Support, FiniteSetTheorems, TLAPS

-----------------------------------------------------------------------------
(* Rows, whoever writes them. *)

\* What a comment, a solution or a note refers to is there; no key of the
\* database says so of all of them, and internal notes are by administrators.
References ==
    /\ \A c \in Comments : Exists(c) => Exists(db[c].thread)
    /\ \A p \in Solutions : Exists(p) => Exists(p[1]) /\ Exists(p[2])
    /\ \A n \in Notes : Exists(n) => /\ Exists(db[n].ticket)
                                     /\ db[n].internal => IsAdmin(db[n].author)

Rows == ForumTypeOK /\ TicketsTypeOK /\ References

-----------------------------------------------------------------------------
(* What a request may send. *)

ThreadPatch(p) ==
    /\ DOMAIN p \subseteq {"locked", "pinned", "solved", "deleted", "byAdmin", "deleter"}
    /\ \A c \in DOMAIN p : IF c = "deleter" THEN p[c] \in Users ELSE p[c] \in BOOLEAN
    /\ "deleted" \in DOMAIN p => p["deleted"] = TRUE

CommentPatch(p) ==
    /\ DOMAIN p \subseteq {"deleted", "byAdmin", "deleter"}
    /\ \A c \in DOMAIN p : IF c = "deleter" THEN p[c] \in Users ELSE p[c] \in BOOLEAN
    /\ "deleted" \in DOMAIN p => p["deleted"] = TRUE

VotePatch(p) == DOMAIN p \subseteq {"value"} /\ \A c \in DOMAIN p : p[c] \in {-1, 1}

TicketPatch(p) ==
    /\ DOMAIN p \subseteq {"assignee", "status", "priority", "closedAt"}
    /\ "assignee" \in DOMAIN p => p["assignee"] \in Users \cup {None}
    /\ "status" \in DOMAIN p => p["status"] \in Statuses
    /\ "priority" \in DOMAIN p => p["priority"] \in Priorities
    /\ "closedAt" \in DOMAIN p => p["closedAt"] \in BOOLEAN

OnThread(s, x) ==
    /\ s.key = x
    /\ \/ s.kind = "insert" /\ \E u \in Users : s.cols = NewThread(u)
       \/ s.kind = "update" /\ ThreadPatch(s.cols)

OnComment(s, x) ==
    /\ x \in Threads /\ Exists(x)
    /\ \/ s.kind = "insert" /\ \E u \in Users : s.cols = NewComment(u, x)
       \/ /\ s.kind = "update" /\ CommentPatch(s.cols)
          /\ Exists(s.key) /\ db[s.key].thread = x

OnSolution(s, x) ==
    /\ s.key[1] = x
    /\ \/ /\ s.kind = "insert" /\ Exists(x) /\ Exists(s.key[2])
          /\ db[s.key[2]].thread = x /\ s.cols = [creator |-> db[x].author]
       \/ s.kind = "delete"

OnVote(s, x) ==
    /\ s.key = x
    /\ \/ s.kind = "insert" /\ s.cols \in VoteRow
       \/ s.kind = "update" /\ VotePatch(s.cols)
       \/ s.kind = "delete"

OnTicket(s, x) ==
    /\ s.key = x
    /\ \/ s.kind = "insert" /\ \E u \in Users : s.cols = Opened(u)
       \/ s.kind = "update" /\ TicketPatch(s.cols)

OnNote(s, x) ==
    /\ x \in Tickets /\ Exists(x)
    /\ s.kind = "insert" /\ s.cols \in NoteRow /\ s.cols.ticket = x
    /\ MaySee(s.cols.author, x)
    /\ s.cols.internal => IsAdmin(s.cols.author)

\* A statement of a request about x.
Lawful(s, x) ==
    /\ s.key \in ForumKeys \cup TicketKeys
    /\ s.key \in Threads => OnThread(s, x)
    /\ s.key \in Comments => OnComment(s, x)
    /\ s.key \in Solutions => OnSolution(s, x)
    /\ s.key \in Votes => OnVote(s, x)
    /\ s.key \in Tickets => OnTicket(s, x)
    /\ s.key \in Notes => OnNote(s, x)

\* No two statements on one row, and no two on solutions.
Apart(flush) ==
    \A r, s \in flush : r.key = s.key \/ (r.key \in Solutions /\ s.key \in Solutions) => r = s

Sends(flush, x) == Apart(flush) /\ \A s \in flush : Lawful(s, x)

WellFormed(w) == open[w].subject \in Keys /\ Sends(open[w].flush, open[w].subject)

Overlaps ==
    \A v, w \in Workers :
        v # w /\ open[v] # Idle /\ open[v].subject = open[w].subject => open[v].subject \in raced

-----------------------------------------------------------------------------
(* What holds of a subject that no two requests were about at a time. *)

Honest(row) == row.byAdmin <=> (IsAdmin(row.deleter) /\ row.deleter # row.author)

\* Of the tables d and a thread t.
ThreadGood(d, t) ==
    /\ d[t] # None /\ (\E c \in Comments : d[<<t, c>>] # None) => d[t].solved
    /\ d[t] # None /\ d[t].deleted => d[t].locked /\ ~d[t].pinned /\ Honest(d[t])
    /\ \A c \in Comments : d[c] # None /\ d[c].thread = t /\ d[c].deleted => Honest(d[c])

TicketGood(d, k) == d[k] # None => (d[k].closedAt <=> d[k].status \in Closed)

Good(d, x) == (x \in Threads => ThreadGood(d, x)) /\ (x \in Tickets => TicketGood(d, x))

\* From the tables d to the tables e, nothing happens to a deleted thread.
Frozen(d, e, t) ==
    d[t] # None /\ d[t].deleted =>
        /\ e[t].locked /\ ~e[t].pinned /\ e[t].solved = d[t].solved
        /\ \A c \in Comments : e[<<t, c>>] = d[<<t, c>>]
        /\ \A c \in Comments : d[c] # None /\ d[c].thread = t => e[c] = d[c]
        /\ \A c \in Comments : e[c] # None /\ e[c].thread = t => d[c] # None

\* A flush about x leads to good tables, and leaves a deleted thread alone.
Leads(flush, x) == /\ Good(Applied(db, flush), x)
                   /\ x \in Threads => Frozen(db, Applied(db, flush), x)

Settled(w) == open[w].subject \notin raced => Leads(open[w].flush, open[w].subject)

Requested == /\ DOMAIN open = Workers
             /\ \A w \in Workers : open[w] # Idle => WellFormed(w) /\ Settled(w)
             /\ Overlaps
             /\ \A x \in Keys \ raced : Good(db, x)

-----------------------------------------------------------------------------
(* The solutions of a thread, and those its author is about to add. *)

Adds(flush, t) == \E s \in flush : s.kind = "insert" /\ s.key \in Solutions /\ s.key[1] = t

Adding(t) == {w \in Workers : Adds(open[w].flush, t)}

Limit(t) == IF t \in raced THEN MaxSolutions - 1 + Cardinality(Workers) ELSE MaxSolutions

Counted == \A t \in Threads :
    /\ IsFiniteSet(Marked(t))
    /\ Cardinality(Marked(t)) + Cardinality(Adding(t)) <= Limit(t)

Inv == Rows /\ Requested /\ Counted

-----------------------------------------------------------------------------
(* The tables are apart. *)

LEMMA Tables ==
    /\ Threads \subseteq Keys /\ Comments \subseteq Keys /\ Solutions \subseteq Keys
    /\ Votes \subseteq Keys /\ Tickets \subseteq Keys /\ Notes \subseteq Keys
    /\ Threads \cap Comments = {} /\ Threads \cap Solutions = {} /\ Threads \cap Votes = {}
    /\ Comments \cap Solutions = {} /\ Comments \cap Votes = {} /\ Solutions \cap Votes = {}
    /\ ForumKeys \cap Tickets = {} /\ ForumKeys \cap Notes = {} /\ Tickets \cap Notes = {}
  BY ForumAssumption, TicketAssumption, TablesAssumption DEF ForumKeys, TicketKeys

LEMMA NoneIsNoRow ==
    /\ None \notin ThreadRow /\ None \notin CommentRow /\ None \notin VoteRow
    /\ None \notin [creator : Users] /\ None \notin TicketRow /\ None \notin NoteRow
  BY ForumRowAssumption, TicketRowAssumption

LEMMA NewRows ==
    ASSUME NEW u \in Users
    PROVE  /\ NewThread(u) \in ThreadRow
           /\ \A t \in Threads : NewComment(u, t) \in CommentRow
           /\ Opened(u) \in TicketRow
  BY TicketAssumption DEF NewThread, ThreadRow, NewComment, CommentRow, Opened, TicketRow,
                          Statuses

-----------------------------------------------------------------------------
(* What a flush makes of a row. *)

LEMMA Touched ==
    ASSUME NEW d, NEW F, Apart(F), NEW s \in F, s.key \in Keys
    PROVE  Applied(d, F)[s.key] = Result(d[s.key], s)
<1>1. \E r \in F : r.key = s.key
  OBVIOUS
<1>2. (CHOOSE r \in F : r.key = s.key) = s
  BY <1>1 DEF Apart
<1>. QED BY <1>1, <1>2 DEF Applied

LEMMA Untouched ==
    ASSUME NEW d, NEW F, NEW k \in Keys, \A s \in F : s.key # k
    PROVE  Applied(d, F)[k] = d[k]
  BY DEF Applied

LEMMA UpdateShape ==
    ASSUME NEW k, NEW new, NEW stamped, NEW s \in Update(k, new, stamped)
    PROVE  /\ s.kind = "update" /\ s.key = k
           /\ DOMAIN s.cols \subseteq DOMAIN new
           /\ \A c \in DOMAIN s.cols : s.cols[c] = new[c]
           /\ \A c \in DOMAIN new \ DOMAIN s.cols : new[c] = db[k][c]
           /\ \A r \in Update(k, new, stamped) : r = s
<1> DEFINE dirty == {c \in DOMAIN new : c \in stamped \/ new[c] # db[k][c]}
<1>1. Update(k, new, stamped)
        = IF dirty = {} THEN {}
          ELSE {[kind |-> "update", key |-> k, cols |-> [c \in dirty |-> new[c]]]}
  BY DEF Update
<1>2. s = [kind |-> "update", key |-> k, cols |-> [c \in dirty |-> new[c]]]
  BY <1>1
<1>3. \A r \in Update(k, new, stamped) : r = s
  BY <1>1, <1>2
<1>4. DOMAIN s.cols = dirty /\ \A c \in dirty : s.cols[c] = new[c]
  BY <1>2
<1>. QED BY <1>2, <1>3, <1>4

\* An attribute assigned has its new value, sent or not.
LEMMA UpdateApplied ==
    ASSUME NEW F, Apart(F), NEW k \in Keys, NEW new, NEW stamped,
           \A s : s \in Update(k, new, stamped) <=> s \in F /\ s.key = k,
           DOMAIN new \subseteq DOMAIN db[k],
           NEW row, row = db[k], row = [c \in DOMAIN row |-> row[c]]
    PROVE  Applied(db, F)[k] = [c \in DOMAIN row |-> IF c \in DOMAIN new THEN new[c] ELSE row[c]]
<1>1. CASE Update(k, new, stamped) = {}
  <2>1. Applied(db, F)[k] = row
    BY <1>1, Untouched
  <2>2. {c \in DOMAIN new : c \in stamped \/ new[c] # row[c]} = {}
    BY <1>1 DEF Update
  <2>3. \A c \in DOMAIN row : row[c] = IF c \in DOMAIN new THEN new[c] ELSE row[c]
    BY <2>2
  <2>. QED BY <2>1, <2>3
<1>2. CASE Update(k, new, stamped) # {}
  <2>1. PICK s \in Update(k, new, stamped) : TRUE
    BY <1>2
  <2>2. s \in F /\ s.key = k
    BY <2>1
  <2>3. Applied(db, F)[k] = Result(db[s.key], s)
    BY <2>2, Touched
  <2>4. /\ s.kind = "update" /\ DOMAIN s.cols \subseteq DOMAIN new
        /\ \A c \in DOMAIN s.cols : s.cols[c] = new[c]
        /\ \A c \in DOMAIN new \ DOMAIN s.cols : new[c] = row[c]
    BY <2>1, UpdateShape
  <2>5. Result(db[s.key], s)
       = [c \in DOMAIN row |-> IF c \in DOMAIN s.cols THEN s.cols[c] ELSE row[c]]
    BY <2>2, <2>4 DEF Result
  <2>6. \A c \in DOMAIN row : (IF c \in DOMAIN s.cols THEN s.cols[c] ELSE row[c])
                              = (IF c \in DOMAIN new THEN new[c] ELSE row[c])
    BY <2>4
  <2>. QED BY <2>3, <2>5, <2>6
<1>. QED BY <1>1, <1>2

LEMMA PatchedThread ==
    ASSUME NEW row \in ThreadRow, NEW p, ThreadPatch(p), NEW q,
           q = [c \in DOMAIN row |-> IF c \in DOMAIN p THEN p[c] ELSE row[c]]
    PROVE  q \in ThreadRow /\ q.author = row.author /\ (row.deleted => q.deleted)
  BY DEF ThreadRow, ThreadPatch

LEMMA PatchedComment ==
    ASSUME NEW row \in CommentRow, NEW p, CommentPatch(p), NEW q,
           q = [c \in DOMAIN row |-> IF c \in DOMAIN p THEN p[c] ELSE row[c]]
    PROVE  /\ q \in CommentRow /\ q.author = row.author /\ q.thread = row.thread
           /\ row.deleted => q.deleted
  BY DEF CommentRow, CommentPatch

LEMMA PatchedVote ==
    ASSUME NEW row \in VoteRow, NEW p, VotePatch(p)
    PROVE  [c \in DOMAIN row |-> IF c \in DOMAIN p THEN p[c] ELSE row[c]] \in VoteRow
  BY DEF VoteRow, VotePatch

LEMMA PatchedTicket ==
    ASSUME NEW row \in TicketRow, NEW p, TicketPatch(p), NEW q,
           q = [c \in DOMAIN row |-> IF c \in DOMAIN p THEN p[c] ELSE row[c]]
    PROVE  q \in TicketRow /\ q.requester = row.requester
  BY DEF TicketRow, TicketPatch

-----------------------------------------------------------------------------
(* What a commit makes of the tables, whatever ran meanwhile. *)

LEMMA ThreadCommitted ==
    ASSUME Rows, NEW F, NEW x, Sends(F, x), \A s \in F : Fits(s), NEW t \in Threads
    PROVE  /\ Applied(db, F)[t] \in ThreadRow \cup {None}
           /\ Exists(t) => /\ Applied(db, F)[t] \in ThreadRow
                           /\ Applied(db, F)[t].author = db[t].author
                           /\ db[t].deleted => Applied(db, F)[t].deleted
           /\ t # x => Applied(db, F)[t] = db[t]
<1>1. t \in Keys /\ db[t] \in ThreadRow \cup {None}
  BY Tables DEF Rows, ForumTypeOK
<1>2. CASE \A s \in F : s.key # t
  BY <1>1, <1>2, Untouched DEF Exists
<1>3. ASSUME NEW s \in F, s.key = t
      PROVE  /\ Applied(db, F)[t] \in ThreadRow \cup {None}
             /\ Exists(t) => /\ Applied(db, F)[t] \in ThreadRow
                             /\ Applied(db, F)[t].author = db[t].author
                             /\ db[t].deleted => Applied(db, F)[t].deleted
             /\ t # x => Applied(db, F)[t] = db[t]
  <2>1. OnThread(s, x) /\ Fits(s) /\ Applied(db, F)[t] = Result(db[s.key], s)
    BY <1>1, <1>3, Touched DEF Sends, Lawful
  <2>2. t = x
    BY <1>3, <2>1 DEF OnThread
  <2>3. CASE s.kind = "insert"
    <3>1. ~Exists(t) /\ Result(db[s.key], s) = s.cols
      BY <1>3, <2>1, <2>3 DEF Fits, Result
    <3>2. s.cols \in ThreadRow
      BY <2>1, <2>3, NewRows DEF OnThread
    <3>. QED BY <2>1, <2>2, <3>1, <3>2
  <2>4. CASE s.kind = "update"
    <3>1. Exists(t) /\ ThreadPatch(s.cols)
      BY <1>3, <2>1, <2>4 DEF Fits, OnThread
    <3>2. Result(db[s.key], s)
         = [c \in DOMAIN db[t] |-> IF c \in DOMAIN s.cols THEN s.cols[c] ELSE db[t][c]]
      BY <1>3, <2>4 DEF Result
    <3>3. db[t] \in ThreadRow
      BY <1>1, <3>1 DEF Exists
    <3>. QED BY <2>1, <2>2, <3>1, <3>2, <3>3, PatchedThread
  <2>. QED BY <2>1, <2>3, <2>4 DEF OnThread
<1>. QED BY <1>2, <1>3

LEMMA CommentCommitted ==
    ASSUME Rows, NEW F, NEW x, Sends(F, x), \A s \in F : Fits(s), NEW c \in Comments
    PROVE  /\ Applied(db, F)[c] \in CommentRow \cup {None}
           /\ Exists(c) => /\ Applied(db, F)[c] \in CommentRow
                           /\ Applied(db, F)[c].author = db[c].author
                           /\ Applied(db, F)[c].thread = db[c].thread
                           /\ db[c].deleted => Applied(db, F)[c].deleted
           /\ Applied(db, F)[c] # db[c] => /\ x \in Threads /\ Exists(x)
                                           /\ Applied(db, F)[c] \in CommentRow
                                           /\ Applied(db, F)[c].thread = x
<1>1. c \in Keys /\ db[c] \in CommentRow \cup {None}
  BY Tables DEF Rows, ForumTypeOK
<1>2. CASE \A s \in F : s.key # c
  BY <1>1, <1>2, Untouched DEF Exists
<1>3. ASSUME NEW s \in F, s.key = c
      PROVE  /\ Applied(db, F)[c] \in CommentRow
             /\ Exists(c) => /\ Applied(db, F)[c].author = db[c].author
                             /\ Applied(db, F)[c].thread = db[c].thread
                             /\ db[c].deleted => Applied(db, F)[c].deleted
             /\ x \in Threads /\ Exists(x)
             /\ Applied(db, F)[c].thread = x
  <2>1. OnComment(s, x) /\ Fits(s) /\ Applied(db, F)[c] = Result(db[s.key], s)
    BY <1>1, <1>3, Touched DEF Sends, Lawful
  <2>2. x \in Threads /\ Exists(x)
    BY <2>1 DEF OnComment
  <2>3. CASE s.kind = "insert"
    <3>1. ~Exists(c) /\ Result(db[s.key], s) = s.cols
      BY <1>3, <2>1, <2>3 DEF Fits, Result
    <3>2. PICK u \in Users : s.cols = NewComment(u, x)
      BY <2>1, <2>3 DEF OnComment
    <3>3. s.cols \in CommentRow /\ s.cols.thread = x
      BY <2>2, <3>2, NewRows DEF NewComment
    <3>. QED BY <2>1, <2>2, <3>1, <3>3
  <2>4. CASE s.kind = "update"
    <3>1. Exists(c) /\ CommentPatch(s.cols) /\ db[c].thread = x
      BY <1>3, <2>1, <2>4 DEF OnComment
    <3>2. Result(db[s.key], s)
         = [k \in DOMAIN db[c] |-> IF k \in DOMAIN s.cols THEN s.cols[k] ELSE db[c][k]]
      BY <1>3, <2>4 DEF Result
    <3>3. db[c] \in CommentRow
      BY <1>1, <3>1 DEF Exists
    <3>. QED BY <2>1, <2>2, <3>1, <3>2, <3>3, PatchedComment
  <2>. QED BY <2>1, <2>3, <2>4 DEF OnComment
<1>. QED BY <1>2, <1>3

LEMMA SolutionCommitted ==
    ASSUME Rows, NEW F, NEW x, Sends(F, x), NEW p \in Solutions
    PROVE  \/ Applied(db, F)[p] = db[p]
           \/ /\ p[1] = x
              /\ \/ Applied(db, F)[p] = None
                 \/ /\ Exists(x) /\ Exists(p[2]) /\ db[p[2]].thread = x
                    /\ Applied(db, F)[p] = [creator |-> db[x].author]
<1>1. p \in Keys
  BY Tables
<1>2. CASE \A s \in F : s.key # p
  BY <1>1, <1>2, Untouched
<1>3. ASSUME NEW s \in F, s.key = p
      PROVE  /\ p[1] = x
             /\ \/ Applied(db, F)[p] = None
                \/ /\ Exists(x) /\ Exists(p[2]) /\ db[p[2]].thread = x
                   /\ Applied(db, F)[p] = [creator |-> db[x].author]
  <2>1. OnSolution(s, x) /\ Applied(db, F)[p] = Result(db[s.key], s)
    BY <1>1, <1>3, Touched DEF Sends, Lawful
  <2>2. s.kind = "insert" => Result(db[s.key], s) = s.cols
    BY DEF Result
  <2>3. s.kind = "delete" => Result(db[s.key], s) = None
    BY DEF Result
  <2>. QED BY <1>3, <2>1, <2>2, <2>3 DEF OnSolution
<1>. QED BY <1>2, <1>3

LEMMA VoteCommitted ==
    ASSUME Rows, NEW F, NEW x, Sends(F, x), \A s \in F : Fits(s), NEW k \in Votes
    PROVE  Applied(db, F)[k] \in VoteRow \cup {None}
<1>1. k \in Keys /\ db[k] \in VoteRow \cup {None}
  BY Tables DEF Rows, ForumTypeOK
<1>2. CASE \A s \in F : s.key # k
  BY <1>1, <1>2, Untouched
<1>3. ASSUME NEW s \in F, s.key = k
      PROVE  Applied(db, F)[k] \in VoteRow \cup {None}
  <2>1. OnVote(s, x) /\ Fits(s) /\ Applied(db, F)[k] = Result(db[s.key], s)
    BY <1>1, <1>3, Touched DEF Sends, Lawful
  <2>2. CASE s.kind = "insert"
    BY <2>1, <2>2 DEF OnVote, Result
  <2>3. CASE s.kind = "update"
    <3>1. db[k] \in VoteRow /\ VotePatch(s.cols)
      BY <1>1, <1>3, <2>1, <2>3 DEF Fits, Exists, OnVote
    <3>2. Result(db[s.key], s)
         = [c \in DOMAIN db[k] |-> IF c \in DOMAIN s.cols THEN s.cols[c] ELSE db[k][c]]
      BY <1>3, <2>3 DEF Result
    <3>. QED BY <2>1, <3>1, <3>2, PatchedVote
  <2>4. CASE s.kind = "delete"
    BY <2>1, <2>4 DEF Result
  <2>. QED BY <2>1, <2>2, <2>3, <2>4 DEF OnVote
<1>. QED BY <1>2, <1>3

LEMMA TicketCommitted ==
    ASSUME Rows, NEW F, NEW x, Sends(F, x), \A s \in F : Fits(s), NEW k \in Tickets
    PROVE  /\ Applied(db, F)[k] \in TicketRow \cup {None}
           /\ Exists(k) => /\ Applied(db, F)[k] \in TicketRow
                           /\ Applied(db, F)[k].requester = db[k].requester
           /\ k # x => Applied(db, F)[k] = db[k]
<1>1. k \in Keys /\ db[k] \in TicketRow \cup {None}
  BY Tables DEF Rows, TicketsTypeOK
<1>2. CASE \A s \in F : s.key # k
  BY <1>1, <1>2, Untouched DEF Exists
<1>3. ASSUME NEW s \in F, s.key = k
      PROVE  /\ Applied(db, F)[k] \in TicketRow
             /\ Exists(k) => Applied(db, F)[k].requester = db[k].requester
             /\ k = x
  <2>1. OnTicket(s, x) /\ Fits(s) /\ Applied(db, F)[k] = Result(db[s.key], s)
    BY <1>1, <1>3, Touched DEF Sends, Lawful
  <2>2. k = x
    BY <1>3, <2>1 DEF OnTicket
  <2>3. CASE s.kind = "insert"
    <3>1. ~Exists(k) /\ Result(db[s.key], s) = s.cols
      BY <1>3, <2>1, <2>3 DEF Fits, Result
    <3>2. s.cols \in TicketRow
      BY <2>1, <2>3, NewRows DEF OnTicket
    <3>. QED BY <2>1, <2>2, <3>1, <3>2
  <2>4. CASE s.kind = "update"
    <3>1. Exists(k) /\ TicketPatch(s.cols)
      BY <1>3, <2>1, <2>4 DEF Fits, OnTicket
    <3>2. Result(db[s.key], s)
         = [c \in DOMAIN db[k] |-> IF c \in DOMAIN s.cols THEN s.cols[c] ELSE db[k][c]]
      BY <1>3, <2>4 DEF Result
    <3>3. db[k] \in TicketRow
      BY <1>1, <3>1 DEF Exists
    <3>. QED BY <2>1, <2>2, <3>1, <3>2, <3>3, PatchedTicket
  <2>. QED BY <2>1, <2>3, <2>4 DEF OnTicket
<1>. QED BY <1>2, <1>3

LEMMA NoteCommitted ==
    ASSUME Rows, NEW F, NEW x, Sends(F, x), NEW n \in Notes
    PROVE  \/ Applied(db, F)[n] = db[n]
           \/ /\ Applied(db, F)[n] \in NoteRow /\ x \in Tickets /\ Exists(x)
              /\ Applied(db, F)[n].ticket = x /\ MaySee(Applied(db, F)[n].author, x)
              /\ Applied(db, F)[n].internal => IsAdmin(Applied(db, F)[n].author)
<1>1. n \in Keys
  BY Tables
<1>2. CASE \A s \in F : s.key # n
  BY <1>1, <1>2, Untouched
<1>3. ASSUME NEW s \in F, s.key = n
      PROVE  /\ Applied(db, F)[n] \in NoteRow /\ x \in Tickets /\ Exists(x)
             /\ Applied(db, F)[n].ticket = x /\ MaySee(Applied(db, F)[n].author, x)
             /\ Applied(db, F)[n].internal => IsAdmin(Applied(db, F)[n].author)
  <2>1. OnNote(s, x) /\ Applied(db, F)[n] = Result(db[s.key], s)
    BY <1>1, <1>3, Touched DEF Sends, Lawful
  <2>2. Result(db[s.key], s) = s.cols
    BY <2>1 DEF OnNote, Result
  <2>. QED BY <2>1, <2>2 DEF OnNote
<1>. QED BY <1>2, <1>3

\* The references of a row stay what they are.
Kept ==
    /\ \A t \in Threads : Exists(t) => Exists(t)' /\ db'[t].author = db[t].author
    /\ \A c \in Comments : Exists(c) => /\ Exists(c)' /\ db'[c].author = db[c].author
                                        /\ db'[c].thread = db[c].thread
    /\ \A k \in Tickets : Exists(k) => Exists(k)' /\ db'[k].requester = db[k].requester

LEMMA CommitKeeps ==
    ASSUME Rows, NEW F, NEW x, Sends(F, x), \A s \in F : Fits(s), db' = Applied(db, F)
    PROVE  Kept
<1>1. \A t \in Threads : Exists(t) => db'[t] # None /\ db'[t].author = db[t].author
  BY ThreadCommitted, NoneIsNoRow
<1>2. \A c \in Comments : Exists(c) => /\ db'[c] # None /\ db'[c].author = db[c].author
                                       /\ db'[c].thread = db[c].thread
  BY CommentCommitted, NoneIsNoRow
<1>3. \A k \in Tickets : Exists(k) => db'[k] # None /\ db'[k].requester = db[k].requester
  BY TicketCommitted, NoneIsNoRow
<1>. QED BY <1>1, <1>2, <1>3 DEF Kept, Exists

LEMMA RowsKept ==
    ASSUME Rows, NEW F, NEW x, Sends(F, x), \A s \in F : Fits(s), db' = Applied(db, F)
    PROVE  Rows'
<1>0. Kept
  BY CommitKeeps
<1>1. \A t \in Threads : db'[t] \in ThreadRow \cup {None}
  BY ThreadCommitted
<1>2. \A c \in Comments : db'[c] \in CommentRow \cup {None}
  BY CommentCommitted
<1>3. \A k \in Votes : db'[k] \in VoteRow \cup {None}
  BY VoteCommitted
<1>4. \A k \in Tickets : db'[k] \in TicketRow \cup {None}
  BY TicketCommitted
<1>5. ASSUME NEW p \in Solutions, Exists(p)'
      PROVE  /\ (Exists(p[1]) /\ Exists(p[2]))'
             /\ db'[p] = [creator |-> db'[p[1]].author] /\ db'[p[2]].thread = p[1]
  <2>1. p[1] \in Threads /\ p[2] \in Comments
    BY DEF Solutions
  <2>2. /\ Exists(p[1]) /\ Exists(p[2])
        /\ db'[p] = [creator |-> db[p[1]].author] /\ db[p[2]].thread = p[1]
    <3>1. CASE db'[p] = db[p]
      BY <1>5, <3>1 DEF Rows, ForumTypeOK, References, Exists
    <3>2. CASE db'[p] # db[p]
      <4>1. db'[p] # None
        BY <1>5 DEF Exists
      <4>2. /\ p[1] = x /\ Exists(x) /\ Exists(p[2]) /\ db[p[2]].thread = x
            /\ db'[p] = [creator |-> db[x].author]
        BY <3>2, <4>1, SolutionCommitted
      <4>. QED BY <4>2
    <3>. QED BY <3>1, <3>2
  <2>. QED BY <1>0, <2>1, <2>2 DEF Kept
<1>6. ASSUME NEW c \in Comments, Exists(c)'
      PROVE  Exists(db[c].thread)'
  <2>1. db'[c] = db[c] => db[c] \in CommentRow /\ Exists(db[c].thread)
    BY <1>6 DEF Rows, ForumTypeOK, References, Exists
  <2>2. db'[c] = db[c] => Exists(db'[c].thread) /\ db'[c].thread \in Threads
    BY <2>1 DEF CommentRow
  <2>3. db'[c] # db[c] => db'[c].thread \in Threads /\ Exists(db'[c].thread)
    BY CommentCommitted
  <2>4. \A t \in Threads : Exists(t) => db'[t] # None
    BY <1>0 DEF Kept, Exists
  <2>. QED BY <2>2, <2>3, <2>4 DEF Exists
<1>7. ASSUME NEW n \in Notes, Exists(n)'
      PROVE  /\ db'[n] \in NoteRow /\ db'[db'[n].ticket] # None
             /\ db'[n].internal => IsAdmin(db'[n].author)
             /\ IsAdmin(db'[n].author) \/ db'[n].author = db'[db'[n].ticket].requester
  <2>1. /\ db'[n] \in NoteRow /\ db'[n].ticket \in Tickets /\ Exists(db'[n].ticket)
        /\ db'[n].internal => IsAdmin(db'[n].author)
        /\ MaySee(db'[n].author, db'[n].ticket)
    <3>1. CASE db'[n] = db[n]
      <4>1. Exists(n)
        BY <1>7, <3>1 DEF Exists
      <4>2. /\ db[n] \in NoteRow /\ Exists(db[n].ticket) /\ MaySee(db[n].author, db[n].ticket)
            /\ db[n].internal => IsAdmin(db[n].author)
        BY <4>1 DEF Rows, TicketsTypeOK, References, Exists
      <4>3. db[n].ticket \in Tickets
        BY <4>2 DEF NoteRow
      <4>. QED BY <3>1, <4>2, <4>3
    <3>2. CASE db'[n] # db[n]
      BY <3>2, NoteCommitted
    <3>. QED BY <3>1, <3>2
  <2>2. db'[db'[n].ticket] # None /\ db'[db'[n].ticket].requester = db[db'[n].ticket].requester
    BY <1>0, <2>1 DEF Kept, Exists
  <2>. QED BY <2>1, <2>2 DEF MaySee
<1>8. ForumTypeOK'
  BY <1>1, <1>2, <1>3, <1>5 DEF ForumTypeOK, Exists
<1>9. TicketsTypeOK'
  BY <1>4, <1>7 DEF TicketsTypeOK, Exists, MaySee
<1>10. References'
  BY <1>5, <1>6, <1>7 DEF References, Exists
<1>. QED BY <1>8, <1>9, <1>10 DEF Rows

-----------------------------------------------------------------------------
(* What the handlers of the forum send. *)

\* A handler has come to its end: what it asks is lawful, leads somewhere good
\* unless requests overlap, and adds a solution only below the limit.
Handled(flush, x) ==
    /\ x \in Keys /\ Sends(flush, x)
    /\ x \notin raced => Leads(flush, x)
    /\ \A t \in Threads : Adds(flush, t) => t = x /\ Cardinality(Marked(t)) < MaxSolutions

Served == \E w \in Workers, x \in Keys : \E F, D : ServeRemoval(w, x, F, D) /\ Handled(F, x)

LEMMA OneUpdate ==
    ASSUME NEW k \in Keys, k \notin Solutions, NEW new, NEW stamped, NEW x,
           NEW F, F = Update(k, new, stamped), \A s \in F : Lawful(s, x)
    PROVE  /\ Sends(F, x)
           /\ \A s \in F : s.key = k
           /\ \A j \in Keys \ {k} : Applied(db, F)[j] = db[j]
           /\ \A t \in Threads : ~Adds(F, t)
<1>1. \A s \in F : s.kind = "update" /\ s.key = k /\ \A r \in F : r = s
  BY UpdateShape
<1>2. Apart(F)
  BY <1>1 DEF Apart
<1>3. \A j \in Keys \ {k} : Applied(db, F)[j] = db[j]
  BY <1>1, Untouched
<1>. QED BY <1>1, <1>2, <1>3 DEF Sends, Adds

LEMMA OneInsert ==
    ASSUME NEW k \in Keys, k \notin Solutions, NEW row, NEW x,
           NEW F, F = Insert(k, row), \A s \in F : Lawful(s, x)
    PROVE  /\ Sends(F, x)
           /\ Applied(db, F)[k] = row
           /\ \A j \in Keys \ {k} : Applied(db, F)[j] = db[j]
           /\ \A t \in Threads : ~Adds(F, t)
<1>1. PICK s : F = {s} /\ s.key = k /\ s.kind = "insert" /\ s.cols = row
  BY DEF Insert
<1>2. Apart(F)
  BY <1>1 DEF Apart
<1>3. Applied(db, F)[k] = row
  <2>1. Applied(db, F)[s.key] = Result(db[s.key], s)
    BY <1>1, <1>2, Touched
  <2>2. Result(db[s.key], s) = row
    BY <1>1 DEF Result
  <2>. QED BY <1>1, <2>1, <2>2
<1>4. \A j \in Keys \ {k} : Applied(db, F)[j] = db[j]
  BY <1>1, Untouched
<1>. QED BY <1>1, <1>2, <1>3, <1>4 DEF Sends, Adds

LEMMA ThreadStatements ==
    ASSUME NEW t \in Threads, NEW new, ThreadPatch(new), NEW s \in Update(t, new, {})
    PROVE  Lawful(s, t)
<1>1. /\ s.kind = "update" /\ s.key = t /\ DOMAIN s.cols \subseteq DOMAIN new
      /\ \A c \in DOMAIN s.cols : s.cols[c] = new[c]
  BY UpdateShape
<1>2. ThreadPatch(s.cols)
  BY <1>1 DEF ThreadPatch
<1>3. t \notin Comments \cup Solutions \cup Votes \cup Tickets \cup Notes /\ t \in ForumKeys
  BY Tables DEF ForumKeys
<1>. QED BY <1>1, <1>2, <1>3 DEF Lawful, OnThread

\* The attributes of a thread are set, and nothing else.
LEMMA ThreadChange ==
    ASSUME Rows, Requested, NEW t \in Threads, Exists(t), NEW new, ThreadPatch(new),
           NEW F, F = Update(t, new, {}), NEW row, row = db[t],
           NEW q, q = [c \in DOMAIN row |-> IF c \in DOMAIN new THEN new[c] ELSE row[c]],
           t \notin raced /\ ThreadGood(db, t) =>
               /\ row.solved => q.solved
               /\ q.deleted => q.locked /\ ~q.pinned /\ Honest(q)
               /\ row.deleted => q.deleted /\ q.solved = row.solved
    PROVE  Handled(F, t)
<1>1. t \in Keys /\ t \notin Solutions /\ t \notin Tickets /\ t \notin Comments
  BY Tables DEF ForumKeys
<1>2. /\ Sends(F, t) /\ \A s \in F : s.key = t
      /\ \A k \in Keys \ {t} : Applied(db, F)[k] = db[k]
      /\ \A x \in Threads : ~Adds(F, x)
  <2>1. \A s \in F : Lawful(s, t)
    BY ThreadStatements
  <2>. QED BY <1>1, <2>1, OneUpdate
<1>3. row \in ThreadRow
  BY DEF Rows, ForumTypeOK, Exists
<1>4. row = [c \in DOMAIN row |-> row[c]] /\ DOMAIN new \subseteq DOMAIN row
  BY <1>3 DEF ThreadRow, ThreadPatch
<1>5. Applied(db, F)[t] = q
  <2>1. Apart(F) /\ t \in Keys /\ \A s \in F : s.key = t
    BY <1>1, <1>2 DEF Sends
  <2>2. Applied(db, F)[t] = [c \in DOMAIN row |-> IF c \in DOMAIN new THEN new[c] ELSE row[c]]
    BY <1>4, <2>1, UpdateApplied
  <2>. QED BY <2>2
<1>6. q \in ThreadRow
  BY <1>3, PatchedThread
<1>7. ASSUME t \notin raced PROVE Leads(F, t)
  <2>1. ThreadGood(db, t)
    BY <1>1, <1>7 DEF Requested, Good
  <2>2. \A c \in Comments : Applied(db, F)[c] = db[c] /\ Applied(db, F)[<<t, c>>] = db[<<t, c>>]
    <3>1. \A c \in Comments : <<t, c>> \in Solutions
      BY DEF Solutions
    <3>. QED BY <1>1, <1>2, <3>1, Tables
  <2>3. /\ row.solved => q.solved
        /\ q.deleted => q.locked /\ ~q.pinned /\ Honest(q)
        /\ row.deleted => q.deleted /\ q.solved = row.solved
    BY <1>7, <2>1
  <2> DEFINE e == Applied(db, F)
  <2>. HIDE DEF e
  <2>4. e[t] = q /\ db[t] = row /\ q # None /\ row # None
    BY <1>3, <1>5, <1>6, NoneIsNoRow DEF e
  <2>5. \A c \in Comments : e[c] = db[c] /\ e[<<t, c>>] = db[<<t, c>>]
    BY <2>2 DEF e
  <2>6. ThreadGood(e, t)
    BY <2>1, <2>3, <2>4, <2>5 DEF ThreadGood
  <2>7. Frozen(db, e, t)
    BY <2>3, <2>4, <2>5 DEF Frozen
  <2>. QED BY <1>1, <2>6, <2>7 DEF Leads, Good, e
<1>. QED BY <1>1, <1>2, <1>7 DEF Handled

LEMMA FlagsHandled ==
    ASSUME Rows, Requested, NEW w \in Workers, NEW u \in Users, NEW t \in Threads,
           \/ ThreadLock(w, u, t) \/ ThreadUnlock(w, u, t)
           \/ ThreadPin(w, u, t) \/ ThreadUnpin(w, u, t)
    PROVE  Served
<1>1. PICK row : row = db[t]
  OBVIOUS
<1>2. t \in Keys /\ Exists(t) /\ row \in ThreadRow /\ row # None
  BY <1>1, Tables DEF ThreadLock, ThreadUnlock, ThreadPin, ThreadUnpin, Rows,
                        ForumTypeOK, Exists
<1>3. CASE ThreadLock(w, u, t)
  <2>1. PICK new : new = [locked |-> TRUE]
    OBVIOUS
  <2>2. PICK q : q = [c \in DOMAIN row |-> IF c \in DOMAIN new THEN new[c] ELSE row[c]]
    OBVIOUS
  <2>3. ThreadPatch(new)
    <3>1. DOMAIN new = {"locked"} /\ new["locked"] = TRUE
      BY <2>1
    <3>. QED BY <3>1 DEF ThreadPatch
  <2>4. /\ q.solved = row.solved /\ q.deleted = row.deleted /\ q.locked
        /\ q.pinned = row.pinned /\ q.byAdmin = row.byAdmin
        /\ q.deleter = row.deleter /\ q.author = row.author
    BY <1>2, <2>1, <2>2 DEF ThreadRow
  <2>5. ThreadGood(db, t) => /\ row.solved => q.solved
                             /\ q.deleted => q.locked /\ ~q.pinned /\ Honest(q)
                             /\ row.deleted => q.deleted /\ q.solved = row.solved
    BY <1>1, <1>2, <2>4 DEF ThreadGood, Honest
  <2>6. PICK F : F = Update(t, new, {})
    OBVIOUS
  <2>7. Handled(F, t)
    BY <1>1, <1>2, <2>2, <2>3, <2>5, <2>6, ThreadChange
  <2>. QED BY <1>2, <1>3, <2>1, <2>6, <2>7 DEF Served, Serve, ThreadLock
<1>4. CASE ThreadUnlock(w, u, t)
  <2>1. PICK new : new = [locked |-> FALSE]
    OBVIOUS
  <2>2. PICK q : q = [c \in DOMAIN row |-> IF c \in DOMAIN new THEN new[c] ELSE row[c]]
    OBVIOUS
  <2>3. ThreadPatch(new)
    <3>1. DOMAIN new = {"locked"} /\ new["locked"] = FALSE
      BY <2>1
    <3>. QED BY <3>1 DEF ThreadPatch
  <2>4. q.solved = row.solved /\ q.deleted = row.deleted /\ ~row.deleted
    BY <1>1, <1>2, <1>4, <2>1, <2>2 DEF ThreadRow, ThreadUnlock
  <2>5. PICK F : F = Update(t, new, {})
    OBVIOUS
  <2>6. Handled(F, t)
    BY <1>1, <1>2, <2>2, <2>3, <2>4, <2>5, ThreadChange
  <2>. QED BY <1>2, <1>4, <2>1, <2>5, <2>6 DEF Served, Serve, ThreadUnlock
<1>5. CASE ThreadPin(w, u, t)
  <2>1. PICK new : new = [pinned |-> TRUE]
    OBVIOUS
  <2>2. PICK q : q = [c \in DOMAIN row |-> IF c \in DOMAIN new THEN new[c] ELSE row[c]]
    OBVIOUS
  <2>3. ThreadPatch(new)
    <3>1. DOMAIN new = {"pinned"} /\ new["pinned"] = TRUE
      BY <2>1
    <3>. QED BY <3>1 DEF ThreadPatch
  <2>4. q.solved = row.solved /\ q.deleted = row.deleted /\ ~row.deleted
    BY <1>1, <1>2, <1>5, <2>1, <2>2 DEF ThreadRow, ThreadPin
  <2>5. PICK F : F = Update(t, new, {})
    OBVIOUS
  <2>6. Handled(F, t)
    BY <1>1, <1>2, <2>2, <2>3, <2>4, <2>5, ThreadChange
  <2>. QED BY <1>2, <1>5, <2>1, <2>5, <2>6 DEF Served, Serve, ThreadPin
<1>6. CASE ThreadUnpin(w, u, t)
  <2>1. PICK new : new = [pinned |-> FALSE]
    OBVIOUS
  <2>2. PICK q : q = [c \in DOMAIN row |-> IF c \in DOMAIN new THEN new[c] ELSE row[c]]
    OBVIOUS
  <2>3. ThreadPatch(new)
    <3>1. DOMAIN new = {"pinned"} /\ new["pinned"] = FALSE
      BY <2>1
    <3>. QED BY <3>1 DEF ThreadPatch
  <2>4. /\ q.solved = row.solved /\ q.deleted = row.deleted /\ ~q.pinned
        /\ q.locked = row.locked /\ q.byAdmin = row.byAdmin
        /\ q.deleter = row.deleter /\ q.author = row.author
    BY <1>2, <2>1, <2>2 DEF ThreadRow
  <2>5. ThreadGood(db, t) => /\ row.solved => q.solved
                             /\ q.deleted => q.locked /\ ~q.pinned /\ Honest(q)
                             /\ row.deleted => q.deleted /\ q.solved = row.solved
    BY <1>1, <1>2, <2>4 DEF ThreadGood, Honest
  <2>6. PICK F : F = Update(t, new, {})
    OBVIOUS
  <2>7. Handled(F, t)
    BY <1>1, <1>2, <2>2, <2>3, <2>5, <2>6, ThreadChange
  <2>. QED BY <1>2, <1>6, <2>1, <2>6, <2>7 DEF Served, Serve, ThreadUnpin
<1>. QED BY <1>3, <1>4, <1>5, <1>6

LEMMA ThreadNewHandled ==
    ASSUME Rows, NEW w \in Workers, NEW u \in Users, NEW t \in Threads, ThreadNew(w, u, t)
    PROVE  Served
<1>0. PICK F : F = Insert(t, NewThread(u))
  OBVIOUS
<1>1. /\ t \in Keys /\ t \in ForumKeys
      /\ t \notin Comments \cup Solutions \cup Votes \cup Tickets \cup Notes
  BY Tables DEF ForumKeys
<1>2. \A s \in F : Lawful(s, t)
  BY <1>0, <1>1 DEF Insert, Lawful, OnThread
<1>3. /\ Sends(F, t) /\ Applied(db, F)[t] = NewThread(u)
      /\ \A k \in Keys \ {t} : Applied(db, F)[k] = db[k]
      /\ \A x \in Threads : ~Adds(F, x)
  BY <1>0, <1>1, <1>2, OneInsert
<1>4. ~Exists(t) /\ Serve(w, t, F)
  BY <1>0 DEF ThreadNew, Fresh
<1> DEFINE e == Applied(db, F)
<1>. HIDE DEF e
<1>5. \A c \in Comments : e[<<t, c>>] = None
  <2>1. \A c \in Comments : <<t, c>> \in Solutions /\ <<t, c>>[1] = t
    BY DEF Solutions
  <2>2. \A c \in Comments : db[<<t, c>>] = None
    BY <1>4, <2>1 DEF Rows, References, Exists
  <2>3. \A c \in Comments : <<t, c>> \in Keys \ {t}
    BY <1>1, <2>1, Tables
  <2>. QED BY <1>3, <2>2, <2>3 DEF e
<1>6. \A c \in Comments : e[c] = None \/ e[c].thread # t
  <2>1. \A c \in Comments : Exists(c) => db[c].thread # t
    BY <1>4 DEF Rows, References
  <2>2. \A c \in Comments : e[c] = db[c]
    BY <1>1, <1>3, Tables DEF e
  <2>. QED BY <2>1, <2>2 DEF Exists
<1>7. ThreadGood(e, t)
  <2>1. e[t] = NewThread(u)
    BY <1>3 DEF e
  <2>2. ~e[t].deleted
    BY <2>1 DEF NewThread
  <2>. QED BY <2>2, <1>5, <1>6 DEF ThreadGood
<1>8. Leads(F, t)
  BY <1>1, <1>4, <1>7 DEF Leads, Good, Frozen, Exists, e
<1>. QED BY <1>1, <1>3, <1>4, <1>8 DEF Served, Serve, Handled

LEMMA ThreadDeleteHandled ==
    ASSUME Rows, Requested, NEW w \in Workers, NEW u \in Users, NEW t \in Threads,
           ThreadDelete(w, u, t)
    PROVE  Served
<1>1. PICK row : row = db[t]
  OBVIOUS
<1>2. t \in Keys /\ Exists(t) /\ row \in ThreadRow
  BY <1>1, Tables DEF ThreadDelete, Rows, ForumTypeOK, Exists
<1>3. PICK new : new = [deleted |-> TRUE, byAdmin |-> IsAdmin(u) /\ ~(u = row.author),
                        deleter |-> u, locked |-> TRUE, pinned |-> FALSE]
  OBVIOUS
<1>4. PICK q : q = [c \in DOMAIN row |-> IF c \in DOMAIN new THEN new[c] ELSE row[c]]
  OBVIOUS
<1>5. /\ DOMAIN new = {"deleted", "byAdmin", "deleter", "locked", "pinned"}
      /\ new["deleted"] = TRUE /\ new["deleter"] = u /\ new["locked"] = TRUE
      /\ new["pinned"] = FALSE /\ new["byAdmin"] = (IsAdmin(u) /\ ~(u = row.author))
  BY <1>3
<1>6. new["byAdmin"] \in BOOLEAN
  BY <1>5
<1>7. ThreadPatch(new)
  BY <1>5, <1>6 DEF ThreadPatch
<1>8. DOMAIN row = {"author", "locked", "pinned", "solved", "deleted", "byAdmin", "deleter"}
  BY <1>2 DEF ThreadRow
<1>9. /\ q["solved"] = row["solved"] /\ q["deleted"] = TRUE /\ q["locked"] = TRUE
      /\ q["pinned"] = FALSE /\ q["author"] = row["author"] /\ q["deleter"] = u
      /\ q["byAdmin"] = new["byAdmin"]
  BY <1>4, <1>5, <1>8
<1>10. q.solved = row.solved /\ q.deleted /\ q.locked /\ ~q.pinned
  BY <1>9
<1>11. Honest(q)
  BY <1>5, <1>9 DEF Honest
<1>12. PICK F : F = Update(t, new, {})
  OBVIOUS
<1>13. Handled(F, t)
  BY <1>1, <1>2, <1>4, <1>7, <1>10, <1>11, <1>12, ThreadChange
<1>14. ServeRemoval(w, t, F, {<<t, u>>})
  BY <1>1, <1>3, <1>12 DEF ThreadDelete
<1>. QED BY <1>2, <1>13, <1>14 DEF Served

\* Only comments of a thread that is not deleted are written.
LEMMA CommentChange ==
    ASSUME NEW t \in Threads, Exists(t), NEW c \in Comments, NEW F,
           \A k \in Keys \ {c} : Applied(db, F)[k] = db[k],
           Applied(db, F)[c].thread = t, Applied(db, F)[c].deleted => Honest(Applied(db, F)[c]),
           ThreadGood(db, t), ~db[t].locked
    PROVE  Leads(F, t)
<1> DEFINE e == Applied(db, F)
<1>. HIDE DEF e
<1>1. t \notin Tickets /\ t \in Keys \ {c} /\ \A b \in Comments : <<t, b>> \in Keys \ {c}
  <2>1. \A b \in Comments : <<t, b>> \in Solutions
    BY DEF Solutions
  <2>. QED BY <2>1, Tables DEF ForumKeys
<1>2. e[t] = db[t] /\ \A b \in Comments : e[<<t, b>>] = db[<<t, b>>]
  BY <1>1 DEF e
<1>3. \A b \in Comments \ {c} : e[b] = db[b]
  BY Tables DEF e
<1>4. e[c].thread = t /\ (e[c].deleted => Honest(e[c]))
  BY DEF e
<1>5. db[t] # None /\ ~db[t].deleted
  BY DEF ThreadGood, Exists
<1>6. ThreadGood(e, t)
  <2>1. ASSUME NEW b \in Comments, e[b] # None, e[b].thread = t, e[b].deleted
        PROVE  Honest(e[b])
    BY <1>3, <1>4, <2>1 DEF ThreadGood
  <2>2. e[t] # None /\ (\E b \in Comments : e[<<t, b>>] # None) => e[t].solved
    BY <1>2 DEF ThreadGood
  <2>. QED BY <1>2, <1>5, <2>1, <2>2 DEF ThreadGood
<1>7. Frozen(db, e, t)
  BY <1>5 DEF Frozen
<1>. QED BY <1>1, <1>6, <1>7 DEF Leads, Good, e

LEMMA CommentCreateHandled ==
    ASSUME Rows, Requested, NEW w \in Workers, NEW u \in Users, NEW t \in Threads,
           NEW c \in Comments, CommentCreate(w, u, t, c)
    PROVE  Served
<1>1. PICK F : F = Insert(c, NewComment(u, t))
  OBVIOUS
<1>2. /\ t \in Keys /\ t \notin Tickets /\ c \in Keys /\ c \in ForumKeys
      /\ c \notin Threads \cup Solutions \cup Votes \cup Tickets \cup Notes
  BY Tables DEF ForumKeys
<1>3. Exists(t) /\ ~db[t].locked /\ Serve(w, t, F)
  BY <1>1 DEF CommentCreate
<1>4. \A s \in F : Lawful(s, t)
  BY <1>1, <1>2, <1>3 DEF Insert, Lawful, OnComment
<1>5. /\ Sends(F, t) /\ Applied(db, F)[c] = NewComment(u, t)
      /\ \A k \in Keys \ {c} : Applied(db, F)[k] = db[k]
      /\ \A x \in Threads : ~Adds(F, x)
  BY <1>1, <1>2, <1>4, OneInsert
<1>6. Applied(db, F)[c].thread = t /\ ~Applied(db, F)[c].deleted
  BY <1>5 DEF NewComment
<1>7. t \notin raced => ThreadGood(db, t)
  BY <1>2 DEF Requested, Good
<1>8. t \notin raced => Leads(F, t)
  BY <1>3, <1>5, <1>6, <1>7, CommentChange
<1>. QED BY <1>2, <1>3, <1>5, <1>8 DEF Served, Serve, Handled

LEMMA CommentDeleteHandled ==
    ASSUME Rows, Requested, NEW w \in Workers, NEW u \in Users, NEW c \in Comments,
           CommentDelete(w, u, c)
    PROVE  Served
<1>1. PICK row, t : row = db[c] /\ t = db[c].thread
  OBVIOUS
<1>2. /\ Exists(c) /\ row \in CommentRow /\ t \in Threads /\ Exists(t) /\ row.thread = t
      /\ ~db[t].locked
  <2>1. Exists(c) /\ ~db[t].locked
    BY <1>1 DEF CommentDelete
  <2>2. row \in CommentRow /\ Exists(t)
    BY <1>1, <2>1 DEF Rows, ForumTypeOK, References, Exists
  <2>. QED BY <1>1, <2>1, <2>2 DEF CommentRow
<1>3. /\ t \in Keys /\ c \in Keys /\ c \in ForumKeys
      /\ c \notin Threads \cup Solutions \cup Votes \cup Tickets \cup Notes
  BY <1>2, Tables DEF ForumKeys
<1>4. PICK new : new = [deleted |-> TRUE, byAdmin |-> IsAdmin(u) /\ ~(u = row.author),
                        deleter |-> u]
  OBVIOUS
<1>5. /\ DOMAIN new = {"deleted", "byAdmin", "deleter"} /\ new["deleted"] = TRUE
      /\ new["deleter"] = u /\ new["byAdmin"] = (IsAdmin(u) /\ ~(u = row.author))
  BY <1>4
<1>6. new["byAdmin"] \in BOOLEAN
  BY <1>5
<1>7. PICK F : F = Update(c, new, {})
  OBVIOUS
<1>8. ServeRemoval(w, t, F, {<<c, u>>})
  BY <1>1, <1>4, <1>7 DEF CommentDelete
<1>9. ASSUME NEW s \in F PROVE Lawful(s, t)
  <2>1. /\ s.kind = "update" /\ s.key = c /\ DOMAIN s.cols \subseteq DOMAIN new
        /\ \A k \in DOMAIN s.cols : s.cols[k] = new[k]
    BY <1>7, UpdateShape
  <2>2. CommentPatch(s.cols)
    BY <1>5, <1>6, <2>1 DEF CommentPatch
  <2>3. OnComment(s, t)
    BY <1>1, <1>2, <2>1, <2>2 DEF OnComment
  <2>. QED BY <1>3, <2>1, <2>3 DEF Lawful
<1>10. /\ Sends(F, t) /\ \A s \in F : s.key = c
       /\ \A k \in Keys \ {c} : Applied(db, F)[k] = db[k]
       /\ \A x \in Threads : ~Adds(F, x)
  BY <1>3, <1>7, <1>9, OneUpdate
<1>11. DOMAIN row = {"author", "thread", "deleted", "byAdmin", "deleter"}
  BY <1>2 DEF CommentRow
<1>12. PICK q : q = [k \in DOMAIN row |-> IF k \in DOMAIN new THEN new[k] ELSE row[k]]
  OBVIOUS
<1>13. Applied(db, F)[c] = q
  <2>1. row = [k \in DOMAIN row |-> row[k]]
    BY <1>2 DEF CommentRow
  <2>2. Apart(F) /\ DOMAIN new \subseteq DOMAIN row
    BY <1>5, <1>10, <1>11 DEF Sends
  <2>. QED BY <1>1, <1>3, <1>7, <1>10, <1>12, <2>1, <2>2, UpdateApplied
<1>14. /\ q["thread"] = row["thread"] /\ q["author"] = row["author"] /\ q["deleter"] = u
       /\ q["byAdmin"] = new["byAdmin"]
  BY <1>5, <1>11, <1>12
<1>15. q.thread = t /\ Honest(q)
  BY <1>2, <1>5, <1>14 DEF Honest
<1>16. t \notin raced => ThreadGood(db, t)
  BY <1>2, <1>3 DEF Requested, Good
<1>17. t \notin raced => Leads(F, t)
  BY <1>2, <1>10, <1>13, <1>15, <1>16, CommentChange
<1>. QED BY <1>3, <1>8, <1>10, <1>17 DEF Served, Handled

LEMMA SolutionChange ==
    ASSUME NEW t \in Threads, Exists(t), ~db[t].deleted, ThreadGood(db, t), NEW F,
           \A c \in Comments : Applied(db, F)[c] = db[c], ~Applied(db, F)[t].deleted,
           (\E c \in Comments : Applied(db, F)[<<t, c>>] # None) => Applied(db, F)[t].solved
    PROVE  Leads(F, t)
<1>1. t \notin Tickets
  BY Tables DEF ForumKeys
<1>2. ThreadGood(Applied(db, F), t)
  BY DEF ThreadGood
<1>3. Frozen(db, Applied(db, F), t)
  BY DEF Frozen
<1>. QED BY <1>1, <1>2, <1>3 DEF Leads, Good

LEMMA SolvedPatch ==
    ASSUME NEW new, DOMAIN new = {"solved"}, new["solved"] \in BOOLEAN,
           NEW row \in ThreadRow,
           NEW q, q = [c \in DOMAIN row |-> IF c \in DOMAIN new THEN new[c] ELSE row[c]]
    PROVE  /\ ThreadPatch(new) /\ DOMAIN new \subseteq DOMAIN row
           /\ row = [c \in DOMAIN row |-> row[c]]
           /\ q["solved"] = new["solved"] /\ q["deleted"] = row["deleted"]
<1>1. /\ DOMAIN row = {"author", "locked", "pinned", "solved", "deleted", "byAdmin", "deleter"}
      /\ row = [c \in DOMAIN row |-> row[c]]
  BY DEF ThreadRow
<1>2. ThreadPatch(new)
  BY DEF ThreadPatch
<1>3. q["solved"] = new["solved"] /\ q["deleted"] = row["deleted"]
  BY <1>1
<1>. QED BY <1>1, <1>2, <1>3

LEMMA MarkSolutionHandled ==
    ASSUME Rows, Requested, NEW w \in Workers, NEW u \in Users, NEW t \in Threads,
           NEW c \in Comments, MarkSolution(w, u, t, c)
    PROVE  Served
<1>1. PICK row, p : row = db[t] /\ p = <<t, c>>
  OBVIOUS
<1>2. /\ t \in Keys /\ t \in ForumKeys /\ p \in Solutions /\ p \in Keys /\ p \in ForumKeys
      /\ t \notin Comments \cup Solutions \cup Votes \cup Tickets \cup Notes
      /\ p \notin Threads \cup Comments \cup Votes \cup Tickets \cup Notes
      /\ p[1] = t /\ p[2] = c
  <2>1. p \in Solutions /\ p[1] = t /\ p[2] = c
    BY <1>1 DEF Solutions
  <2>. QED BY <2>1, Tables DEF ForumKeys
<1>3. /\ Exists(t) /\ Exists(c) /\ db[c].thread = t /\ u = row.author
      /\ ~row.deleted /\ Cardinality(Marked(t)) < MaxSolutions
  BY <1>1 DEF MarkSolution
<1>4. row \in ThreadRow
  BY <1>1, <1>3 DEF Rows, ForumTypeOK, Exists
<1>5. PICK new : new = [solved |-> TRUE]
  OBVIOUS
<1>6. PICK q : q = [k \in DOMAIN row |-> IF k \in DOMAIN new THEN new[k] ELSE row[k]]
  OBVIOUS
<1>7. /\ ThreadPatch(new) /\ DOMAIN new \subseteq DOMAIN row
      /\ row = [k \in DOMAIN row |-> row[k]]
      /\ q["solved"] = TRUE /\ q["deleted"] = row["deleted"]
  <2>1. DOMAIN new = {"solved"} /\ new["solved"] = TRUE
    BY <1>5
  <2>. QED BY <1>4, <1>6, <2>1, SolvedPatch, ZenonT(60)
<1>8. PICK I, U : /\ I = (IF c \in Marked(t) THEN {} ELSE Insert(p, [creator |-> u]))
                  /\ U = Update(t, new, {})
  OBVIOUS
<1>9. PICK F : F = I \cup U
  OBVIOUS
<1>10. Serve(w, t, F)
  BY <1>1, <1>5, <1>8, <1>9 DEF MarkSolution
<1>11. \A s \in I : /\ s.kind = "insert" /\ s.key = p /\ s.cols = [creator |-> row.author]
                    /\ \A r \in I : r = s
  BY <1>3, <1>8 DEF Insert
<1>12. \A s \in U : /\ s.kind = "update" /\ s.key = t /\ Lawful(s, t)
                    /\ \A r \in U : r = s
  BY <1>7, <1>8, UpdateShape, ThreadStatements
<1>13. \A s \in I : Lawful(s, t)
  BY <1>1, <1>2, <1>3, <1>11 DEF Lawful, OnSolution
<1>14. p # t
  BY <1>2
<1>15. Apart(F)
  <2>1. ASSUME NEW r \in F, NEW s \in F,
               r.key = s.key \/ (r.key \in Solutions /\ s.key \in Solutions)
        PROVE  r = s
    <3>1. (r \in I /\ s \in I) \/ (r \in U /\ s \in U)
      BY <1>2, <1>9, <1>11, <1>12, <1>14, <2>1
    <3>. QED BY <1>11, <1>12, <3>1
  <2>. QED BY <2>1 DEF Apart
<1>16. Sends(F, t)
  BY <1>9, <1>12, <1>13, <1>15 DEF Sends
<1>17. Applied(db, F)[t] = q
  <2>1. \A s : s \in U <=> s \in F /\ s.key = t
    BY <1>9, <1>11, <1>12, <1>14
  <2>. QED BY <1>1, <1>2, <1>6, <1>7, <1>8, <1>15, <2>1, UpdateApplied
<1>18. \A b \in Comments : Applied(db, F)[b] = db[b]
  <2>1. \A b \in Comments : b \in Keys /\ b # p /\ b # t
    BY <1>2, Tables
  <2>. QED BY <1>9, <1>11, <1>12, <2>1, Untouched
<1>19. ~Applied(db, F)[t].deleted /\ Applied(db, F)[t].solved
  BY <1>3, <1>7, <1>17
<1>20. t \notin raced => ThreadGood(db, t)
  BY <1>2 DEF Requested, Good
<1>21. t \notin raced => Leads(F, t)
  BY <1>1, <1>3, <1>18, <1>19, <1>20, SolutionChange
<1>22. \A x \in Threads : Adds(F, x) => x = t
  BY <1>2, <1>9, <1>11, <1>12 DEF Adds
<1>. QED BY <1>2, <1>3, <1>10, <1>16, <1>21, <1>22 DEF Served, Serve, Handled

LEMMA UnmarkSolutionHandled ==
    ASSUME Rows, Requested, NEW w \in Workers, NEW u \in Users, NEW t \in Threads,
           NEW c \in Comments, UnmarkSolution(w, u, t, c)
    PROVE  Served
<1>1. PICK row, p : row = db[t] /\ p = <<t, c>>
  OBVIOUS
<1>2. /\ t \in Keys /\ t \in ForumKeys /\ p \in Solutions /\ p \in Keys /\ p \in ForumKeys
      /\ t \notin Comments \cup Solutions \cup Votes \cup Tickets \cup Notes
      /\ p \notin Threads \cup Comments \cup Votes \cup Tickets \cup Notes
      /\ p[1] = t /\ p[2] = c
      /\ \A b \in Comments : <<t, b>> \in Keys \ {t} /\ b \in Keys \ {t, p}
  <2>1. p \in Solutions /\ p[1] = t /\ p[2] = c /\ \A b \in Comments : <<t, b>> \in Solutions
    BY <1>1 DEF Solutions
  <2>. QED BY <2>1, Tables DEF ForumKeys
<1>3. Exists(t) /\ ~row.deleted
  BY <1>1 DEF UnmarkSolution
<1>4. row \in ThreadRow
  BY <1>1, <1>3 DEF Rows, ForumTypeOK, Exists
<1>5. t \notin raced => ThreadGood(db, t)
  BY <1>2 DEF Requested, Good
<1>6. CASE Marked(t) = {}
  <2>1. PICK new : new = [solved |-> FALSE]
    OBVIOUS
  <2>2. PICK q : q = [k \in DOMAIN row |-> IF k \in DOMAIN new THEN new[k] ELSE row[k]]
    OBVIOUS
  <2>3. /\ ThreadPatch(new) /\ DOMAIN new \subseteq DOMAIN row
        /\ row = [k \in DOMAIN row |-> row[k]] /\ q["deleted"] = row["deleted"]
    <3>1. DOMAIN new = {"solved"} /\ new["solved"] = FALSE
      BY <2>1
    <3>. QED BY <1>4, <2>2, <3>1, SolvedPatch, ZenonT(60)
  <2>4. PICK F : F = Update(t, new, {})
    OBVIOUS
  <2>5. Serve(w, t, F)
    BY <1>6, <2>1, <2>4 DEF UnmarkSolution
  <2>6. \A s \in F : Lawful(s, t)
    BY <2>3, <2>4, ThreadStatements
  <2>7. /\ Sends(F, t) /\ \A s \in F : s.key = t
        /\ \A k \in Keys \ {t} : Applied(db, F)[k] = db[k]
        /\ \A x \in Threads : ~Adds(F, x)
    BY <1>2, <2>4, <2>6, OneUpdate
  <2>8. Applied(db, F)[t] = q
    <3>1. Apart(F)
      BY <2>7 DEF Sends
    <3>. QED BY <1>1, <1>2, <2>2, <2>3, <2>4, <2>7, <3>1, UpdateApplied
  <2>9. ~Applied(db, F)[t].deleted
    BY <1>3, <2>3, <2>8
  <2>10. \A b \in Comments : Applied(db, F)[b] = db[b] /\ Applied(db, F)[<<t, b>>] = None
    BY <1>2, <1>6, <2>7 DEF Marked, Exists
  <2>11. t \notin raced => Leads(F, t)
    BY <1>1, <1>3, <1>5, <2>9, <2>10, SolutionChange
  <2>. QED BY <1>2, <2>5, <2>7, <2>11 DEF Served, Serve, Handled
<1>7. CASE Marked(t) # {}
  <2>1. PICK F : F = (IF c \in Marked(t) THEN Delete(p) ELSE {})
    OBVIOUS
  <2>2. Serve(w, t, F)
    <3>1. (IF c \in Marked(t) THEN Delete(<<t, c>>) ELSE {}) \cup {} = F
      BY <1>1, <2>1
    <3>. QED BY <1>7, <3>1 DEF UnmarkSolution
  <2>3. \A s \in F : /\ s.kind = "delete" /\ s.key = p
                     /\ \A r \in F : r = s
    BY <2>1 DEF Delete
  <2>4. \A s \in F : Lawful(s, t)
    BY <1>2, <2>3 DEF Lawful, OnSolution
  <2>5. Apart(F)
    BY <2>3 DEF Apart
  <2>6. Sends(F, t) /\ \A x \in Threads : ~Adds(F, x)
    BY <2>3, <2>4, <2>5 DEF Sends, Adds
  <2>7. \A k \in Keys \ {p} : Applied(db, F)[k] = db[k]
    BY <2>3, Untouched
  <2>8. Applied(db, F)[t] = row /\ \A b \in Comments : Applied(db, F)[b] = db[b]
    BY <1>1, <1>2, <2>7
  <2>9. \A b \in Comments : Applied(db, F)[<<t, b>>] # None => db[<<t, b>>] # None
    <3>1. ASSUME NEW s \in F PROVE Applied(db, F)[p] = None
      <4>1. s.key = p /\ Result(db[s.key], s) = None
        BY <2>3 DEF Result
      <4>2. Applied(db, F)[s.key] = Result(db[s.key], s)
        BY <1>2, <2>5, <4>1, Touched
      <4>. QED BY <4>1, <4>2
    <3>2. F = {} => Applied(db, F)[p] = db[p]
      BY <1>2, Untouched
    <3>. QED BY <1>2, <2>7, <3>1, <3>2
  <2>10. t \notin raced => Leads(F, t)
    <3>1. t \notin raced /\ (\E b \in Comments : Applied(db, F)[<<t, b>>] # None)
            => Applied(db, F)[t].solved
      BY <1>1, <1>3, <1>5, <2>8, <2>9 DEF ThreadGood, Exists
    <3>. QED BY <1>1, <1>3, <1>5, <2>8, <3>1, SolutionChange
  <2>. QED BY <1>2, <2>2, <2>6, <2>10 DEF Served, Serve, Handled
<1>. QED BY <1>6, <1>7

LEMMA VoteHandled ==
    ASSUME Rows, NEW w \in Workers, NEW u \in Voters, NEW i \in Threads \cup Comments,
           NEW v \in {-1, 0, 1}, Vote(w, u, i, v)
    PROVE  Served
<1>1. PICK k : k = <<i, u>>
  OBVIOUS
<1>2. /\ k \in Votes /\ k \in Keys /\ k \in ForumKeys
      /\ k \notin Threads \cup Comments \cup Solutions \cup Tickets \cup Notes
  <2>1. k \in Votes
    BY <1>1 DEF Votes
  <2>. QED BY <2>1, Tables DEF ForumKeys
<1>3. PICK new : new = [value |-> v]
  OBVIOUS
<1>4. \A F : Leads(F, k)
  BY <1>2 DEF Leads, Good
<1>5. CASE v = 0
  <2>1. PICK F : F = (IF Exists(k) THEN Delete(k) ELSE {})
    OBVIOUS
  <2>2. Serve(w, k, F)
    BY <1>1, <1>5, <2>1 DEF Vote
  <2>3. \A s \in F : s.kind = "delete" /\ s.key = k /\ \A r \in F : r = s
    BY <2>1 DEF Delete
  <2>4. Apart(F) /\ \A s \in F : Lawful(s, k)
    BY <1>2, <2>3 DEF Apart, Lawful, OnVote
  <2>5. \A x \in Threads : ~Adds(F, x)
    BY <2>3 DEF Adds
  <2>. QED BY <1>2, <1>4, <2>2, <2>4, <2>5 DEF Served, Serve, Handled, Sends
<1>6. CASE v # 0 /\ Exists(k)
  <2>1. PICK F : F = Update(k, new, {})
    OBVIOUS
  <2>2. Serve(w, k, F)
    BY <1>1, <1>3, <1>6, <2>1 DEF Vote
  <2>3. DOMAIN new = {"value"} /\ new["value"] \in {-1, 1}
    BY <1>3, <1>6
  <2>4. ASSUME NEW s \in F PROVE Lawful(s, k)
    <3>1. /\ s.kind = "update" /\ s.key = k /\ DOMAIN s.cols \subseteq DOMAIN new
          /\ \A c \in DOMAIN s.cols : s.cols[c] = new[c]
      BY <2>1, UpdateShape
    <3>2. VotePatch(s.cols)
      BY <2>3, <3>1 DEF VotePatch
    <3>. QED BY <1>2, <3>1, <3>2 DEF Lawful, OnVote
  <2>5. Sends(F, k) /\ \A x \in Threads : ~Adds(F, x)
    BY <1>2, <2>1, <2>4, OneUpdate
  <2>. QED BY <1>2, <1>4, <2>2, <2>5 DEF Served, Serve, Handled
<1>7. CASE v # 0 /\ ~Exists(k)
  <2>1. PICK F : F = Insert(k, new)
    OBVIOUS
  <2>2. Serve(w, k, F)
    BY <1>1, <1>3, <1>7, <2>1 DEF Vote
  <2>3. new \in VoteRow
    BY <1>3, <1>7 DEF VoteRow
  <2>4. \A s \in F : Lawful(s, k)
    BY <1>2, <2>1, <2>3 DEF Insert, Lawful, OnVote
  <2>5. Sends(F, k) /\ \A x \in Threads : ~Adds(F, x)
    BY <1>2, <2>1, <2>4, OneInsert
  <2>. QED BY <1>2, <1>4, <2>2, <2>5 DEF Served, Serve, Handled
<1>. QED BY <1>5, <1>6, <1>7

-----------------------------------------------------------------------------
(* What the handlers of the help desk send. *)

LEMMA TicketKey ==
    ASSUME NEW k \in Tickets
    PROVE  /\ k \in Keys /\ k \in ForumKeys \cup TicketKeys
           /\ k \notin Threads \cup Comments \cup Solutions \cup Votes \cup Notes
  BY Tables DEF ForumKeys, TicketKeys

LEMMA TicketNewHandled ==
    ASSUME NEW w \in Workers, NEW u \in Users, NEW k \in Tickets, TicketNew(w, u, k)
    PROVE  Served
<1>1. PICK F : F = Insert(k, Opened(u))
  OBVIOUS
<1>2. Serve(w, k, F)
  BY <1>1 DEF TicketNew
<1>3. \A s \in F : Lawful(s, k)
  BY <1>1, TicketKey DEF Insert, Lawful, OnTicket
<1>4. Sends(F, k) /\ Applied(db, F)[k] = Opened(u) /\ \A x \in Threads : ~Adds(F, x)
  BY <1>1, <1>3, TicketKey, OneInsert
<1>5. Leads(F, k)
  BY <1>4, TicketKey DEF Leads, Good, TicketGood, Opened, Closed
<1>. QED BY <1>2, <1>4, <1>5, TicketKey DEF Served, Serve, Handled

LEMMA TicketCommentHandled ==
    ASSUME Requested, NEW w \in Workers, NEW u \in Users, NEW k \in Tickets, NEW n \in Notes,
           NEW internal \in BOOLEAN, TicketComment(w, u, k, n, internal)
    PROVE  Served
<1>1. PICK row : row = [ticket |-> k, author |-> u, internal |-> internal /\ IsAdmin(u)]
  OBVIOUS
<1>2. PICK F : F = Insert(n, row)
  OBVIOUS
<1>3. Serve(w, k, F) /\ Exists(k) /\ MaySee(u, k)
  BY <1>1, <1>2 DEF TicketComment
<1>4. /\ n \in Keys /\ n \in ForumKeys \cup TicketKeys
      /\ n \notin Threads \cup Comments \cup Solutions \cup Votes \cup Tickets
  BY Tables DEF ForumKeys, TicketKeys
<1>5. /\ row \in NoteRow /\ row.ticket = k /\ row.author = u
      /\ row.internal => IsAdmin(row.author)
  BY <1>1 DEF NoteRow
<1>6. \A s \in F : Lawful(s, k)
  BY <1>2, <1>3, <1>4, <1>5 DEF Insert, Lawful, OnNote
<1>7. /\ Sends(F, k) /\ \A x \in Threads : ~Adds(F, x)
      /\ \A j \in Keys \ {n} : Applied(db, F)[j] = db[j]
  BY <1>2, <1>4, <1>6, OneInsert
<1>8. Applied(db, F)[k] = db[k]
  BY <1>4, <1>7, TicketKey
<1>9. k \notin raced => Leads(F, k)
  BY <1>8, TicketKey DEF Requested, Leads, Good, TicketGood
<1>. QED BY <1>3, <1>7, <1>9, TicketKey DEF Served, Serve, Handled

LEMMA TicketStatements ==
    ASSUME NEW k \in Tickets, NEW new, TicketPatch(new), NEW stamped,
           NEW s \in Update(k, new, stamped)
    PROVE  Lawful(s, k)
<1>1. /\ s.kind = "update" /\ s.key = k /\ DOMAIN s.cols \subseteq DOMAIN new
      /\ \A c \in DOMAIN s.cols : s.cols[c] = new[c]
  BY UpdateShape
<1>2. TicketPatch(s.cols)
  BY <1>1 DEF TicketPatch
<1>. QED BY <1>1, <1>2, TicketKey DEF Lawful, OnTicket

\* The attributes of a ticket are set, and nothing else.
LEMMA TicketChange ==
    ASSUME Rows, Requested, NEW k \in Tickets, Exists(k), NEW new, TicketPatch(new),
           NEW stamped, NEW F, F = Update(k, new, stamped), NEW row, row = db[k],
           NEW q, q = [c \in DOMAIN row |-> IF c \in DOMAIN new THEN new[c] ELSE row[c]],
           (row.closedAt <=> row.status \in Closed) => (q.closedAt <=> q.status \in Closed)
    PROVE  Handled(F, k)
<1>1. \A s \in F : Lawful(s, k)
  BY TicketStatements
<1>2. /\ Sends(F, k) /\ \A s \in F : s.key = k
      /\ \A x \in Threads : ~Adds(F, x)
  BY <1>1, TicketKey, OneUpdate
<1>3. row \in TicketRow
  BY DEF Rows, TicketsTypeOK, Exists
<1>4. row = [c \in DOMAIN row |-> row[c]] /\ DOMAIN new \subseteq DOMAIN row
  BY <1>3 DEF TicketRow, TicketPatch
<1>5. Applied(db, F)[k] = q
  <2>1. Apart(F)
    BY <1>2 DEF Sends
  <2>. QED BY <1>2, <1>4, <2>1, TicketKey, UpdateApplied
<1>6. k \notin raced => TicketGood(db, k)
  BY TicketKey DEF Requested, Good
<1>7. k \notin raced => TicketGood(Applied(db, F), k)
  BY <1>5, <1>6 DEF TicketGood, Exists
<1>8. k \notin raced => Leads(F, k)
  BY <1>7, TicketKey DEF Leads, Good
<1>. QED BY <1>2, <1>8, TicketKey DEF Handled

LEMMA TicketHandled ==
    ASSUME Rows, Requested, NEW w \in Workers, NEW u \in Users, NEW k \in Tickets,
           \/ \E a \in Users \cup {None} : TicketAssign(w, u, k, a)
           \/ \E p \in Priorities : TicketPriority(w, u, k, p)
           \/ \E s \in Statuses : TicketStatus(w, u, k, s)
    PROVE  Served
<1>1. PICK row : row = db[k]
  OBVIOUS
<1>2. Exists(k) /\ row \in TicketRow
  BY <1>1 DEF TicketAssign, TicketPriority, TicketStatus, Rows, TicketsTypeOK, Exists
<1>3. DOMAIN row = {"requester", "assignee", "status", "priority", "closedAt"}
  BY <1>2 DEF TicketRow
<1>4. ASSUME NEW a \in Users \cup {None}, TicketAssign(w, u, k, a) PROVE Served
  <2>1. PICK new : new = [assignee |-> a]
    OBVIOUS
  <2>2. DOMAIN new = {"assignee"} /\ new["assignee"] = a
    BY <2>1
  <2>3. PICK q : q = [c \in DOMAIN row |-> IF c \in DOMAIN new THEN new[c] ELSE row[c]]
    OBVIOUS
  <2>4. TicketPatch(new)
    BY <2>2 DEF TicketPatch
  <2>5. q["closedAt"] = row["closedAt"] /\ q["status"] = row["status"]
    BY <1>3, <2>2, <2>3
  <2>6. PICK F : F = Update(k, new, {})
    OBVIOUS
  <2>7. Handled(F, k)
    BY <1>1, <1>2, <2>3, <2>4, <2>5, <2>6, TicketChange
  <2>8. Serve(w, k, F)
    BY <1>4, <2>1, <2>6 DEF TicketAssign
  <2>. QED BY <2>7, <2>8, TicketKey DEF Served, Serve
<1>5. ASSUME NEW p \in Priorities, TicketPriority(w, u, k, p) PROVE Served
  <2>1. PICK new : new = [priority |-> p]
    OBVIOUS
  <2>2. DOMAIN new = {"priority"} /\ new["priority"] = p
    BY <2>1
  <2>3. PICK q : q = [c \in DOMAIN row |-> IF c \in DOMAIN new THEN new[c] ELSE row[c]]
    OBVIOUS
  <2>4. TicketPatch(new)
    BY <2>2 DEF TicketPatch
  <2>5. q["closedAt"] = row["closedAt"] /\ q["status"] = row["status"]
    BY <1>3, <2>2, <2>3
  <2>6. PICK F : F = Update(k, new, {})
    OBVIOUS
  <2>7. Handled(F, k)
    BY <1>1, <1>2, <2>3, <2>4, <2>5, <2>6, TicketChange
  <2>8. Serve(w, k, F)
    BY <1>5, <2>1, <2>6 DEF TicketPriority
  <2>. QED BY <2>7, <2>8, TicketKey DEF Served, Serve
<1>6. ASSUME NEW s \in Statuses, TicketStatus(w, u, k, s) PROVE Served
  <2>1. PICK new, stamped : /\ new = [status |-> s, closedAt |-> (s \in Closed)]
                            /\ stamped = (IF s \in Closed THEN {"closedAt"} ELSE {})
    OBVIOUS
  <2>2. /\ DOMAIN new = {"status", "closedAt"} /\ new["status"] = s
        /\ new["closedAt"] = (s \in Closed)
    BY <2>1
  <2>3. PICK q : q = [c \in DOMAIN row |-> IF c \in DOMAIN new THEN new[c] ELSE row[c]]
    OBVIOUS
  <2>4. new["closedAt"] \in BOOLEAN
    BY <2>2
  <2>5. TicketPatch(new)
    BY <2>2, <2>4 DEF TicketPatch
  <2>6. q["closedAt"] = (s \in Closed) /\ q["status"] = s
    BY <1>3, <2>2, <2>3
  <2>7. q.closedAt <=> q.status \in Closed
    BY <2>6
  <2>8. PICK F : F = Update(k, new, stamped)
    OBVIOUS
  <2>9. Handled(F, k)
    BY <1>1, <1>2, <2>3, <2>5, <2>7, <2>8, TicketChange
  <2>10. Serve(w, k, F)
    <3>1. CASE s \in Closed
      <4>1. new = [status |-> s, closedAt |-> TRUE] /\ stamped = {"closedAt"}
        BY <2>1, <3>1
      <4>. QED BY <1>6, <2>8, <3>1, <4>1 DEF TicketStatus
    <3>2. CASE s \notin Closed
      <4>1. stamped = {}
        BY <2>1, <3>2
      <4>2. (s \in Closed) = FALSE
        BY <3>2
      <4>3. new = [status |-> s, closedAt |-> FALSE]
        BY <2>1, <4>2
      <4>. QED BY <1>6, <2>8, <3>2, <4>1, <4>3 DEF TicketStatus
    <3>. QED BY <3>1, <3>2
  <2>. QED BY <2>9, <2>10, TicketKey DEF Served, Serve
<1>. QED BY <1>4, <1>5, <1>6

LEMMA HandlersServe ==
    ASSUME Rows, Requested, ForumNext \/ TicketsNext
    PROVE  Served
<1>1. CASE ForumNext
  <2>1. PICK w \in Workers :
           \/ \E u \in Users, t \in Threads :
                 \/ ThreadNew(w, u, t)
                 \/ ThreadLock(w, u, t) \/ ThreadUnlock(w, u, t)
                 \/ ThreadPin(w, u, t) \/ ThreadUnpin(w, u, t)
                 \/ ThreadDelete(w, u, t)
                 \/ \E c \in Comments : \/ CommentCreate(w, u, t, c)
                                        \/ MarkSolution(w, u, t, c)
                                        \/ UnmarkSolution(w, u, t, c)
           \/ \E u \in Users, c \in Comments : CommentDelete(w, u, c)
           \/ \E u \in Voters, i \in Threads \cup Comments, v \in {-1, 0, 1} : Vote(w, u, i, v)
    BY <1>1 DEF ForumNext
  <2>. QED BY <2>1, ThreadNewHandled, FlagsHandled, ThreadDeleteHandled, CommentCreateHandled,
              CommentDeleteHandled, MarkSolutionHandled, UnmarkSolutionHandled, VoteHandled
<1>2. CASE TicketsNext
  BY <1>2, TicketNewHandled, TicketCommentHandled, TicketHandled DEF TicketsNext
<1>. QED BY <1>1, <1>2

-----------------------------------------------------------------------------
(* Requests about something else. *)

Elsewhere(d, c, x) == d[c] # None => d[c].thread # x

\* The rows that belong to x are the same in d and in d1.
Same(d, d1, x) ==
    /\ x \in Threads \cup Tickets => d1[x] = d[x]
    /\ x \in Threads =>
         \A c \in Comments :
            /\ d1[<<x, c>>] = d[<<x, c>>]
            /\ d1[c] = d[c] \/ (Elsewhere(d, c, x) /\ Elsewhere(d1, c, x))
            /\ d[c] # None => d1[c] # None

LEMMA SameElsewhere ==
    ASSUME Rows, NEW F, NEW x, Sends(F, x), \A s \in F : Fits(s), NEW y, y # x
    PROVE  Same(db, Applied(db, F), y)
<1> DEFINE e == Applied(db, F)
<1>1. ASSUME y \in Threads, NEW c \in Comments
      PROVE  /\ e[<<y, c>>] = db[<<y, c>>]
             /\ e[c] = db[c] \/ (Elsewhere(db, c, y) /\ Elsewhere(e, c, y))
             /\ db[c] # None => e[c] # None
  <2>1. PICK p : p = <<y, c>>
    OBVIOUS
  <2>2. e[p] = db[p]
    <3>1. p \in Solutions /\ p[1] = y
      BY <1>1, <2>1 DEF Solutions
    <3>2. \A s \in F : s.key # p
      BY <3>1 DEF Sends, Lawful, OnSolution
    <3>3. p \in Keys
      BY <3>1, Tables
    <3>. QED BY <3>2, <3>3, Untouched
  <2>3. Exists(c) => e[c] \in CommentRow /\ e[c].thread = db[c].thread
    BY CommentCommitted
  <2>4. e[c] # db[c] => e[c].thread = x
    BY CommentCommitted
  <2>. QED BY <2>1, <2>2, <2>3, <2>4, NoneIsNoRow DEF Elsewhere, Exists
<1>2. y \in Threads \cup Tickets => e[y] = db[y]
  BY ThreadCommitted, TicketCommitted
<1>. QED BY <1>1, <1>2 DEF Same

LEMMA RowApplied ==
    ASSUME NEW d, NEW d1, NEW F, Apart(F), NEW k \in Keys, d1[k] = d[k]
    PROVE  Applied(d1, F)[k] = Applied(d, F)[k]
<1>1. CASE \A s \in F : s.key # k
  BY <1>1, Untouched
<1>2. ASSUME NEW s \in F, s.key = k
      PROVE  Applied(d1, F)[k] = Applied(d, F)[k]
  <2>1. Applied(d1, F)[s.key] = Result(d1[s.key], s)
    BY <1>2, Touched
  <2>2. Applied(d, F)[s.key] = Result(d[s.key], s)
    BY <1>2, Touched
  <2>. QED BY <1>2, <2>1, <2>2
<1>. QED BY <1>1, <1>2

LEMMA AppliedSame ==
    ASSUME NEW F, NEW x, Sends(F, x), NEW d1, Same(db, d1, x)
    PROVE  Same(Applied(db, F), Applied(d1, F), x)
<1>1. Apart(F)
  BY DEF Sends
<1>2. x \in Threads \cup Tickets => Applied(d1, F)[x] = Applied(db, F)[x]
  BY <1>1, RowApplied, Tables DEF Same
<1>3. ASSUME x \in Threads, NEW c \in Comments
      PROVE  Applied(d1, F)[<<x, c>>] = Applied(db, F)[<<x, c>>]
  <2>1. <<x, c>> \in Keys
    BY <1>3, Tables DEF Solutions
  <2>2. d1[<<x, c>>] = db[<<x, c>>]
    BY <1>3 DEF Same
  <2>. QED BY <1>1, <2>1, <2>2, RowApplied
<1>4. ASSUME x \in Threads, NEW c \in Comments
      PROVE  LET e == Applied(db, F)
                 e1 == Applied(d1, F)
             IN /\ e1[c] = e[c] \/ (Elsewhere(e, c, x) /\ Elsewhere(e1, c, x))
                /\ e[c] # None => e1[c] # None
  <2>1. c \in Keys
    BY Tables
  <2>2. CASE d1[c] = db[c]
    BY <1>1, <2>1, <2>2, RowApplied
  <2>3. CASE d1[c] # db[c]
    <3>1. /\ Elsewhere(db, c, x) /\ Elsewhere(d1, c, x) /\ (db[c] # None => d1[c] # None)
      BY <1>4, <2>3 DEF Same
    <3>2. CASE \A s \in F : s.key # c
      <4>1. Applied(db, F)[c] = db[c] /\ Applied(d1, F)[c] = d1[c]
        BY <2>1, <3>2, Untouched
      <4>. QED BY <3>1, <4>1 DEF Elsewhere
    <3>3. ASSUME NEW s \in F, s.key = c
          PROVE  Applied(d1, F)[c] = Applied(db, F)[c]
      <4>1. OnComment(s, x)
        BY <3>3 DEF Sends, Lawful
      <4>2. s.kind = "insert"
        BY <3>1, <3>3, <4>1 DEF OnComment, Elsewhere, Exists
      <4>3. /\ Applied(d1, F)[s.key] = Result(d1[s.key], s)
            /\ Applied(db, F)[s.key] = Result(db[s.key], s)
        BY <1>1, <2>1, <3>3, Touched
      <4>4. Result(d1[s.key], s) = s.cols /\ Result(db[s.key], s) = s.cols
        BY <4>2 DEF Result
      <4>. QED BY <3>3, <4>3, <4>4
    <3>. QED BY <3>2, <3>3
  <2>. QED BY <2>2, <2>3
<1>. QED BY <1>2, <1>3, <1>4 DEF Same

LEMMA GoodSame ==
    ASSUME NEW d, NEW d1, NEW x, Same(d, d1, x), Good(d, x)
    PROVE  Good(d1, x)
<1>1. x \in Tickets => TicketGood(d1, x)
  BY DEF Same, Good, TicketGood
<1>2. ASSUME x \in Threads PROVE ThreadGood(d1, x)
  <2>1. d1[x] = d[x] /\ \A c \in Comments : d1[<<x, c>>] = d[<<x, c>>]
    BY <1>2 DEF Same
  <2>2. ASSUME NEW c \in Comments, d1[c] # None, d1[c].thread = x PROVE d1[c] = d[c]
    BY <1>2, <2>2 DEF Same, Elsewhere
  <2>. QED BY <1>2, <2>1, <2>2 DEF Good, ThreadGood
<1>. QED BY <1>1, <1>2 DEF Good

LEMMA FrozenSame ==
    ASSUME NEW d, NEW d1, NEW e, NEW e1, NEW x \in Threads,
           Same(d, d1, x), Same(e, e1, x), Frozen(d, e, x)
    PROVE  Frozen(d1, e1, x)
<1>1. SUFFICES ASSUME d1[x] # None, d1[x].deleted
               PROVE  /\ e1[x].locked /\ ~e1[x].pinned /\ e1[x].solved = d1[x].solved
                      /\ \A c \in Comments : e1[<<x, c>>] = d1[<<x, c>>]
                      /\ \A c \in Comments : d1[c] # None /\ d1[c].thread = x => e1[c] = d1[c]
                      /\ \A c \in Comments : e1[c] # None /\ e1[c].thread = x => d1[c] # None
  BY DEF Frozen
<1>2. d1[x] = d[x] /\ e1[x] = e[x]
  BY DEF Same
<1>3. \A c \in Comments : d1[<<x, c>>] = d[<<x, c>>] /\ e1[<<x, c>>] = e[<<x, c>>]
  BY DEF Same
<1>4. /\ e[x].locked /\ ~e[x].pinned /\ e[x].solved = d[x].solved
      /\ \A c \in Comments : e[<<x, c>>] = d[<<x, c>>]
  BY <1>1, <1>2 DEF Frozen
<1>5. ASSUME NEW c \in Comments, d1[c] # None, d1[c].thread = x PROVE e1[c] = d1[c]
  <2>1. d1[c] = d[c]
    BY <1>5 DEF Same, Elsewhere
  <2>2. e[c] = d[c]
    BY <1>1, <1>2, <1>5, <2>1 DEF Frozen
  <2>. QED BY <1>5, <2>1, <2>2 DEF Same, Elsewhere
<1>6. ASSUME NEW c \in Comments, e1[c] # None, e1[c].thread = x PROVE d1[c] # None
  <2>1. e1[c] = e[c]
    BY <1>6 DEF Same, Elsewhere
  <2>2. d[c] # None
    BY <1>1, <1>2, <1>6, <2>1 DEF Frozen
  <2>. QED BY <2>2 DEF Same
<1>. QED BY <1>2, <1>3, <1>4, <1>5, <1>6

LEMMA LeadsSame ==
    ASSUME NEW F, NEW x, Sends(F, x), Leads(F, x), Same(db, db', x)
    PROVE  Leads(F, x)'
<1>1. Same(Applied(db, F), Applied(db', F), x)
  BY AppliedSame
<1>2. Good(Applied(db', F), x)
  BY <1>1, GoodSame DEF Leads
<1>3. x \in Threads => Frozen(db', Applied(db', F), x)
  BY <1>1, FrozenSame DEF Leads
<1>. QED BY <1>2, <1>3 DEF Leads

LEMMA LawfulKept ==
    ASSUME Kept, NEW F, NEW x, Sends(F, x)
    PROVE  Sends(F, x)'
<1>1. ASSUME NEW s \in F PROVE Lawful(s, x)'
  <2>1. Lawful(s, x)
    BY DEF Sends
  <2>2. s.key \in Comments => OnComment(s, x)'
    BY <2>1 DEF Lawful, OnComment, Kept, Exists
  <2>3. s.key \in Solutions => OnSolution(s, x)'
    <3>1. s.key \in Solutions => s.key[1] \in Threads /\ s.key[2] \in Comments
      BY DEF Solutions
    <3>. QED BY <2>1, <3>1 DEF Lawful, OnSolution, Kept, Exists
  <2>4. s.key \in Notes => OnNote(s, x)'
    BY <2>1 DEF Lawful, OnNote, Kept, Exists, MaySee
  <2>5. /\ s.key \in Threads => OnThread(s, x)'
        /\ s.key \in Votes => OnVote(s, x)'
        /\ s.key \in Tickets => OnTicket(s, x)'
    BY <2>1 DEF Lawful, OnThread, OnVote, OnTicket
  <2>. QED BY <2>1, <2>2, <2>3, <2>4, <2>5 DEF Lawful
<1>. QED BY <1>1 DEF Sends

-----------------------------------------------------------------------------
(* The steps of requests. *)

\* A request that stays open stays well formed and settled when the rows its
\* subject consists of stay as they are.
LEMMA StaysOpen ==
    ASSUME Requested, NEW v \in Workers, open[v] # Idle, open'[v] = open[v], Kept,
           raced \subseteq raced',
           open[v].subject \notin raced' => Same(db, db', open[v].subject)
    PROVE  WellFormed(v)' /\ Settled(v)'
<1>1. PICK F, x : F = open[v].flush /\ x = open[v].subject
  OBVIOUS
<1>2. /\ x \in Keys /\ Sends(F, x)
      /\ x \notin raced => Leads(F, x)
  BY <1>1 DEF Requested, WellFormed, Settled
<1>3. F = open'[v].flush /\ x = open'[v].subject
  BY <1>1
<1>4. Sends(F, x)'
  BY <1>2, LawfulKept
<1>5. ASSUME x \notin raced' PROVE Leads(F, x)'
  <2>1. Leads(F, x) /\ Same(db, db', x)
    BY <1>1, <1>2, <1>5
  <2>. QED BY <1>2, <2>1, LeadsSame
<1>6. WellFormed(v)'
  BY <1>2, <1>3, <1>4 DEF WellFormed
<1>7. Settled(v)'
  BY <1>3, <1>5 DEF Settled
<1>. QED BY <1>6, <1>7

\* A handler that comes to its end joins the open requests.
LEMMA ServeKeepsRequests ==
    ASSUME Requested, NEW w \in Workers, NEW x \in Keys, NEW F, NEW D,
           ServeRemoval(w, x, F, D), Handled(F, x)
    PROVE  Requested'
<1>1. /\ DOMAIN open = Workers /\ open[w] = Idle /\ db' = db
      /\ open' = [open EXCEPT ![w] = [subject |-> x, flush |-> F, removes |-> D]]
      /\ raced \subseteq raced'
      /\ (\E v \in Workers : open[v].subject = x) => x \in raced'
  BY DEF Requested, ServeRemoval
<1>2. /\ DOMAIN open' = Workers /\ open'[w].subject = x /\ open'[w].flush = F
      /\ \A v \in Workers \ {w} : open'[v] = open[v]
  BY <1>1
<1>3. Kept /\ \A y : Same(db, db', y)
  BY <1>1 DEF Kept, Exists, Same, Elsewhere
<1>4. WellFormed(w)'
  <2>1. Sends(F, x)'
    BY <1>3, LawfulKept DEF Handled
  <2>. QED BY <1>2, <2>1 DEF WellFormed
<1>5. Settled(w)'
  <2>1. ASSUME x \notin raced' PROVE Leads(F, x)'
    BY <1>1, <1>3, <2>1, LeadsSame DEF Handled
  <2>. QED BY <1>2, <2>1 DEF Settled
<1>6. ASSUME NEW v \in Workers \ {w}, open[v] # Idle
      PROVE  WellFormed(v)' /\ Settled(v)'
  BY <1>1, <1>2, <1>3, <1>6, StaysOpen
<1>7. \A v \in Workers : open'[v] # Idle => WellFormed(v)' /\ Settled(v)'
  BY <1>2, <1>4, <1>5, <1>6
<1>8. Overlaps'
  <2>1. ASSUME NEW u \in Workers, NEW v \in Workers, u # v, open'[u] # Idle,
               open'[u].subject = open'[v].subject
        PROVE  open'[u].subject \in raced'
    <3>1. CASE u = w \/ v = w
      BY <1>1, <1>2, <2>1, <3>1
    <3>2. CASE u # w /\ v # w
      BY <1>1, <1>2, <2>1, <3>2 DEF Requested, Overlaps
    <3>. QED BY <3>1, <3>2
  <2>. QED BY <2>1 DEF Overlaps
<1>9. \A y \in Keys \ raced' : Good(db', y)
  BY <1>1 DEF Requested
<1>. QED BY <1>2, <1>7, <1>8, <1>9 DEF Requested

\* A request that ends leaves the others as they are.
LEMMA CommitKeepsRequests ==
    ASSUME Rows, Requested, NEW w \in Workers, Commit(w)
    PROVE  Requested'
<1>1. PICK F, x : F = open[w].flush /\ x = open[w].subject
  OBVIOUS
<1>2. /\ DOMAIN open = Workers /\ open[w] # Idle /\ \A s \in F : Fits(s)
      /\ db' = Applied(db, F) /\ open' = [open EXCEPT ![w] = Idle] /\ raced' = raced
  BY <1>1 DEF Requested, Commit
<1>3. Sends(F, x) /\ (x \notin raced => Leads(F, x))
  BY <1>1, <1>2 DEF Requested, WellFormed, Settled
<1>4. /\ DOMAIN open' = Workers /\ open'[w] = Idle
      /\ \A v \in Workers \ {w} : open'[v] = open[v]
  BY <1>2
<1>5. Kept
  BY <1>2, <1>3, CommitKeeps
<1>6. ASSUME NEW y, y # x PROVE Same(db, db', y)
  BY <1>2, <1>3, <1>6, SameElsewhere
<1>7. ASSUME NEW v \in Workers \ {w}, open[v] # Idle
      PROVE  WellFormed(v)' /\ Settled(v)'
  <2>1. open[v].subject \notin raced' => open[v].subject # x
    BY <1>1, <1>2, <1>7 DEF Requested, Overlaps
  <2>2. open[v].subject \notin raced' => Same(db, db', open[v].subject)
    BY <1>6, <2>1
  <2>. QED BY <1>2, <1>4, <1>5, <1>7, <2>2, StaysOpen
<1>8. \A v \in Workers : open'[v] # Idle => WellFormed(v)' /\ Settled(v)'
  BY <1>4, <1>7
<1>9. Overlaps'
  <2>1. ASSUME NEW u \in Workers, NEW v \in Workers, u # v, open'[u] # Idle,
               open'[u].subject = open'[v].subject
        PROVE  open'[u].subject \in raced'
    <3>1. u # w /\ open'[u] = open[u] /\ open[u] # Idle
      BY <1>4, <2>1
    <3>2. v # w
      <4>1. open[u].subject \in Keys
        BY <3>1 DEF Requested, WellFormed
      <4>2. open'[w].subject \notin Keys
        BY <1>4, RequestAssumption DEF Idle
      <4>. QED BY <2>1, <3>1, <4>1, <4>2
    <3>. QED BY <1>2, <1>4, <2>1, <3>1, <3>2 DEF Requested, Overlaps
  <2>. QED BY <2>1 DEF Overlaps
<1>10. ASSUME NEW y \in Keys \ raced' PROVE Good(db', y)
  <2>1. CASE y = x
    BY <1>2, <1>3, <1>10, <2>1 DEF Leads
  <2>2. CASE y # x
    <3>1. Good(db, y) /\ Same(db, db', y)
      BY <1>2, <1>6, <1>10, <2>2 DEF Requested
    <3>. QED BY <3>1, GoodSame
  <2>. QED BY <2>1, <2>2
<1>. QED BY <1>4, <1>8, <1>9, <1>10 DEF Requested

LEMMA RollbackKeepsRequests ==
    ASSUME Requested, NEW w \in Workers, Rollback(w)
    PROVE  Requested'
<1>1. /\ DOMAIN open = Workers /\ db' = db /\ open' = [open EXCEPT ![w] = Idle]
      /\ raced' = raced
  BY DEF Requested, Rollback
<1>2. /\ DOMAIN open' = Workers /\ open'[w] = Idle
      /\ \A v \in Workers \ {w} : open'[v] = open[v]
  BY <1>1
<1>3. Kept /\ \A y : Same(db, db', y)
  BY <1>1 DEF Kept, Exists, Same, Elsewhere
<1>4. ASSUME NEW v \in Workers \ {w}, open[v] # Idle
      PROVE  WellFormed(v)' /\ Settled(v)'
  BY <1>1, <1>2, <1>3, <1>4, StaysOpen
<1>5. \A v \in Workers : open'[v] # Idle => WellFormed(v)' /\ Settled(v)'
  BY <1>2, <1>4
<1>6. Overlaps'
  <2>1. ASSUME NEW u \in Workers, NEW v \in Workers, u # v, open'[u] # Idle,
               open'[u].subject = open'[v].subject
        PROVE  open'[u].subject \in raced'
    <3>1. u # w /\ open'[u] = open[u] /\ open[u] # Idle
      BY <1>2, <2>1
    <3>2. v # w
      <4>1. open[u].subject \in Keys
        BY <3>1 DEF Requested, WellFormed
      <4>2. open'[w].subject \notin Keys
        BY <1>2, RequestAssumption DEF Idle
      <4>. QED BY <2>1, <3>1, <4>1, <4>2
    <3>. QED BY <1>1, <1>2, <2>1, <3>1, <3>2 DEF Requested, Overlaps
  <2>. QED BY <2>1 DEF Overlaps
<1>. QED BY <1>1, <1>2, <1>5, <1>6 DEF Requested

-----------------------------------------------------------------------------
(* Solutions never outgrow their limit, those about to be added counted. *)

LEMMA AddingFinite ==
    /\ \A t : IsFiniteSet(Adding(t)) /\ Cardinality(Adding(t)) <= Cardinality(Workers)
    /\ \A t : Cardinality(Adding(t)) \in Nat
    /\ Cardinality(Workers) \in Nat /\ Cardinality(Workers) >= 1
<1>1. IsFiniteSet(Workers) /\ Cardinality(Workers) \in Nat
  BY RequestAssumption, FS_CardinalityType
<1>2. ASSUME NEW t
      PROVE  /\ IsFiniteSet(Adding(t)) /\ Cardinality(Adding(t)) <= Cardinality(Workers)
             /\ Cardinality(Adding(t)) \in Nat
  <2>1. Adding(t) \subseteq Workers
    BY DEF Adding
  <2>. QED BY <1>1, <2>1, FS_Subset, FS_CardinalityType
<1>3. Cardinality(Workers) # 0
  BY RequestAssumption, FS_EmptySet
<1>. QED BY <1>1, <1>2, <1>3

LEMMA ServeKeepsCount ==
    ASSUME Requested, Counted, NEW w \in Workers, NEW x \in Keys, NEW F, NEW D,
           ServeRemoval(w, x, F, D), Handled(F, x)
    PROVE  Counted'
<1>1. /\ DOMAIN open = Workers /\ open[w] = Idle /\ db' = db
      /\ open' = [open EXCEPT ![w] = [subject |-> x, flush |-> F, removes |-> D]]
      /\ raced \subseteq raced'
      /\ (\E v \in Workers : open[v].subject = x) => x \in raced'
  BY DEF Requested, ServeRemoval
<1>2. /\ open'[w].flush = F /\ open[w].flush = {}
      /\ \A v \in Workers \ {w} : open'[v] = open[v]
  BY <1>1 DEF Idle
<1>3. ASSUME NEW t \in Threads
      PROVE  /\ IsFiniteSet(Marked(t)')
             /\ Cardinality(Marked(t)') + Cardinality(Adding(t)') <= Limit(t)'
  <2> DEFINE n == Cardinality(Marked(t))
             a == Cardinality(Adding(t))
             a1 == Cardinality(Adding(t)')
             c == Cardinality(Workers)
  <2>1. Marked(t)' = Marked(t) /\ IsFiniteSet(Marked(t)) /\ n \in Nat /\ n + a <= Limit(t)
    BY <1>1, FS_CardinalityType DEF Marked, Exists, Counted
  <2>2. a \in Nat /\ a <= c /\ c \in Nat /\ c >= 1 /\ MaxSolutions \in Nat
    BY AddingFinite, ForumAssumption
  <2>3. Adding(t)' \subseteq Workers /\ w \notin Adding(t)
    BY <1>2 DEF Adding, Adds
  <2>4. a1 \in Nat /\ a1 <= c
    BY <2>3, RequestAssumption, FS_Subset, FS_CardinalityType
  <2>5. Limit(t)' = IF t \in raced' THEN MaxSolutions - 1 + c ELSE MaxSolutions
    BY DEF Limit
  <2>6. CASE w \notin Adding(t)'
    <3>1. Adding(t)' = Adding(t)
      BY <1>2, <2>3, <2>6 DEF Adding
    <3>2. Limit(t) <= Limit(t)'
      BY <1>1, <2>2, <2>5 DEF Limit
    <3>3. Limit(t) \in Int /\ Limit(t)' \in Int
      BY <2>2, <2>5 DEF Limit
    <3>. HIDE DEF n, a, a1, c
    <3>. QED BY <2>1, <2>2, <3>1, <3>2, <3>3 DEF n, a, a1
  <2>7. CASE w \in Adding(t)'
    <3>1. Adds(F, t)
      BY <1>2, <2>7 DEF Adding
    <3>2. t = x /\ n < MaxSolutions
      BY <3>1 DEF Handled
    <3>3. CASE t \in raced'
      <4>1. Limit(t)' = MaxSolutions - 1 + c
        BY <2>5, <3>3
      <4>. HIDE DEF n, a, a1, c
      <4>2. n + a1 <= Limit(t)'
        BY <2>1, <2>2, <2>4, <3>2, <4>1
      <4>. QED BY <2>1, <4>2 DEF n, a1
    <3>4. CASE t \notin raced'
      <4>1. \A v \in Workers : open[v].subject # t
        BY <1>1, <3>2, <3>4
      <4>2. \A v \in Workers : open[v] # Idle /\ Adds(open[v].flush, t) => open[v].subject = t
        BY DEF Requested, WellFormed, Sends, Lawful, OnSolution, Adds
      <4>3. Adding(t) = {}
        BY <4>1, <4>2 DEF Adding, Adds, Idle
      <4>4. Adding(t)' = {w}
        BY <1>2, <2>3, <2>7, <4>3 DEF Adding
      <4>5. a1 = 1
        BY <4>4, FS_Singleton
      <4>6. Limit(t)' = MaxSolutions
        BY <2>5, <3>4
      <4>. HIDE DEF n, a, a1, c
      <4>7. n + a1 <= Limit(t)'
        BY <2>1, <2>2, <3>2, <4>5, <4>6
      <4>. QED BY <2>1, <4>7 DEF n, a1
    <3>. QED BY <3>3, <3>4
  <2>. QED BY <2>1, <2>6, <2>7
<1>. QED BY <1>3 DEF Counted

LEMMA CommitKeepsCount ==
    ASSUME Rows, Requested, Counted, NEW w \in Workers, Commit(w)
    PROVE  Counted'
<1>1. PICK F, x : F = open[w].flush /\ x = open[w].subject
  OBVIOUS
<1>2. /\ DOMAIN open = Workers /\ open[w] # Idle
      /\ db' = Applied(db, F) /\ open' = [open EXCEPT ![w] = Idle] /\ raced' = raced
  BY <1>1 DEF Requested, Commit
<1>3. Sends(F, x) /\ Apart(F)
  BY <1>1, <1>2 DEF Requested, WellFormed, Sends
<1>4. open'[w].flush = {} /\ \A v \in Workers \ {w} : open'[v] = open[v]
  BY <1>2 DEF Idle
\* What a commit marks, it was about to add.
<1>5. ASSUME NEW t \in Threads, NEW b \in Comments, b \in Marked(t)', b \notin Marked(t)
      PROVE  \E s \in F : s.kind = "insert" /\ s.key = <<t, b>>
  <2>1. PICK p : p = <<t, b>>
    OBVIOUS
  <2>2. p \in Solutions /\ p \in Keys
    BY <2>1, Tables DEF Solutions
  <2>3. db[p] = None /\ db'[p] # None
    BY <1>5, <2>1 DEF Marked, Exists
  <2>4. PICK s \in F : s.key = p
    BY <1>2, <2>2, <2>3, Untouched
  <2>5. OnSolution(s, x)
    BY <1>3, <2>2, <2>4 DEF Sends, Lawful
  <2>6. db'[s.key] = Result(db[s.key], s)
    BY <1>2, <1>3, <2>2, <2>4, Touched
  <2>7. s.kind # "delete"
    BY <2>3, <2>4, <2>6 DEF Result
  <2>. QED BY <2>1, <2>4, <2>5, <2>7 DEF OnSolution
<1>6. ASSUME NEW t \in Threads
      PROVE  /\ IsFiniteSet(Marked(t)')
             /\ Cardinality(Marked(t)') + Cardinality(Adding(t)') <= Limit(t)'
  <2> DEFINE n == Cardinality(Marked(t))
             n1 == Cardinality(Marked(t)')
             a == Cardinality(Adding(t))
             a1 == Cardinality(Adding(t)')
  <2>1. IsFiniteSet(Marked(t)) /\ n \in Nat /\ n + a <= Limit(t)
    BY FS_CardinalityType DEF Counted
  <2>2. a \in Nat /\ IsFiniteSet(Adding(t)) /\ Limit(t)' = Limit(t) /\ Limit(t) \in Int
    BY <1>2, AddingFinite, ForumAssumption DEF Limit
  <2>3. Adding(t)' = Adding(t) \ {w}
    BY <1>4 DEF Adding, Adds
  <2>4. CASE w \notin Adding(t)
    <3>1. Adding(t)' = Adding(t)
      BY <2>3, <2>4
    <3>2. Marked(t)' \subseteq Marked(t)
      <4>1. SUFFICES ASSUME NEW b \in Marked(t)', b \notin Marked(t) PROVE FALSE
        OBVIOUS
      <4>2. b \in Comments
        BY DEF Marked
      <4>3. PICK s \in F : s.kind = "insert" /\ s.key = <<t, b>>
        BY <1>5, <4>1, <4>2
      <4>4. Adds(F, t)
        <5>1. <<t, b>> \in Solutions /\ <<t, b>>[1] = t
          BY <4>2 DEF Solutions
        <5>. QED BY <4>3, <5>1 DEF Adds
      <4>. QED BY <1>1, <2>4, <4>4 DEF Adding
    <3>3. IsFiniteSet(Marked(t)') /\ n1 <= n /\ n1 \in Nat
      BY <2>1, <3>2, FS_Subset, FS_CardinalityType
    <3>. HIDE DEF n, n1, a, a1
    <3>4. n1 + a <= Limit(t)'
      BY <2>1, <2>2, <3>3
    <3>. QED BY <3>1, <3>3, <3>4 DEF n1, a
  <2>5. CASE w \in Adding(t)
    <3>1. a1 = a - 1
      BY <2>2, <2>3, <2>5, FS_RemoveElement
    <3>2. PICK s \in F : s.kind = "insert" /\ s.key \in Solutions /\ s.key[1] = t
      BY <1>1, <2>5 DEF Adding, Adds
    <3>3. PICK c : c = s.key[2]
      OBVIOUS
    <3>4. Marked(t)' \subseteq Marked(t) \cup {c}
      <4>1. SUFFICES ASSUME NEW b \in Marked(t)', b \notin Marked(t) PROVE b = c
        OBVIOUS
      <4>2. b \in Comments
        BY DEF Marked
      <4>3. PICK r \in F : r.kind = "insert" /\ r.key = <<t, b>>
        BY <1>5, <4>1, <4>2
      <4>4. r.key \in Solutions
        BY <4>2, <4>3 DEF Solutions
      <4>5. r = s
        BY <1>3, <3>2, <4>4 DEF Apart
      <4>. QED BY <3>3, <4>3, <4>5
    <3>5. /\ IsFiniteSet(Marked(t) \cup {c})
          /\ Cardinality(Marked(t) \cup {c}) \in {n, n + 1}
      BY <2>1, FS_AddElement
    <3>6. IsFiniteSet(Marked(t)') /\ n1 \in Nat /\ n1 <= n + 1
      <4>1. /\ IsFiniteSet(Marked(t)') /\ n1 \in Nat
            /\ n1 <= Cardinality(Marked(t) \cup {c})
        BY <3>4, <3>5, FS_Subset, FS_CardinalityType
      <4>. HIDE DEF n, n1
      <4>. QED BY <2>1, <3>5, <4>1
    <3>. HIDE DEF n, n1, a, a1
    <3>7. n1 + a1 <= Limit(t)'
      BY <2>1, <2>2, <3>1, <3>6
    <3>. QED BY <3>6, <3>7 DEF n1, a1
  <2>. QED BY <2>4, <2>5
<1>. QED BY <1>6 DEF Counted

LEMMA RollbackKeepsCount ==
    ASSUME Requested, Counted, NEW w \in Workers, Rollback(w)
    PROVE  Counted'
<1>1. /\ DOMAIN open = Workers /\ db' = db /\ open' = [open EXCEPT ![w] = Idle]
      /\ raced' = raced
  BY DEF Requested, Rollback
<1>2. open'[w].flush = {} /\ \A v \in Workers \ {w} : open'[v] = open[v]
  BY <1>1 DEF Idle
<1>3. ASSUME NEW t \in Threads
      PROVE  /\ IsFiniteSet(Marked(t)')
             /\ Cardinality(Marked(t)') + Cardinality(Adding(t)') <= Limit(t)'
  <2> DEFINE n == Cardinality(Marked(t))
             a == Cardinality(Adding(t))
             a1 == Cardinality(Adding(t)')
  <2>1. Marked(t)' = Marked(t) /\ IsFiniteSet(Marked(t)) /\ n \in Nat /\ n + a <= Limit(t)
    BY <1>1, FS_CardinalityType DEF Marked, Exists, Counted
  <2>2. a \in Nat /\ IsFiniteSet(Adding(t)) /\ Limit(t)' = Limit(t) /\ Limit(t) \in Int
    BY <1>1, AddingFinite, ForumAssumption DEF Limit
  <2>3. Adding(t)' \subseteq Adding(t)
    BY <1>2 DEF Adding, Adds
  <2>4. a1 \in Nat /\ a1 <= a
    BY <2>2, <2>3, FS_Subset, FS_CardinalityType
  <2>. HIDE DEF n, a, a1
  <2>5. n + a1 <= Limit(t)'
    BY <2>1, <2>2, <2>4
  <2>. QED BY <2>1, <2>5 DEF n, a1
<1>. QED BY <1>3 DEF Counted

-----------------------------------------------------------------------------
(* The inductive invariant. *)

LEMMA InitInv == Init => Inv
<1>. SUFFICES ASSUME Init PROVE Inv
  OBVIOUS
<1>1. /\ \A k \in Keys : db[k] = None
      /\ open = [w \in Workers |-> Idle] /\ raced = {}
  BY DEF Init, RequestInit
<1>2. \A k \in Keys : ~Exists(k)
  BY <1>1 DEF Exists
<1>3. Rows
  <2>1. ForumTypeOK
    BY <1>1, <1>2, Tables DEF ForumTypeOK
  <2>2. TicketsTypeOK
    BY <1>1, <1>2, Tables DEF TicketsTypeOK
  <2>3. References
    BY <1>2, Tables DEF References
  <2>. QED BY <2>1, <2>2, <2>3 DEF Rows
<1>4. Requested
  <2>1. ASSUME NEW x \in Keys PROVE Good(db, x)
    BY <1>1, Tables DEF Good, ThreadGood, TicketGood
  <2>2. DOMAIN open = Workers /\ \A w \in Workers : open[w] = Idle
    BY <1>1
  <2>. QED BY <2>1, <2>2 DEF Requested, Overlaps
<1>5. Counted
  <2>1. ASSUME NEW t \in Threads
        PROVE  /\ IsFiniteSet(Marked(t))
               /\ Cardinality(Marked(t)) + Cardinality(Adding(t)) <= Limit(t)
    <3>1. \A c \in Comments : <<t, c>> \in Keys
      BY Tables DEF Solutions
    <3>2. Marked(t) = {} /\ Adding(t) = {}
      BY <1>1, <1>2, <3>1 DEF Marked, Adding, Adds, Idle
    <3>3. Limit(t) = MaxSolutions /\ MaxSolutions \in Nat
      BY <1>1, ForumAssumption DEF Limit
    <3>. QED BY <3>2, <3>3, FS_EmptySet
  <2>. QED BY <2>1 DEF Counted
<1>. QED BY <1>3, <1>4, <1>5 DEF Inv

LEMMA NextInv == Inv /\ [Next]_requestVars => Inv'
<1>. SUFFICES ASSUME Inv, [Next]_requestVars PROVE Inv'
  OBVIOUS
<1>1. CASE ForumNext \/ TicketsNext
  <2>1. PICK w \in Workers, x \in Keys : \E F, D : ServeRemoval(w, x, F, D) /\ Handled(F, x)
    BY <1>1, HandlersServe DEF Inv, Served
  <2>2. PICK F, D : ServeRemoval(w, x, F, D) /\ Handled(F, x)
    BY <2>1
  <2>3. Requested' /\ Counted'
    BY <2>2, ServeKeepsRequests, ServeKeepsCount DEF Inv
  <2>4. Rows'
    <3>1. db' = db
      BY <2>2 DEF ServeRemoval
    <3>. QED BY <3>1 DEF Inv, Rows, ForumTypeOK, TicketsTypeOK, References, Exists, MaySee
  <2>. QED BY <2>3, <2>4 DEF Inv
<1>2. ASSUME NEW w \in Workers, Commit(w) PROVE Inv'
  <2>1. PICK F, x : F = open[w].flush /\ x = open[w].subject
    OBVIOUS
  <2>2. Sends(F, x) /\ (\A s \in F : Fits(s)) /\ db' = Applied(db, F)
    BY <1>2, <2>1 DEF Inv, Requested, WellFormed, Commit
  <2>3. Rows'
    BY <2>2, RowsKept DEF Inv
  <2>. QED BY <1>2, <2>3, CommitKeepsRequests, CommitKeepsCount DEF Inv
<1>3. ASSUME NEW w \in Workers, Rollback(w) PROVE Inv'
  <2>1. Rows'
    <3>1. db' = db
      BY <1>3 DEF Rollback
    <3>. QED BY <3>1 DEF Inv, Rows, ForumTypeOK, TicketsTypeOK, References, Exists, MaySee
  <2>. QED BY <1>3, <2>1, RollbackKeepsRequests, RollbackKeepsCount DEF Inv
<1>4. CASE UNCHANGED requestVars
  <2>1. db' = db /\ open' = open /\ raced' = raced
    BY <1>4 DEF requestVars
  <2>2. Rows'
    BY <2>1 DEF Inv, Rows, ForumTypeOK, TicketsTypeOK, References, Exists, MaySee
  <2>3. Counted'
    BY <2>1 DEF Inv, Counted, Marked, Exists, Adding, Limit
  <2>4. Kept /\ \A y : Same(db, db', y)
    BY <2>1 DEF Kept, Exists, Same, Elsewhere
  <2>5. \A v \in Workers : open'[v] # Idle => WellFormed(v)' /\ Settled(v)'
    BY <2>1, <2>4, StaysOpen DEF Inv
  <2>6. Overlaps'
    BY <2>1 DEF Inv, Requested, Overlaps
  <2>7. Requested'
    BY <2>1, <2>5, <2>6 DEF Inv, Requested
  <2>. QED BY <2>2, <2>3, <2>7 DEF Inv
<1>. QED BY <1>1, <1>2, <1>3, <1>4 DEF Next, RequestEnds

\* The rows of the site are well formed; requests that are open ask for what
\* is lawful, and those that nothing overlaps lead to good tables.
THEOREM SupportInvariant == Spec => []Inv
  BY InitInv, NextInv, PTL DEF Spec

-----------------------------------------------------------------------------
(* Who deleted a row, and what is said of it. *)

Items == Threads \cup Comments

\* A deletion by u of row i is one by an administrator, and not by its author.
Staff(i, u) == IsAdmin(u) /\ u # db[i].author

Deleters(i) == {u \in Users : <<i, u>> \in removed}

\* The name is of someone who deleted the row; the label is true of such a
\* user, and a row that nobody has deleted has none.
RowSigned(i) ==
    /\ Exists(i) => /\ db[i].deleter # None => db[i].deleter \in Deleters(i)
                    /\ db[i].deleted => db[i].deleter # None
                    /\ \/ Deleters(i) = {} /\ ~db[i].byAdmin
                       \/ \E u \in Deleters(i) : db[i].byAdmin <=> Staff(i, u)
    /\ ~Exists(i) => Deleters(i) = {}

\* Nothing that a deletion writes.
Unsigned(flush) ==
    \A s \in flush : s.key \in Items /\ s.kind = "update" =>
        DOMAIN s.cols \cap {"deleted", "byAdmin", "deleter"} = {}

\* What u sends to delete row i.  Of a label it does not send, it has found
\* in the row what it would have sent.
Signed(flush, i, u) ==
    /\ i \in Items /\ u \in Users /\ Exists(i)
    /\ \A s \in flush :
          /\ s.key = i /\ s.kind = "update"
          /\ IF "deleter" \in DOMAIN s.cols THEN s.cols["deleter"] = u
             ELSE db[i].deleter # None
          /\ "byAdmin" \in DOMAIN s.cols => (s.cols["byAdmin"] <=> Staff(i, u))
    /\ \/ \E s \in flush : "byAdmin" \in DOMAIN s.cols
       \/ Staff(i, u) => Deleters(i) # {}

Signs(flush, removes) == \/ removes = {} /\ Unsigned(flush)
                         \/ \E i, u : removes = {<<i, u>>} /\ Signed(flush, i, u)

Labelled == /\ \A i \in Items : RowSigned(i)
            /\ \A w \in Workers : Signs(open[w].flush, open[w].removes)

LEMMA UpdateUnsigned ==
    ASSUME NEW k, NEW new, NEW stamped,
           DOMAIN new \cap {"deleted", "byAdmin", "deleter"} = {}
    PROVE  Unsigned(Update(k, new, stamped))
<1>1. \A s \in Update(k, new, stamped) : DOMAIN s.cols \subseteq DOMAIN new
  BY UpdateShape
<1>. QED BY <1>1 DEF Unsigned

LEMMA OthersUnsigned ==
    ASSUME NEW F, \A s \in F : s.kind # "update" \/ s.key \notin Items
    PROVE  Unsigned(F)
  BY DEF Unsigned

LEMMA UnionUnsigned ==
    ASSUME NEW F, NEW G, Unsigned(F), Unsigned(G)
    PROVE  Unsigned(F \cup G)
  BY DEF Unsigned

LEMMA DeletionSigned ==
    ASSUME NEW i \in Items, NEW u \in Users, Exists(i), RowSigned(i), NEW new,
           {"byAdmin", "deleter"} \subseteq DOMAIN new,
           new["deleter"] = u, new["byAdmin"] = Staff(i, u),
           db[i].byAdmin \in BOOLEAN,
           NEW F, F = Update(i, new, {})
    PROVE  Signed(F, i, u)
<1>1. u # None
  BY UserAssumption
<1>2. (db[i].byAdmin = Staff(i, u)) /\ Staff(i, u) => Deleters(i) # {}
  BY DEF RowSigned
<1>3. ASSUME NEW s \in F
      PROVE  /\ s.key = i /\ s.kind = "update"
             /\ IF "deleter" \in DOMAIN s.cols THEN s.cols["deleter"] = u
                ELSE db[i].deleter # None
             /\ "byAdmin" \in DOMAIN s.cols => (s.cols["byAdmin"] <=> Staff(i, u))
             /\ "byAdmin" \in DOMAIN s.cols \/ db[i]["byAdmin"] = new["byAdmin"]
  <2>1. /\ s.kind = "update" /\ s.key = i
        /\ \A c \in DOMAIN s.cols : s.cols[c] = new[c]
        /\ \A c \in DOMAIN new \ DOMAIN s.cols : new[c] = db[i][c]
    BY UpdateShape
  <2>. QED BY <1>1, <2>1
<1>4. F = {} => db[i]["byAdmin"] = new["byAdmin"]
  BY DEF Update
<1>5. \/ \E s \in F : "byAdmin" \in DOMAIN s.cols
      \/ db[i]["byAdmin"] = new["byAdmin"]
  BY <1>3, <1>4
<1>6. \/ \E s \in F : "byAdmin" \in DOMAIN s.cols
      \/ Staff(i, u) => Deleters(i) # {}
  BY <1>2, <1>5
<1>. QED BY <1>3, <1>6 DEF Signed

\* Every handler but those of deletions leaves the labels alone.
LEMMA HandlersSign ==
    ASSUME Rows, Labelled, ForumNext \/ TicketsNext
    PROVE  \E w \in Workers : \E x, F, D :
              ServeRemoval(w, x, F, D) /\ Signs(F, D)
<1>1. SUFFICES ASSUME \A w \in Workers : \A x, F, D :
                         ServeRemoval(w, x, F, D) => ~Signs(F, D)
               PROVE  FALSE
  OBVIOUS
<1>2. ASSUME NEW w \in Workers, NEW x, NEW F, Unsigned(F) PROVE ~Serve(w, x, F)
  BY <1>1, <1>2 DEF Serve, Signs
<1>3. ASSUME NEW w \in Workers, NEW x, NEW k, NEW row PROVE ~Serve(w, x, Insert(k, row))
  BY <1>2, OthersUnsigned DEF Insert
<1>4. ASSUME NEW w \in Workers, NEW x, NEW k, NEW new, NEW stamped,
             DOMAIN new \cap {"deleted", "byAdmin", "deleter"} = {}
      PROVE  ~Serve(w, x, Update(k, new, stamped))
  BY <1>2, <1>4, UpdateUnsigned
<1>5. ASSUME NEW w \in Workers, NEW i \in Items, NEW u \in Users, NEW x, NEW new,
             Exists(i), {"byAdmin", "deleter"} \subseteq DOMAIN new,
             new["deleter"] = u, new["byAdmin"] = Staff(i, u)
      PROVE  ~ServeRemoval(w, x, Update(i, new, {}), {<<i, u>>})
  <2>1. PICK F : F = Update(i, new, {})
    OBVIOUS
  <2>2. db[i].byAdmin \in BOOLEAN
    BY <1>5 DEF Items, Rows, ForumTypeOK, ThreadRow, CommentRow, Exists
  <2>3. RowSigned(i)
    BY DEF Labelled
  <2>4. Signed(F, i, u)
    BY <1>5, <2>1, <2>2, <2>3, DeletionSigned
  <2>5. Signs(F, {<<i, u>>})
    BY <2>4 DEF Signs
  <2>. QED BY <1>1, <2>1, <2>5
<1>6. ASSUME NEW w \in Workers, NEW u \in Users, NEW t \in Threads PROVE ~ThreadNew(w, u, t)
  BY <1>3 DEF ThreadNew
<1>7. ASSUME NEW w \in Workers, NEW u \in Users, NEW t \in Threads
      PROVE  /\ ~ThreadLock(w, u, t) /\ ~ThreadUnlock(w, u, t)
             /\ ~ThreadPin(w, u, t) /\ ~ThreadUnpin(w, u, t)
  <2>1. /\ ~Serve(w, t, Update(t, [locked |-> TRUE], {}))
        /\ ~Serve(w, t, Update(t, [locked |-> FALSE], {}))
        /\ ~Serve(w, t, Update(t, [pinned |-> TRUE], {}))
        /\ ~Serve(w, t, Update(t, [pinned |-> FALSE], {}))
    BY <1>4
  <2>. QED BY <2>1 DEF ThreadLock, ThreadUnlock, ThreadPin, ThreadUnpin
<1>8. ASSUME NEW w \in Workers, NEW u \in Users, NEW t \in Threads PROVE ~ThreadDelete(w, u, t)
  <2>1. PICK new : new = [deleted |-> TRUE, byAdmin |-> IsAdmin(u) /\ ~(u = db[t].author),
                          deleter |-> u, locked |-> TRUE, pinned |-> FALSE]
    OBVIOUS
  <2>2. /\ {"byAdmin", "deleter"} \subseteq DOMAIN new /\ new["deleter"] = u
        /\ new["byAdmin"] = (IsAdmin(u) /\ ~(u = db[t].author))
    BY <2>1
  <2>3. new["byAdmin"] = Staff(t, u)
    BY <2>2 DEF Staff
  <2>4. Exists(t) => ~ServeRemoval(w, t, Update(t, new, {}), {<<t, u>>})
    BY <1>5, <2>2, <2>3 DEF Items
  <2>. QED BY <2>1, <2>4 DEF ThreadDelete
<1>9. ASSUME NEW w \in Workers, NEW u \in Users, NEW c \in Comments PROVE ~CommentDelete(w, u, c)
  <2>1. PICK new : new = [deleted |-> TRUE, byAdmin |-> IsAdmin(u) /\ ~(u = db[c].author),
                          deleter |-> u]
    OBVIOUS
  <2>2. /\ {"byAdmin", "deleter"} \subseteq DOMAIN new /\ new["deleter"] = u
        /\ new["byAdmin"] = (IsAdmin(u) /\ ~(u = db[c].author))
    BY <2>1
  <2>3. new["byAdmin"] = Staff(c, u)
    BY <2>2 DEF Staff
  <2>4. Exists(c) => ~ServeRemoval(w, db[c].thread, Update(c, new, {}), {<<c, u>>})
    BY <1>5, <2>2, <2>3 DEF Items
  <2>. QED BY <2>1, <2>4 DEF CommentDelete
<1>10. ASSUME NEW w \in Workers, NEW u \in Users, NEW t \in Threads, NEW c \in Comments
       PROVE  /\ ~CommentCreate(w, u, t, c) /\ ~MarkSolution(w, u, t, c)
              /\ ~UnmarkSolution(w, u, t, c)
  <2>1. /\ Unsigned(Update(t, [solved |-> TRUE], {}))
        /\ Unsigned(Update(t, [solved |-> FALSE], {})) /\ Unsigned({})
    BY UpdateUnsigned, OthersUnsigned
  <2>2. \A p, row : Unsigned(Insert(p, row)) /\ Unsigned(Delete(p))
    BY OthersUnsigned DEF Insert, Delete
  <2>3. /\ Unsigned((IF c \in Marked(t) THEN {} ELSE Insert(<<t, c>>, [creator |-> u]))
                    \cup Update(t, [solved |-> TRUE], {}))
        /\ Unsigned((IF c \in Marked(t) THEN Delete(<<t, c>>) ELSE {})
                    \cup (IF Marked(t) = {} THEN Update(t, [solved |-> FALSE], {}) ELSE {}))
    BY <2>1, <2>2, UnionUnsigned
  <2>. QED BY <1>2, <1>3, <2>3 DEF CommentCreate, MarkSolution, UnmarkSolution
<1>11. ASSUME NEW w \in Workers, NEW u \in Voters, NEW i \in Items, NEW v \in {-1, 0, 1}
       PROVE  ~Vote(w, u, i, v)
  <2>1. PICK F : F = LET k == <<i, u>> IN
                     IF v = 0 THEN (IF Exists(k) THEN Delete(k) ELSE {})
                     ELSE IF Exists(k) THEN Update(k, [value |-> v], {})
                     ELSE Insert(k, [value |-> v])
    OBVIOUS
  <2>2. Unsigned(Update(<<i, u>>, [value |-> v], {})) /\ Unsigned({})
    BY UpdateUnsigned, OthersUnsigned
  <2>3. Unsigned(Insert(<<i, u>>, [value |-> v])) /\ Unsigned(Delete(<<i, u>>))
    BY OthersUnsigned DEF Insert, Delete
  <2>4. Unsigned(F)
    BY <2>1, <2>2, <2>3
  <2>. QED BY <1>2, <2>1, <2>4 DEF Vote
<1>12. ~ForumNext
  BY <1>6, <1>7, <1>8, <1>9, <1>10, <1>11 DEF ForumNext, Items
<1>13. ~TicketsNext
  <2>. SUFFICES ASSUME NEW w \in Workers, NEW u \in Users, NEW k \in Tickets
                PROVE  /\ ~TicketNew(w, u, k)
                       /\ \A n \in Notes, internal \in BOOLEAN :
                             ~TicketComment(w, u, k, n, internal)
                       /\ \A a \in Users \cup {None} : ~TicketAssign(w, u, k, a)
                       /\ \A s \in Statuses : ~TicketStatus(w, u, k, s)
                       /\ \A p \in Priorities : ~TicketPriority(w, u, k, p)
    BY DEF TicketsNext
  <2>1. ~TicketNew(w, u, k) /\ \A n, internal : ~TicketComment(w, u, k, n, internal)
    BY <1>3 DEF TicketNew, TicketComment
  <2>2. \A a, p : /\ Unsigned(Update(k, [assignee |-> a], {}))
                  /\ Unsigned(Update(k, [priority |-> p], {}))
    BY UpdateUnsigned
  <2>3. \A s, d, e : Unsigned(Update(k, [status |-> s, closedAt |-> d], e))
    BY UpdateUnsigned
  <2>. QED BY <1>2, <2>1, <2>2, <2>3 DEF TicketAssign, TicketPriority, TicketStatus
<1>. QED BY <1>12, <1>13

\* What a commit makes of a thread or a comment that is there ...
LEMMA ItemPatched ==
    ASSUME Rows, NEW F, NEW x, Sends(F, x), \A s \in F : Fits(s),
           NEW i \in Items, Exists(i), NEW s \in F, s.key = i,
           NEW row, row = db[i], NEW q, q = Applied(db, F)[i]
    PROVE  /\ s.kind = "update"
           /\ \A r \in F : r.key = i => r = s
           /\ "deleter" \in DOMAIN s.cols => s.cols["deleter"] \in Users
           /\ \A c \in {"deleted", "byAdmin", "deleter"} :
                 q[c] = IF c \in DOMAIN s.cols THEN s.cols[c] ELSE row[c]
<1>1. i \in Keys /\ Lawful(s, x) /\ Fits(s) /\ \A r \in F : r.key = i => r = s
  BY Tables DEF Items, Sends, Apart
<1>2. q = Result(db[s.key], s)
  BY <1>1, Touched DEF Sends
<1>3. s.kind = "update" /\ (ThreadPatch(s.cols) \/ CommentPatch(s.cols))
  BY <1>1 DEF Items, Lawful, OnThread, OnComment, Fits
<1>4. "deleter" \in DOMAIN s.cols => s.cols["deleter"] \in Users
  BY <1>3 DEF ThreadPatch, CommentPatch
<1>5. q = [c \in DOMAIN row |-> IF c \in DOMAIN s.cols THEN s.cols[c] ELSE row[c]]
  BY <1>2, <1>3 DEF Result
<1>6. {"deleted", "byAdmin", "deleter"} \subseteq DOMAIN row
  <2>1. row \in ThreadRow \/ row \in CommentRow
    BY DEF Items, Rows, ForumTypeOK, Exists
  <2>. QED BY <2>1 DEF ThreadRow, CommentRow
<1>. QED BY <1>1, <1>3, <1>4, <1>5, <1>6

\* ... and of one that is new.
LEMMA ItemInserted ==
    ASSUME Rows, NEW F, NEW x, Sends(F, x), \A s \in F : Fits(s),
           NEW i \in Items, ~Exists(i), NEW q, q = Applied(db, F)[i], q # None
    PROVE  q.deleter = None /\ ~q.deleted /\ ~q.byAdmin
<1>1. i \in Keys
  BY Tables DEF Items
<1>2. PICK s \in F : s.key = i
  BY <1>1, Untouched DEF Exists
<1>3. Lawful(s, x) /\ Fits(s) /\ q = Result(db[s.key], s)
  BY <1>1, <1>2, Touched DEF Sends
<1>4. s.kind = "insert"
  BY <1>2, <1>3 DEF Items, Lawful, OnThread, OnComment, Fits
<1>5. q = s.cols
  BY <1>3, <1>4 DEF Result
<1>6. PICK u : s.cols = NewThread(u) \/ s.cols = NewComment(u, x)
  BY <1>2, <1>3, <1>4 DEF Items, Lawful, OnThread, OnComment
<1>. QED BY <1>5, <1>6 DEF NewThread, NewComment

\* A request asks for what it asked for when rows only gain names and labels.
LEMMA SignsKept ==
    ASSUME Kept, NEW F, NEW D, Signs(F, D), removed \subseteq removed',
           \A i \in Items : Exists(i) /\ db[i].deleter # None => db'[i].deleter # None
    PROVE  Signs(F, D)'
<1>1. CASE D = {} /\ Unsigned(F)
  BY <1>1 DEF Signs, Unsigned
<1>2. ASSUME NEW i, NEW u, D = {<<i, u>>}, Signed(F, i, u) PROVE Signs(F, D)'
  <2>1. i \in Items /\ Exists(i)
    BY <1>2 DEF Signed
  <2>2. Exists(i)' /\ db'[i].author = db[i].author
    BY <2>1 DEF Items, Kept
  <2>3. Staff(i, u)' = Staff(i, u)
    BY <2>2 DEF Staff
  <2>4. Deleters(i) \subseteq Deleters(i)'
    BY DEF Deleters
  <2>5. db[i].deleter # None => db'[i].deleter # None
    BY <2>1
  <2>6. Signed(F, i, u)'
    BY <1>2, <2>2, <2>3, <2>4, <2>5 DEF Signed, Items
  <2>. QED BY <1>2, <2>6 DEF Signs
<1>. QED BY <1>1, <1>2 DEF Signs

LEMMA CommitSigns ==
    ASSUME Rows, Requested, Labelled, NEW w \in Workers, Commit(w), NEW i \in Items
    PROVE  /\ RowSigned(i)'
           /\ Exists(i) /\ db[i].deleter # None => db'[i].deleter # None
<1>1. PICK F, D, x : F = open[w].flush /\ D = open[w].removes /\ x = open[w].subject
  OBVIOUS
<1>2. /\ Sends(F, x) /\ (\A s \in F : Fits(s)) /\ db' = Applied(db, F)
      /\ removed' = removed \cup D
  BY <1>1 DEF Requested, WellFormed, Commit
<1>3. Signs(F, D) /\ RowSigned(i)
  BY <1>1 DEF Labelled
<1>4. Kept
  BY <1>2, CommitKeeps
<1>5. PICK row, q : row = db[i] /\ q = db'[i]
  OBVIOUS
<1>6. ASSUME ~Exists(i) PROVE RowSigned(i)'
  <2>1. Deleters(i) = {}
    BY <1>3, <1>6 DEF RowSigned
  <2>2. Deleters(i)' = {}
    BY <1>2, <1>3, <1>6, <2>1 DEF Deleters, Signs, Signed
  <2>3. q # None => q.deleter = None /\ ~q.deleted /\ ~q.byAdmin
    BY <1>2, <1>5, <1>6, ItemInserted
  <2>. QED BY <1>5, <2>2, <2>3 DEF RowSigned, Exists
<1>7. ASSUME Exists(i)
      PROVE  RowSigned(i)' /\ (db[i].deleter # None => db'[i].deleter # None)
  <2>1. Exists(i)' /\ q.author = row.author
    BY <1>4, <1>5, <1>7 DEF Items, Kept
  <2>2. \A u : Staff(i, u)' = Staff(i, u)
    BY <1>5, <2>1 DEF Staff
  <2>3. /\ row["deleter"] # None => row["deleter"] \in Deleters(i)
        /\ row["deleted"] => row["deleter"] # None
        /\ \/ Deleters(i) = {} /\ ~row["byAdmin"]
           \/ \E u \in Deleters(i) : row["byAdmin"] <=> Staff(i, u)
    BY <1>3, <1>5, <1>7 DEF RowSigned
  <2>4. i \in Keys
    BY Tables DEF Items
  <2>5. (\A s \in F : s.key # i) => q = row
    BY <1>2, <1>5, <2>4, Untouched
  <2>6. \A s \in F : s.key = i =>
           /\ s.kind = "update" /\ \A r \in F : r.key = i => r = s
           /\ "deleter" \in DOMAIN s.cols => s.cols["deleter"] \in Users
           /\ \A c \in {"deleted", "byAdmin", "deleter"} :
                 q[c] = IF c \in DOMAIN s.cols THEN s.cols[c] ELSE row[c]
    BY <1>2, <1>5, <1>7, ItemPatched
  <2>7. SUFFICES /\ q["deleter"] # None => q["deleter"] \in Deleters(i)'
                 /\ q["deleted"] => q["deleter"] # None
                 /\ \/ Deleters(i)' = {} /\ ~q["byAdmin"]
                    \/ \E u \in Deleters(i)' : q["byAdmin"] <=> Staff(i, u)
                 /\ row["deleter"] # None => q["deleter"] # None
    <3>1. ASSUME \E u \in Deleters(i)' : q["byAdmin"] <=> Staff(i, u)
          PROVE  \E u \in Deleters(i)' : q.byAdmin <=> Staff(i, u)'
      BY <2>2, <3>1
    <3>. QED BY <1>5, <2>1, <3>1 DEF RowSigned
  \* A request that deletes nothing here.
  <2>8. ASSUME Deleters(i)' = Deleters(i),
               \A c \in {"deleted", "byAdmin", "deleter"} : q[c] = row[c]
        PROVE  /\ q["deleter"] # None => q["deleter"] \in Deleters(i)'
               /\ q["deleted"] => q["deleter"] # None
               /\ \/ Deleters(i)' = {} /\ ~q["byAdmin"]
                  \/ \E u \in Deleters(i)' : q["byAdmin"] <=> Staff(i, u)
               /\ row["deleter"] # None => q["deleter"] # None
    BY <2>3, <2>8
  <2>9. CASE D = {} /\ Unsigned(F)
    <3>1. Deleters(i)' = Deleters(i)
      BY <1>2, <2>9 DEF Deleters
    <3>2. \A c \in {"deleted", "byAdmin", "deleter"} : q[c] = row[c]
      BY <2>5, <2>6, <2>9 DEF Unsigned
    <3>. QED BY <2>8, <3>1, <3>2
  <2>10. ASSUME NEW j, NEW u, D = {<<j, u>>}, Signed(F, j, u), j # i
         PROVE  /\ Deleters(i)' = Deleters(i)
                /\ \A c \in {"deleted", "byAdmin", "deleter"} : q[c] = row[c]
    BY <1>2, <2>5, <2>10 DEF Deleters, Signed
  <2>11. ASSUME NEW u, D = {<<i, u>>}, Signed(F, i, u)
         PROVE  /\ q["deleter"] # None => q["deleter"] \in Deleters(i)'
                /\ q["deleted"] => q["deleter"] # None
                /\ \/ Deleters(i)' = {} /\ ~q["byAdmin"]
                   \/ \E v \in Deleters(i)' : q["byAdmin"] <=> Staff(i, v)
                /\ row["deleter"] # None => q["deleter"] # None
    <3>1. u \in Users /\ u # None /\ Deleters(i)' = Deleters(i) \cup {u}
      BY <1>2, <2>11, UserAssumption DEF Deleters, Signed
    <3>2. ASSUME NEW s \in F
          PROVE  /\ q["deleter"] \in {u, row["deleter"]} /\ q["deleter"] # None
                 /\ q["byAdmin"] = row["byAdmin"] \/ (q["byAdmin"] <=> Staff(i, u))
                 /\ "byAdmin" \in DOMAIN s.cols => (q["byAdmin"] <=> Staff(i, u))
      <4>1. /\ s.key = i
            /\ IF "deleter" \in DOMAIN s.cols THEN s.cols["deleter"] = u
               ELSE row["deleter"] # None
            /\ "byAdmin" \in DOMAIN s.cols => (s.cols["byAdmin"] <=> Staff(i, u))
        BY <1>5, <2>11 DEF Signed
      <4>2. /\ q["deleter"] = IF "deleter" \in DOMAIN s.cols THEN s.cols["deleter"]
                              ELSE row["deleter"]
            /\ q["byAdmin"] = IF "byAdmin" \in DOMAIN s.cols THEN s.cols["byAdmin"]
                              ELSE row["byAdmin"]
        BY <2>6, <4>1
      <4>. QED BY <3>1, <4>1, <4>2
    <3>3. F = {} => q = row
      BY <2>5
    <3>4. /\ q["deleter"] # None => q["deleter"] \in Deleters(i)'
          /\ q["deleted"] => q["deleter"] # None
          /\ row["deleter"] # None => q["deleter"] # None
      BY <2>3, <3>1, <3>2, <3>3
    <3>5. q["byAdmin"] = row["byAdmin"] \/ (q["byAdmin"] <=> Staff(i, u))
      BY <3>2, <3>3
    <3>6. (q["byAdmin"] <=> Staff(i, u)) \/ (Staff(i, u) => Deleters(i) # {})
      BY <2>11, <3>2 DEF Signed
    <3>7. \E v \in Deleters(i) \cup {u} : q["byAdmin"] <=> Staff(i, v)
      <4>1. CASE q["byAdmin"] <=> Staff(i, u)
        BY <4>1
      <4>2. CASE q["byAdmin"] = row["byAdmin"] /\ (Staff(i, u) => Deleters(i) # {})
        <5>1. CASE \E v \in Deleters(i) : row["byAdmin"] <=> Staff(i, v)
          BY <4>2, <5>1
        <5>2. CASE Deleters(i) = {} /\ ~row["byAdmin"]
          BY <4>2, <5>2
        <5>. QED BY <2>3, <5>1, <5>2
      <4>. QED BY <3>5, <3>6, <4>1, <4>2
    <3>. QED BY <3>1, <3>4, <3>7
  <2>. QED BY <1>3, <2>8, <2>9, <2>10, <2>11 DEF Signs
<1>. QED BY <1>6, <1>7

LEMMA InitLabelled == Init => Labelled
<1>. SUFFICES ASSUME Init PROVE Labelled
  OBVIOUS
<1>1. /\ \A k \in Keys : db[k] = None
      /\ open = [w \in Workers |-> Idle] /\ removed = {}
  BY DEF Init, RequestInit
<1>2. \A i \in Items : RowSigned(i)
  BY <1>1, Tables DEF Items, RowSigned, Exists, Deleters
<1>3. \A w \in Workers : Signs(open[w].flush, open[w].removes)
  BY <1>1 DEF Idle, Signs, Unsigned
<1>. QED BY <1>2, <1>3 DEF Labelled

LEMMA NextLabelled == Inv /\ Labelled /\ [Next]_requestVars => Labelled'
<1>. SUFFICES ASSUME Inv, Labelled, [Next]_requestVars PROVE Labelled'
  OBVIOUS
<1>0. DOMAIN open = Workers
  BY DEF Inv, Requested
<1>1. ASSUME db' = db, removed' = removed,
             \A v \in Workers : \/ open'[v] = open[v]
                                \/ Signs(open'[v].flush, open'[v].removes)
      PROVE  Labelled'
  <2>1. \A i \in Items : RowSigned(i)'
    BY <1>1 DEF Labelled, Items, RowSigned, Exists, Deleters, Staff
  <2>2. Kept /\ removed \subseteq removed'
        /\ \A i \in Items : Exists(i) /\ db[i].deleter # None => db'[i].deleter # None
    BY <1>1 DEF Kept, Exists
  <2>3. ASSUME NEW v \in Workers PROVE Signs(open[v].flush, open[v].removes)'
    <3>1. PICK F, D : F = open'[v].flush /\ D = open'[v].removes
      OBVIOUS
    <3>2. Signs(F, D)
      BY <1>1, <3>1 DEF Labelled
    <3>3. Signs(F, D)'
      BY <2>2, <3>2, SignsKept
    <3>. QED BY <3>1, <3>3
  <2>. QED BY <2>1, <2>3 DEF Labelled, Items
<1>2. CASE ForumNext \/ TicketsNext
  <2>1. PICK w \in Workers : \E x, F, D : ServeRemoval(w, x, F, D) /\ Signs(F, D)
    BY <1>2, HandlersSign DEF Inv
  <2>2. PICK x, F, D : ServeRemoval(w, x, F, D) /\ Signs(F, D)
    BY <2>1
  <2>3. /\ db' = db /\ removed' = removed
        /\ open' = [open EXCEPT ![w] = [subject |-> x, flush |-> F, removes |-> D]]
    BY <2>2 DEF ServeRemoval
  <2>4. /\ open'[w].flush = F /\ open'[w].removes = D
        /\ \A v \in Workers \ {w} : open'[v] = open[v]
    BY <1>0, <2>3
  <2>. QED BY <1>1, <2>2, <2>3, <2>4
<1>3. ASSUME NEW w \in Workers, Commit(w) PROVE Labelled'
  <2>1. \A i \in Items : /\ RowSigned(i)'
                         /\ Exists(i) /\ db[i].deleter # None => db'[i].deleter # None
    BY <1>3, CommitSigns DEF Inv
  <2>2. Kept
    <3>1. PICK F, x : F = open[w].flush /\ x = open[w].subject
      OBVIOUS
    <3>2. Sends(F, x) /\ (\A s \in F : Fits(s)) /\ db' = Applied(db, F)
      BY <1>3, <3>1 DEF Inv, Requested, WellFormed, Commit
    <3>. QED BY <3>2, CommitKeeps DEF Inv
  <2>3. /\ removed \subseteq removed' /\ open'[w] = Idle
        /\ \A v \in Workers \ {w} : open'[v] = open[v]
    BY <1>0, <1>3 DEF Commit
  <2>4. ASSUME NEW v \in Workers PROVE Signs(open[v].flush, open[v].removes)'
    <3>1. PICK F, D : F = open'[v].flush /\ D = open'[v].removes
      OBVIOUS
    <3>2. Signs(F, D)
      <4>1. v = w => F = {} /\ D = {}
        BY <2>3, <3>1 DEF Idle
      <4>2. v # w => Signs(F, D)
        BY <2>3, <3>1 DEF Labelled
      <4>. QED BY <4>1, <4>2 DEF Signs, Unsigned
    <3>3. Signs(F, D)'
      BY <2>1, <2>2, <2>3, <3>2, SignsKept
    <3>. QED BY <3>1, <3>3
  <2>. QED BY <2>1, <2>4 DEF Labelled, Items
<1>4. ASSUME NEW w \in Workers, Rollback(w) PROVE Labelled'
  <2>1. /\ db' = db /\ removed' = removed /\ open'[w] = Idle
        /\ \A v \in Workers \ {w} : open'[v] = open[v]
    BY <1>0, <1>4 DEF Rollback
  <2>2. Signs(open'[w].flush, open'[w].removes)
    BY <2>1 DEF Idle, Signs, Unsigned
  <2>. QED BY <1>1, <2>1, <2>2
<1>5. CASE UNCHANGED requestVars
  BY <1>1, <1>5 DEF requestVars
<1>. QED BY <1>2, <1>3, <1>4, <1>5 DEF Next, RequestEnds

\* Whoever a row names as its deleter has deleted it, and what is said of the
\* deletion is true of somebody who has.
THEOREM SupportLabelled == Spec => []Labelled
  BY SupportInvariant, InitLabelled, NextLabelled, PTL DEF Spec

-----------------------------------------------------------------------------
(* What it implies. *)

\* Every row of the forum and of the help desk has the columns and the values
\* that models/schema.py declares, refers to rows that are there, and a
\* solution is a comment of its thread.
THEOREM TypeCorrect == Spec => []TypeOK
<1>1. Inv => TypeOK
  BY DEF Inv, Rows, TypeOK
<1>. QED BY <1>1, SupportInvariant, PTL

\* mark_solution: a thread has no more solutions than the limit, and where its
\* author's requests overlap, at most one more for every further request.
THEOREM SolutionsStayBounded == Spec => []SolutionsBounded
<1>1. Inv => SolutionsBounded
  <2>. SUFFICES ASSUME Inv, NEW t \in Threads PROVE Cardinality(Marked(t)) <= Limit(t)
    BY DEF SolutionsBounded, Limit
  <2>1. /\ IsFiniteSet(Marked(t))
        /\ Cardinality(Marked(t)) + Cardinality(Adding(t)) <= Limit(t)
    BY DEF Inv, Counted
  <2>2. Cardinality(Marked(t)) \in Nat /\ Cardinality(Adding(t)) \in Nat /\ Limit(t) \in Int
    BY <2>1, AddingFinite, FS_CardinalityType, ForumAssumption DEF Limit
  <2> DEFINE n == Cardinality(Marked(t))
             a == Cardinality(Adding(t))
  <2>. HIDE DEF n, a
  <2>3. n <= Limit(t)
    BY <2>1, <2>2 DEF n, a
  <2>. QED BY <2>3 DEF n
<1>. QED BY <1>1, SupportInvariant, PTL

\* mark_solution and unmark_solution: a thread with a solution is shown as
\* solved, as long as its requests come one after the other.
THEOREM SolvedIsShown == Spec => []SolutionMeansSolved
<1>1. Inv => SolutionMeansSolved
  <2>. SUFFICES ASSUME Inv, NEW t \in Threads \ raced, Exists(t), Marked(t) # {}
                PROVE  db[t].solved
    BY DEF SolutionMeansSolved
  <2>1. ThreadGood(db, t)
    BY Tables DEF Inv, Requested, Good
  <2>. QED BY <2>1 DEF ThreadGood, Marked, Exists
<1>. QED BY <1>1, SupportInvariant, PTL

\* thread_delete and comment_delete: however requests overlap, a deleted
\* thread or comment names someone who has deleted it, and its label is true of
\* someone who has; if they do not overlap it is true of the one named.
THEOREM LabelsAreTrue == Spec => []DeletionLabel
<1>1. Inv /\ Labelled => DeletionLabel
  <2>. SUFFICES ASSUME Inv, Labelled, NEW i \in Threads \cup Comments,
                       Exists(i), db[i].deleted,
                       NEW t, t = (IF i \in Threads THEN i ELSE db[i].thread)
                PROVE  /\ <<i, db[i].deleter>> \in removed
                       /\ \E u \in Users : /\ <<i, u>> \in removed
                                           /\ db[i].byAdmin <=> Staff(i, u)
                       /\ t \notin raced => (db[i].byAdmin <=> Staff(i, db[i].deleter))
    BY DEF DeletionLabel, Staff
  <2>1. RowSigned(i)
    BY DEF Labelled, Items
  <2>2. db[i].deleter \in Deleters(i)
    BY <2>1 DEF RowSigned
  <2>3. \E u \in Deleters(i) : db[i].byAdmin <=> Staff(i, u)
    BY <2>1, <2>2 DEF RowSigned
  <2>4. ASSUME t \notin raced PROVE db[i].byAdmin <=> Staff(i, db[i].deleter)
    <3>1. t \in Threads
      BY DEF Inv, Rows, ForumTypeOK, CommentRow, Exists
    <3>2. ThreadGood(db, t)
      BY <2>4, <3>1, Tables DEF Inv, Requested, Good
    <3>3. Honest(db[i])
      BY <3>2 DEF ThreadGood, Exists
    <3>. QED BY <3>3 DEF Honest, Staff
  <2>. QED BY <2>2, <2>3, <2>4 DEF Deleters
<1>. QED BY <1>1, SupportInvariant, SupportLabelled, PTL

\* update_status: a ticket has a closing date exactly while it is resolved or
\* closed, as long as requests about it come one after the other.
THEOREM ClosingDates == Spec => []ClosedAtMatchesStatus
<1>1. Inv => ClosedAtMatchesStatus
  <2>. SUFFICES ASSUME Inv, NEW k \in Tickets \ raced, Exists(k)
                PROVE  db[k].closedAt <=> db[k].status \in Closed
    BY DEF ClosedAtMatchesStatus
  <2>. QED BY TicketKey DEF Inv, Requested, Good, TicketGood, Exists
<1>. QED BY <1>1, SupportInvariant, PTL

\* view_ticket: everybody sees what he wrote, and a requester sees all of his
\* ticket but internal notes of staff.
THEOREM NotesAreSeen == Spec => []AuthorsSeeTheirNotes
<1>1. Inv => AuthorsSeeTheirNotes
  <2>. SUFFICES ASSUME Inv, NEW n \in Notes, Exists(n)
                PROVE  /\ n \in Seen(db[n].author, db[n].ticket)
                       /\ n \notin Seen(db[db[n].ticket].requester, db[n].ticket)
                            => IsAdmin(db[n].author)
    BY DEF AuthorsSeeTheirNotes
  <2>1. /\ MaySee(db[n].author, db[n].ticket) /\ db[n] \in NoteRow
        /\ db[n].internal => IsAdmin(db[n].author)
    BY DEF Inv, Rows, TicketsTypeOK, References, Exists
  <2>2. MaySee(db[db[n].ticket].requester, db[n].ticket)
    BY DEF MaySee
  <2>. QED BY <2>1, <2>2 DEF Seen
<1>. QED BY <1>1, SupportInvariant, PTL

-----------------------------------------------------------------------------
(* What no step does. *)

\* Of a commit, what its request could ask for; every other step leaves the
\* tables alone.
LEMMA StepsCommit ==
    ASSUME Inv, [Next]_requestVars
    PROVE  \/ db' = db /\ raced \subseteq raced'
           \/ \E w \in Workers : Commit(w)
<1>1. CASE ForumNext \/ TicketsNext
  <2>1. Served
    BY <1>1, HandlersServe DEF Inv
  <2>. QED BY <2>1 DEF Served, ServeRemoval
<1>2. CASE RequestEnds
  BY <1>2 DEF RequestEnds, Rollback
<1>3. CASE UNCHANGED requestVars
  BY <1>3 DEF requestVars
<1>. QED BY <1>1, <1>2, <1>3 DEF Next

\* No request, however stale what it read, brings a deleted thread or comment
\* back.
THEOREM DeletedForGood == Spec => DeletionIsFinal
<1>1. ASSUME Inv, [Next]_requestVars, NEW i \in Threads \cup Comments, Exists(i), db[i].deleted
      PROVE  Exists(i)' /\ db'[i].deleted
  <2>1. CASE db' = db
    BY <1>1, <2>1 DEF Exists
  <2>2. ASSUME NEW w \in Workers, Commit(w) PROVE Exists(i)' /\ db'[i].deleted
    <3>1. PICK F, x : F = open[w].flush /\ x = open[w].subject
      OBVIOUS
    <3>2. Sends(F, x) /\ (\A s \in F : Fits(s)) /\ db' = Applied(db, F) /\ Rows
      BY <1>1, <2>2, <3>1 DEF Inv, Requested, WellFormed, Commit
    <3>3. CASE i \in Threads
      <4>1. db'[i] \in ThreadRow /\ db'[i].deleted
        BY <1>1, <3>2, <3>3, ThreadCommitted
      <4>. QED BY <4>1, NoneIsNoRow DEF Exists
    <3>4. CASE i \in Comments
      <4>1. db'[i] \in CommentRow /\ db'[i].deleted
        BY <1>1, <3>2, <3>4, CommentCommitted
      <4>. QED BY <4>1, NoneIsNoRow DEF Exists
    <3>. QED BY <3>3, <3>4
  <2>. QED BY <1>1, <2>1, <2>2, StepsCommit
<1>2. Inv /\ [Next]_requestVars =>
        [\A i \in Threads \cup Comments :
            Exists(i) /\ db[i].deleted => Exists(i)' /\ db'[i].deleted]_requestVars
  BY <1>1
<1>. QED BY <1>2, SupportInvariant, PTL DEF Spec, DeletionIsFinal

\* After a thread is deleted nothing happens to it any more, as long as its
\* requests come one after the other.
THEOREM DeletedStayFrozen == Spec => DeletedThreadsAreFrozen
<1>1. ASSUME Inv, [Next]_requestVars, NEW t \in Threads, t \notin raced'
      PROVE  Frozen(db, db', t)
  <2>1. CASE db' = db /\ raced \subseteq raced'
    <3>1. ThreadGood(db, t)
      BY <1>1, <2>1, Tables DEF Inv, Requested, Good
    <3>. QED BY <2>1, <3>1 DEF ThreadGood, Frozen
  <2>2. ASSUME NEW w \in Workers, Commit(w) PROVE Frozen(db, db', t)
    <3>1. PICK F, x : F = open[w].flush /\ x = open[w].subject
      OBVIOUS
    <3>2. /\ Sends(F, x) /\ (\A s \in F : Fits(s)) /\ db' = Applied(db, F) /\ Rows
          /\ x \notin raced => Leads(F, x)
          /\ raced' = raced
      BY <1>1, <2>2, <3>1 DEF Inv, Requested, WellFormed, Settled, Commit
    <3>3. CASE x = t
      BY <1>1, <3>2, <3>3 DEF Leads
    <3>4. CASE x # t
      <4>1. ThreadGood(db, t)
        BY <1>1, <3>2, Tables DEF Inv, Requested, Good
      <4>2. Same(db, db, t) /\ Same(db, db', t)
        BY <3>2, <3>4, SameElsewhere DEF Same
      <4>3. Frozen(db, db, t)
        BY <4>1 DEF ThreadGood, Frozen
      <4>. QED BY <3>2, <4>2, <4>3, FrozenSame
    <3>. QED BY <3>3, <3>4
  <2>. QED BY <1>1, <2>1, <2>2, StepsCommit
<1>2. ASSUME Inv, [Next]_requestVars, NEW t \in Threads, Exists(t), db[t].deleted, t \notin raced'
      PROVE  /\ db'[t].locked /\ ~db'[t].pinned /\ db'[t].solved = db[t].solved
             /\ \A c \in Comments : db'[<<t, c>>] = db[<<t, c>>]
             /\ \A c \in Comments : Exists(c) /\ db[c].thread = t => db'[c] = db[c]
             /\ \A c \in Comments : Exists(c)' /\ db'[c].thread = t => Exists(c)
  BY <1>1, <1>2 DEF Frozen, Exists
<1>3. Inv /\ [Next]_requestVars =>
        [\A t \in Threads :
            Exists(t) /\ db[t].deleted /\ t \notin raced' =>
                /\ db'[t].locked /\ ~db'[t].pinned /\ db'[t].solved = db[t].solved
                /\ \A c \in Comments : db'[<<t, c>>] = db[<<t, c>>]
                /\ \A c \in Comments : Exists(c) /\ db[c].thread = t => db'[c] = db[c]
                /\ \A c \in Comments : Exists(c)' /\ db'[c].thread = t => Exists(c)
        ]_requestVars
  BY <1>2
<1>. QED BY <1>3, SupportInvariant, PTL DEF Spec, DeletedThreadsAreFrozen

=============================================================================
