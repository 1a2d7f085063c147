-------------------------------- MODULE Forum --------------------------------
(***************************************************************************)
(* The forum of controllers/forum.py: threads that are locked, pinned,     *)
(* solved and soft-deleted, their comments, the comments marked as         *)
(* solutions, and votes.  Every action here is a handler up to its last    *)
(* statement; Commit and Rollback of Requests end it.  Replies point to a  *)
(* parent comment that nothing here reads; it is left out, like texts and  *)
(* dates, and like the audit entry each handler writes in a transaction of *)
(* its own (module AuditChain).                                            *)
(***************************************************************************)
EXTENDS Requests

CONSTANTS Threads, Comments,
          Voters,         \* the users whose votes are looked at
          MaxSolutions    \* 3 in the code

Solutions == Threads \X Comments            \* uq_solution_thread_comment
Votes == (Threads \cup Comments) \X Voters  \* uq_thread_vote_user, uq_comment_vote_user
ForumKeys == Threads \cup Comments \cup Solutions \cup Votes

ASSUME ForumAssumption ==
    /\ ForumKeys \subseteq Keys /\ Voters \subseteq Users
    /\ Threads \cap Comments = {} /\ (Threads \cup Comments) \cap (Solutions \cup Votes) = {}
    /\ Solutions \cap Votes = {}
    /\ MaxSolutions \in Nat

-----------------------------------------------------------------------------
NewThread(u) == [author |-> u, locked |-> FALSE, pinned |-> FALSE, solved |-> FALSE,
                 deleted |-> FALSE, byAdmin |-> FALSE, deleter |-> None]

NewComment(u, t) == [author |-> u, thread |-> t,
                     deleted |-> FALSE, byAdmin |-> FALSE, deleter |-> None]

Marked(t) == {c \in Comments : Exists(<<t, c>>)}

ThreadNew(w, u, t) == Fresh(t) /\ Serve(w, t, Insert(t, NewThread(u)))

ThreadLock(w, u, t) ==
    /\ IsAdmin(u) /\ Exists(t)
    /\ Serve(w, t, Update(t, [locked |-> TRUE], {}))

ThreadUnlock(w, u, t) ==
    /\ IsAdmin(u) /\ Exists(t) /\ ~db[t].deleted
    /\ Serve(w, t, Update(t, [locked |-> FALSE], {}))

ThreadPin(w, u, t) ==
    /\ IsAdmin(u) /\ Exists(t) /\ ~db[t].deleted
    /\ Serve(w, t, Update(t, [pinned |-> TRUE], {}))

ThreadUnpin(w, u, t) ==
    /\ IsAdmin(u) /\ Exists(t)
    /\ Serve(w, t, Update(t, [pinned |-> FALSE], {}))

\* Mutant of ThreadDelete: a deleted thread is not locked.
ThreadDeleteUnlocked(w, u, t) ==
    LET owner == u = db[t].author
        new == [deleted |-> TRUE, byAdmin |-> IsAdmin(u) /\ ~owner, deleter |-> u,
                pinned |-> FALSE]
    IN  /\ Exists(t)
        /\ IsAdmin(u) \/ (owner /\ ~db[t].locked)
        /\ ServeRemoval(w, t, Update(t, new, {}), {<<t, u>>})

\* Mutant of ThreadDelete: the role decides the label.
ThreadDeleteByRole(w, u, t) ==
    LET owner == u = db[t].author
        new == [deleted |-> TRUE, byAdmin |-> IsAdmin(u), deleter |-> u,
                locked |-> TRUE, pinned |-> FALSE]
    IN  /\ Exists(t)
        /\ IsAdmin(u) \/ (owner /\ ~db[t].locked)
        /\ ServeRemoval(w, t, Update(t, new, {}), {<<t, u>>})

\* A locked thread is deleted by administrators only; one that is deleted
\* already may be deleted again.
ThreadDelete(w, u, t) ==
    LET owner == u = db[t].author
        new == [deleted |-> TRUE, byAdmin |-> IsAdmin(u) /\ ~owner, deleter |-> u,
                locked |-> TRUE, pinned |-> FALSE]
    IN  /\ Exists(t)
        /\ IsAdmin(u) \/ (owner /\ ~db[t].locked)
        /\ ServeRemoval(w, t, Update(t, new, {}), {<<t, u>>})

CommentCreate(w, u, t, c) ==
    /\ Exists(t) /\ ~db[t].locked /\ Fresh(c)
    /\ Serve(w, t, Insert(c, NewComment(u, t)))

CommentDelete(w, u, c) ==
    LET t == db[c].thread
        owner == u = db[c].author
        new == [deleted |-> TRUE, byAdmin |-> IsAdmin(u) /\ ~owner, deleter |-> u]
    IN  /\ Exists(c) /\ ~db[t].locked
        /\ IsAdmin(u) \/ owner
        /\ ServeRemoval(w, t, Update(c, new, {}), {<<c, u>>})

\* Mutant of MarkSolution: one too many.
MarkOneMore(w, u, t, c) ==
    /\ Exists(t) /\ u = db[t].author /\ ~db[t].deleted /\ ~db[t].locked
    /\ Exists(c) /\ db[c].thread = t /\ ~db[c].deleted
    /\ Cardinality(Marked(t)) <= MaxSolutions
    /\ Serve(w, t, (IF c \in Marked(t) THEN {} ELSE Insert(<<t, c>>, [creator |-> u]))
                   \cup Update(t, [solved |-> TRUE], {}))

\* Mutant of MarkSolution: the comment may be of another thread.
MarkAnyComment(w, u, t, c) ==
    /\ Exists(t) /\ u = db[t].author /\ ~db[t].deleted /\ ~db[t].locked
    /\ Exists(c) /\ ~db[c].deleted
    /\ Cardinality(Marked(t)) < MaxSolutions
    /\ Serve(w, t, (IF c \in Marked(t) THEN {} ELSE Insert(<<t, c>>, [creator |-> u]))
                   \cup Update(t, [solved |-> TRUE], {}))

\* The limit is asked before whether the comment is marked already.
MarkSolution(w, u, t, c) ==
    /\ Exists(t) /\ u = db[t].author /\ ~db[t].deleted /\ ~db[t].locked
    /\ Exists(c) /\ db[c].thread = t /\ ~db[c].deleted
    /\ Cardinality(Marked(t)) < MaxSolutions
    /\ Serve(w, t, (IF c \in Marked(t) THEN {} ELSE Insert(<<t, c>>, [creator |-> u]))
                   \cup Update(t, [solved |-> TRUE], {}))

\* Mutant of UnmarkSolution: any removal makes the thread unsolved.
UnmarkAll(w, u, t, c) ==
    /\ Exists(t) /\ u = db[t].author /\ ~db[t].deleted /\ ~db[t].locked
    /\ Serve(w, t, (IF c \in Marked(t) THEN Delete(<<t, c>>) ELSE {})
                   \cup Update(t, [solved |-> FALSE], {}))

\* The solutions left are counted before the DELETE is sent, so removing the
\* last one does not make the thread unsolved; removing it again does.
UnmarkSolution(w, u, t, c) ==
    /\ Exists(t) /\ u = db[t].author /\ ~db[t].deleted /\ ~db[t].locked
    /\ Serve(w, t, (IF c \in Marked(t) THEN Delete(<<t, c>>) ELSE {})
                   \cup (IF Marked(t) = {} THEN Update(t, [solved |-> FALSE], {}) ELSE {}))

\* A vote on a thread or a comment; 0 takes it back.
Vote(w, u, i, v) ==
    LET k == <<i, u>> IN
    /\ Exists(i) /\ ~db[i].deleted
    /\ Serve(w, k, IF v = 0 THEN (IF Exists(k) THEN Delete(k) ELSE {})
                   ELSE IF Exists(k) THEN Update(k, [value |-> v], {})
                   ELSE Insert(k, [value |-> v]))

ForumNext ==
    \E w \in Workers :
        \/ \E u \in Users, t \in Threads :
              \/ ThreadNew(w, u, t)
              \/ ThreadLock(w, u, t) \/ ThreadUnlock(w, u, t)
              \/ ThreadPin(w, u, t) \/ ThreadUnpin(w, u, t)
              \/ ThreadDelete(w, u, t)
              \/ \E c \in Comments : \/ CommentCreate(w, u, t, c)
                                     \/ MarkSolution(w, u, t, c)
                                     \/ UnmarkSolution(w, u, t, c)
        \/ \E u \in Users, c \in Comments : CommentDelete(w, u, c)
        \/ \E u \in Voters, i \in Threads \cup Comments, v \in {-1, 0, 1} : Vote(w, u, i, v)

-----------------------------------------------------------------------------
ThreadRow == [author : Users, locked : BOOLEAN, pinned : BOOLEAN, solved : BOOLEAN,
              deleted : BOOLEAN, byAdmin : BOOLEAN, deleter : Users \cup {None}]

CommentRow == [author : Users, thread : Threads,
               deleted : BOOLEAN, byAdmin : BOOLEAN, deleter : Users \cup {None}]

VoteRow == [value : {-1, 1}]

ASSUME ForumRowAssumption ==
    None \notin ThreadRow \cup CommentRow \cup VoteRow \cup [creator : Users]

\* The rows of the forum, as models/schema.py declares them; a solution is a
\* comment of its thread (no key of the database says so).
ForumTypeOK ==
    /\ \A t \in Threads : db[t] \in ThreadRow \cup {None}
    /\ \A c \in Comments : db[c] \in CommentRow \cup {None}
    /\ \A p \in Solutions : Exists(p) => /\ db[p] = [creator |-> db[p[1]].author]
                                         /\ db[p[2]].thread = p[1]
    /\ \A k \in Votes : db[k] \in VoteRow \cup {None}

\* A thread has at most MaxSolutions solutions, and where the author's
\* requests overlap at most one more for every further request.
SolutionsBounded ==
    \A t \in Threads :
        Cardinality(Marked(t)) <= IF t \in raced THEN MaxSolutions - 1 + Cardinality(Workers)
                                  ELSE MaxSolutions

\* A thread with a solution is shown as solved, unless its author's requests
\* overlap.  (A solved thread may have none left: see UnmarkSolution.)
SolutionMeansSolved ==
    \A t \in Threads \ raced : Exists(t) /\ Marked(t) # {} => db[t].solved

\* However requests overlap, the name kept beside a deleted thread or comment
\* is of someone whose deletion was carried out, and what the page says of it,
\* "removed by an admin" or "deleted", is true of one such user: so it is true
\* where one user alone has deleted it.  If requests about the thread have not
\* overlapped it is true of the one who is named; if they have, the label of
\* one deletion may stand beside the name of another.
DeletionLabel ==
    \A i \in Threads \cup Comments : Exists(i) /\ db[i].deleted =>
        LET subject == IF i \in Threads THEN i ELSE db[i].thread
            LabelOf(u) == db[i].byAdmin <=> IsAdmin(u) /\ u # db[i].author
        IN  /\ <<i, db[i].deleter>> \in removed
            /\ \E u \in Users : <<i, u>> \in removed /\ LabelOf(u)
            /\ subject \notin raced => LabelOf(db[i].deleter)

\* No stale request brings a deleted thread or comment back.
DeletionIsFinal ==
    [][\A i \in Threads \cup Comments :
          Exists(i) /\ db[i].deleted => Exists(i)' /\ db'[i].deleted]_requestVars

\* Nothing happens to a deleted thread any more: no comment, no solution, no
\* pin.  CommentCreate and CommentDelete ask only whether the thread
\* is locked, so this needs the lock that ThreadDelete leaves and ThreadUnlock
\* respects; overlapping requests lose it.
DeletedThreadsAreFrozen ==
    [][\A t \in Threads :
          Exists(t) /\ db[t].deleted /\ t \notin raced' =>
              /\ db'[t].locked /\ ~db'[t].pinned /\ db'[t].solved = db[t].solved
              /\ \A c \in Comments : db'[<<t, c>>] = db[<<t, c>>]
              /\ \A c \in Comments : Exists(c) /\ db[c].thread = t => db'[c] = db[c]
              /\ \A c \in Comments : Exists(c)' /\ db'[c].thread = t => Exists(c)
      ]_requestVars
=============================================================================
