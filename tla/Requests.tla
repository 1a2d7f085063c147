------------------------------- MODULE Requests -------------------------------
(***************************************************************************)
(* A request of the web application that changes rows, as session_scope    *)
(* and SQLAlchemy carry it out.  The handler loads rows, decides, and      *)
(* assigns to their attributes; only when it returns does the session send *)
(* its statements (autoflush is off) and commit.  An UPDATE names the      *)
(* columns whose values have changed since they were loaded, and no        *)
(* others; loading takes no lock.  So two requests may decide on the same  *)
(* row and each write a part of it.                                        *)
(*                                                                         *)
(* The reads of one handler are one step here.  A request that a guard     *)
(* refuses changes nothing and is no step.                                 *)
(***************************************************************************)
EXTENDS Integers, FiniteSets

CONSTANTS Users, Admins,
          Workers,       \* requests served at the same time
          Keys,          \* the keys rows may have, of all the tables
          MaxRequests,   \* bound on the requests of a behaviour
          None

ASSUME UserAssumption == Admins \subseteq Users /\ None \notin Users
ASSUME RequestAssumption == /\ MaxRequests \in Nat /\ None \notin Keys
                            /\ IsFiniteSet(Workers) /\ Workers # {}

VARIABLES db,      \* the committed row of each key, or None
          open,    \* the request each worker serves, or Idle
          served,  \* the requests taken on so far
          raced,   \* history: the subjects of requests that overlapped
          removed  \* history: <<row, user>> for the rows users have deleted softly

requestVars == <<db, open, served, raced, removed>>

-----------------------------------------------------------------------------
\* A worker without a request.
Idle == [subject |-> None, flush |-> {}, removes |-> {}]

IsAdmin(u) == u \in Admins

Exists(k) == db[k] # None

\* A key is drawn from a sequence, so no two requests insert the same.
Fresh(k) == ~Exists(k) /\ \A w \in Workers : \A s \in open[w].flush : s.key # k

Insert(k, row) == {[kind |-> "insert", key |-> k, cols |-> row]}

Delete(k) == {[kind |-> "delete", key |-> k, cols |-> << >>]}

\* Mutant of Update: the whole row is written back.
UpdateRow(k, new, stamped) ==
    {[kind |-> "update", key |-> k,
      cols |-> [c \in DOMAIN db[k] |-> IF c \in DOMAIN new THEN new[c] ELSE db[k][c]]]}

\* The statement for attributes assigned to the loaded row k, if any; a time
\* stamp always differs from the loaded one.
Update(k, new, stamped) ==
    LET dirty == {c \in DOMAIN new : c \in stamped \/ new[c] # db[k][c]} IN
    IF dirty = {} THEN {}
    ELSE {[kind |-> "update", key |-> k, cols |-> [c \in dirty |-> new[c]]]}

\* A handler has come to its end with these statements to send; removes says
\* whose deletion of which row it is, if it is one.
ServeRemoval(w, subject, flush, removes) ==
    /\ open[w] = Idle /\ served < MaxRequests
    /\ open' = [open EXCEPT ![w] = [subject |-> subject, flush |-> flush,
                                   removes |-> removes]]
    /\ served' = served + 1
    /\ raced' = IF \E v \in Workers : open[v].subject = subject
                THEN raced \cup {subject} ELSE raced
    /\ UNCHANGED <<db, removed>>

Serve(w, subject, flush) == ServeRemoval(w, subject, flush, {})

\* An INSERT of a key that exists violates the unique key; an UPDATE of a row
\* that is gone raises StaleDataError; a DELETE of one is only a warning.
Fits(s) == CASE s.kind = "insert" -> ~Exists(s.key)
             [] s.kind = "update" -> Exists(s.key)
             [] s.kind = "delete" -> TRUE

\* What a statement makes of a row.
Result(row, s) ==
    CASE s.kind = "insert" -> s.cols
      [] s.kind = "update" -> [c \in DOMAIN row |->
                                  IF c \in DOMAIN s.cols THEN s.cols[c] ELSE row[c]]
      [] s.kind = "delete" -> None

\* What a flush makes of the tables.
Applied(tables, flush) ==
    [k \in Keys |-> IF \E s \in flush : s.key = k
                    THEN Result(tables[k], CHOOSE s \in flush : s.key = k)
                    ELSE tables[k]]

\* session_scope commits: all the statements, or none.
Commit(w) ==
    /\ open[w] # Idle /\ \A s \in open[w].flush : Fits(s)
    /\ db' = Applied(db, open[w].flush)
    /\ removed' = removed \cup open[w].removes
    /\ open' = [open EXCEPT ![w] = Idle]
    /\ UNCHANGED <<served, raced>>

\* It rolls back, after a statement that does not fit or any other error.
Rollback(w) ==
    /\ open[w] # Idle
    /\ open' = [open EXCEPT ![w] = Idle]
    /\ UNCHANGED <<db, served, raced, removed>>

RequestInit == /\ open = [w \in Workers |-> Idle]
               /\ served = 0
               /\ raced = {} /\ removed = {}

RequestEnds == \E w \in Workers : Commit(w) \/ Rollback(w)
=============================================================================
