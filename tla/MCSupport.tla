------------------------------ MODULE MCSupport ------------------------------
(***************************************************************************)
(* Small instances of Support.  Its two parts share no row, so a behaviour *)
(* here is about one of them.  It starts with a thread of three comments,  *)
(* or with a ticket: states that requests lead to one after the other.     *)
(***************************************************************************)
EXTENDS Support, TLC

CONSTANTS u1, admin, wA, wB, t1, t2, c1, c2, c3, c4, k1, k2, n1, n2

VARIABLE area   \* the part of the site the behaviour is about

MCKeys == ForumKeys \cup TicketKeys

ForumRows ==
    [k \in MCKeys |-> CASE k = t1 -> NewThread(u1)
                        [] k \in {c1, c2} -> NewComment(u1, t1)
                        [] k = c3 -> NewComment(admin, t1)
                        [] OTHER -> None]

TicketRows == [k \in MCKeys |-> IF k = k1 THEN Opened(u1) ELSE None]

MCInit == /\ RequestInit
          /\ \/ area = "forum" /\ db = ForumRows
             \/ area = "tickets" /\ db = TicketRows

MCNext == /\ UNCHANGED area
          /\ \/ area = "forum" /\ ForumNext
             \/ area = "tickets" /\ TicketsNext
             \/ RequestEnds

MCSpec == MCInit /\ [][MCNext]_<<requestVars, area>>

Symmetry == Permutations({wA, wB}) \cup Permutations({c1, c2})
=============================================================================
