------------------------------- MODULE Support -------------------------------
(***************************************************************************)
(* The part of the site where users and administrators talk: the forum and *)
(* the help desk, served by the same workers over the same database, which *)
(* starts with empty tables.                                               *)
(***************************************************************************)
EXTENDS Forum, Tickets

ASSUME TablesAssumption == ForumKeys \cap TicketKeys = {}

Init == db = [k \in Keys |-> None] /\ RequestInit

Next == ForumNext \/ TicketsNext \/ RequestEnds

Spec == Init /\ [][Next]_requestVars

\* The rows of both parts of the site are well formed.
TypeOK == ForumTypeOK /\ TicketsTypeOK
=============================================================================
