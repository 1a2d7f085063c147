-------------------------- MODULE GLExport_proofs --------------------------
(***************************************************************************)
(* Theorems about module GLExport, for every set of batches, windows and   *)
(* runs.                                                                   *)
(***************************************************************************)
EXTENDS GLExport, TLAPS

\* A run that is not idle is of some window and has signed no file yet; what it
\* has yet to visit was posted and dated in its window.
TxSound ==
    \A r \in Runs : tx[r] # Idle =>
        /\ tx[r].window \in Windows
        /\ file[r] = {}
        /\ tx[r].todo \subseteq posted \cap BatchesIn[tx[r].window]

IInv == TypeOK /\ TxSound /\ PickedIsFree /\ RecordsAgree

-----------------------------------------------------------------------------
LEMMA InitInv == Init => IInv
  BY NoneAssumption DEF Init, IInv, TypeOK, TxSound, PickedIsFree, RecordsAgree, Rebuilt, Idle

\* Posting adds a batch that no run knows of.
LEMMA PostInv ==
    ASSUME IInv, NEW b \in Batches, Post(b) PROVE IInv'
  BY DEF Post, IInv, TypeOK, TxSound, PickedIsFree, RecordsAgree, Rebuilt, Idle

LEMMA StartInv ==
    ASSUME IInv, NEW r \in Runs, NEW w \in Windows, StartExport(r, w) PROVE IInv'
  <1>1. TypeOK'
    BY DEF StartExport, Eligible, IInv, TypeOK
  <1>2. tx' = [tx EXCEPT ![r] = [window |-> w, todo |-> Eligible(w), picked |-> {}]]
        /\ UNCHANGED <<posted, package, links, file>> /\ file[r] = {}
    BY DEF StartExport
  <1>3. \A q \in Runs : tx'[q] = IF q = r
                                 THEN [window |-> w, todo |-> Eligible(w), picked |-> {}]
                                 ELSE tx[q]
    BY <1>2 DEF IInv, TypeOK
  <1>4. TxSound'
    BY <1>2, <1>3 DEF IInv, TxSound, Eligible, Idle
  <1>5. PickedIsFree'
    BY <1>2, <1>3 DEF IInv, PickedIsFree
  <1>6. RecordsAgree'
    BY <1>2 DEF IInv, RecordsAgree, Rebuilt
  <1> QED
    BY <1>1, <1>4, <1>5, <1>6 DEF IInv

\* The scan locks only a row that nobody holds and that is still unmarked.
LEMMA VisitInv ==
    ASSUME IInv, NEW r \in Runs, NEW b \in Batches, Visit(r, b) PROVE IInv'
  <1> DEFINE Now == IF Locked(b) \/ package[b] # None THEN tx[r].picked
                    ELSE tx[r].picked \cup {b}
  <1>1. /\ tx[r] \in [window : Windows \cup {None}, todo : SUBSET Batches,
                      picked : SUBSET Batches]
        /\ b \in tx[r].todo /\ tx[r] # Idle
        /\ UNCHANGED <<posted, package, links, file>>
    BY DEF Visit, IInv, TypeOK, Idle
  <1>2. \A q \in Runs : /\ tx'[q].window = tx[q].window
                        /\ tx'[q].todo = IF q = r THEN tx[r].todo \ {b} ELSE tx[q].todo
                        /\ tx'[q].picked = IF q = r THEN Now ELSE tx[q].picked
                        /\ q # r => tx'[q] = tx[q]
    BY <1>1 DEF Visit, IInv, TypeOK
  <1>3. TypeOK'
    <2>1. tx' = [tx EXCEPT ![r] = [tx[r] EXCEPT !.todo = @ \ {b}, !.picked = Now]]
      BY DEF Visit, IInv, TypeOK
    <2>2. [tx[r] EXCEPT !.todo = @ \ {b}, !.picked = Now]
             \in [window : Windows \cup {None}, todo : SUBSET Batches,
                  picked : SUBSET Batches]
      BY <1>1
    <2> QED
      BY <1>1, <2>1, <2>2 DEF IInv, TypeOK
  <1>4. TxSound'
    <2>1. /\ tx[r].window \in Windows /\ file[r] = {}
          /\ tx[r].todo \subseteq posted \cap BatchesIn[tx[r].window]
      BY <1>1 DEF IInv, TxSound
    <2> QED
      BY <1>1, <1>2, <2>1 DEF IInv, TxSound, Idle
  <1>5. PickedIsFree'
    <2>1. b \in posted \cap BatchesIn[tx[r].window]
      BY <1>1 DEF IInv, TxSound
    <2>2. b \in Now \ tx[r].picked => package[b] = None /\ \A q \in Runs : b \notin tx[q].picked
      BY DEF Locked
    <2>3. Now \subseteq tx[r].picked \cup {b}
      OBVIOUS
    <2> QED
      BY <1>1, <1>2, <2>1, <2>2, <2>3 DEF IInv, PickedIsFree
  <1>6. RecordsAgree'
    BY <1>1 DEF IInv, RecordsAgree, Rebuilt
  <1> QED
    BY <1>3, <1>4, <1>5, <1>6 DEF IInv

\* The run's batches were unmarked, so marking them adds exactly its links.
LEMMA CommitInv ==
    ASSUME IInv, NEW r \in Runs, Commit(r) PROVE IInv'
  <1> DEFINE B == tx[r].picked
  <1>1. /\ B # {} /\ B \subseteq Batches
        /\ package' = [b \in Batches |-> IF b \in B THEN r ELSE package[b]]
        /\ links' = links \cup ({r} \X B)
        /\ file' = [file EXCEPT ![r] = B]
        /\ posted' = posted
        /\ tx' = [tx EXCEPT ![r] = Idle]
    BY DEF Commit, IInv, TypeOK
  <1>2. \A q \in Runs : tx'[q] = IF q = r THEN Idle ELSE tx[q]
    BY <1>1 DEF IInv, TypeOK
  <1>3. \A b \in B : package[b] = None /\ \A q \in Runs \ {r} : b \notin tx[q].picked
    BY DEF IInv, PickedIsFree
  <1>4. file[r] = {}
    BY <1>1 DEF IInv, TxSound, Idle
  <1>5. TypeOK'
    BY <1>1 DEF IInv, TypeOK, Idle
  <1>6. TxSound'
    BY <1>1, <1>2 DEF IInv, TxSound
  <1>7. PickedIsFree'
    BY <1>1, <1>2, <1>3 DEF IInv, TypeOK, PickedIsFree, Idle
  <1>8. RecordsAgree'
    <2>1. Rebuilt(r)' = B /\ file'[r] = B /\ {b \in Batches : package'[b] = r} = B
      BY <1>1, <1>4 DEF IInv, TypeOK, RecordsAgree, Rebuilt
    <2>2. ASSUME NEW q \in Runs \ {r}
          PROVE  /\ Rebuilt(q)' = Rebuilt(q) /\ file'[q] = file[q]
                 /\ {b \in Batches : package'[b] = q} = {b \in Batches : package[b] = q}
      BY <1>1, <1>3, NoneAssumption DEF IInv, TypeOK, Rebuilt
    <2> QED
      BY <2>1, <2>2 DEF IInv, RecordsAgree, Rebuilt
  <1> QED
    BY <1>5, <1>6, <1>7, <1>8 DEF IInv

\* A noop or a failed run only drops its locks.
LEMMA EndInv ==
    ASSUME IInv, NEW r \in Runs, Noop(r) \/ Fail(r) PROVE IInv'
  <1>1. tx' = [tx EXCEPT ![r] = Idle] /\ UNCHANGED <<posted, package, links, file>>
    BY DEF Noop, Fail
  <1>2. \A q \in Runs : tx'[q] = IF q = r THEN Idle ELSE tx[q]
    BY <1>1 DEF IInv, TypeOK
  <1>3. TypeOK'
    BY <1>1 DEF IInv, TypeOK, Idle
  <1>4. TxSound'
    BY <1>1, <1>2 DEF IInv, TxSound
  <1>5. PickedIsFree'
    BY <1>1, <1>2 DEF IInv, PickedIsFree, Idle
  <1>6. RecordsAgree'
    BY <1>1 DEF IInv, RecordsAgree, Rebuilt
  <1> QED
    BY <1>3, <1>4, <1>5, <1>6 DEF IInv

LEMMA NextInv == IInv /\ [Next]_vars => IInv'
  <1> SUFFICES ASSUME IInv, [Next]_vars PROVE IInv'
    OBVIOUS
  <1>1. CASE \E b \in Batches : Post(b)
    BY <1>1, PostInv
  <1>2. CASE \E r \in Runs, w \in Windows : StartExport(r, w)
    BY <1>2, StartInv
  <1>3. CASE \E r \in Runs : Step(r) \/ Fail(r)
    BY <1>3, VisitInv, CommitInv, EndInv DEF Step
  <1>4. CASE UNCHANGED vars
    BY <1>4 DEF vars, IInv, TypeOK, TxSound, PickedIsFree, RecordsAgree, Rebuilt
  <1> QED
    BY <1>1, <1>2, <1>3, <1>4 DEF Next

\* The tables and transactions keep their shape, and the records of every
\* export agree, however runs overlap and fail.
THEOREM ExportInvariant == Spec => []IInv
  BY InitInv, NextInv, PTL DEF Spec

\* run_formal_gl_export keeps every row of gl_export_runs and of
\* gl_export_run_batches, every mark of a batch, and its own state of its type.
THEOREM TypeCorrect == Spec => []TypeOK
  <1>1. IInv => TypeOK
    BY DEF IInv
  <1> QED
    BY <1>1, ExportInvariant, PTL

\* The signed file of a run, its links and its marks agree for ever, so no
\* batch is ever in the files of two runs.
THEOREM HandedOverOnce == Spec => []RecordsAgree
  <1>1. IInv => RecordsAgree
    BY DEF IInv
  <1> QED
    BY <1>1, ExportInvariant, PTL

\* What an export has locked is unmarked and nobody else's until it commits.
THEOREM PickedStaysFree == Spec => []PickedIsFree
  <1>1. IInv => PickedIsFree
    BY DEF IInv
  <1> QED
    BY <1>1, ExportInvariant, PTL

-----------------------------------------------------------------------------
LEMMA RefinedInit == Init => Promise!Init
  BY DEF Init, Promise!Init

\* A commit hands over what was picked; every other step but Post stutters.
LEMMA RefinedStep == IInv /\ [Next]_vars => [Promise!Next]_<<posted, package>>
  <1> SUFFICES ASSUME IInv, [Next]_vars PROVE [Promise!Next]_<<posted, package>>
    OBVIOUS
  <1>1. ASSUME NEW b \in Batches, Post(b) PROVE Promise!Next
    BY <1>1 DEF Post, Promise!Next, Promise!Post
  <1>2. ASSUME NEW r \in Runs, Commit(r) PROVE Promise!Next
    <2> DEFINE B == tx[r].picked
    <2>1. /\ B # {} /\ B \in SUBSET Batches /\ tx[r] # Idle
          /\ package' = [b \in Batches |-> IF b \in B THEN r ELSE package[b]]
          /\ posted' = posted
      BY <1>2 DEF Commit, IInv, TypeOK, Idle
    <2>2. tx[r].window \in Windows /\ file[r] = {}
      BY <2>1 DEF IInv, TxSound
    <2>3. \A b \in B : b \in posted \cap BatchesIn[tx[r].window] /\ package[b] = None
      BY DEF IInv, PickedIsFree
    <2>4. \A b \in Batches : package[b] # r
      BY <2>2 DEF IInv, RecordsAgree, Rebuilt
    <2>5. Promise!HandOver(r, tx[r].window, B)
      BY <2>1, <2>3, <2>4 DEF Promise!HandOver
    <2> QED
      BY <2>1, <2>2, <2>5 DEF Promise!Next
  <1>3. CASE UNCHANGED <<posted, package>>
    BY <1>3
  <1>4. ASSUME NEW r \in Runs, Noop(r) \/ Fail(r) \/ (\E b \in Batches : Visit(r, b))
        PROVE UNCHANGED <<posted, package>>
    BY <1>4 DEF Noop, Fail, Visit
  <1>5. ASSUME NEW r \in Runs, NEW w \in Windows, StartExport(r, w)
        PROVE UNCHANGED <<posted, package>>
    BY <1>5 DEF StartExport
  <1>6. CASE UNCHANGED vars
    BY <1>6 DEF vars
  <1> QED
    BY <1>1, <1>2, <1>3, <1>4, <1>5, <1>6 DEF Next, Step

\* Overlapping exports with skipped locks implement the one-step handover.
THEOREM HandoverHolds == Spec => ImplementsHandover
  <1>1. ImplementsHandover <=> Promise!Init /\ [][Promise!Next]_<<posted, package>>
    BY DEF ImplementsHandover, Promise!Spec
  <1> QED
    BY <1>1, RefinedInit, RefinedStep, ExportInvariant, PTL DEF Spec
=============================================================================
