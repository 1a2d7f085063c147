------------------------------ MODULE GLExport ------------------------------
(***************************************************************************)
(* The formal export of the posted ledger, run_formal_gl_export of         *)
(* services/accounting_export.py, while other exports run and batches are  *)
(* being posted.                                                           *)
(*                                                                         *)
(* A run is one transaction.  Its SELECT ... FOR UPDATE SKIP LOCKED takes  *)
(* the rows one after the other: a row that another run has locked is left *)
(* out, and PostgreSQL asks again for a row whether it still qualifies     *)
(* once the lock is there.  A run that fails leaves nothing behind.        *)
(***************************************************************************)
CONSTANTS Batches,     \* batches with lines, of an exported kind (accrual,
                       \* issue, payment, impairment)
          Windows,     \* the windows [start, end] administrators ask for
          BatchesIn,   \* the batches with a line dated in a window
          Runs,        \* gl_export_runs.id, a sequence
          None

ASSUME WindowAssumption == BatchesIn \in [Windows -> SUBSET Batches]
ASSUME NoneAssumption == None \notin Runs \cup Windows

VARIABLES posted,     \* the batches in the ledger
          package,    \* gl_batches.export_run_id (exported_at is set with it)
          links,      \* rows of gl_export_run_batches, <<run_id, batch_id>>
          file,       \* the batches in the file each run has signed, {}
                      \* before its success (gl_export_runs.file_sha256)
          tx          \* the open transaction of each run

vars == <<posted, package, links, file, tx>>

-----------------------------------------------------------------------------
\* todo: the rows the scan has yet to visit; picked: those it has locked.
Idle == [window |-> None, todo |-> {}, picked |-> {}]

Eligible(w) == {b \in posted \cap BatchesIn[w] : package[b] = None}

\* Mutant of Locked: the SELECT does not lock.
NeverLocked(b) == FALSE

Locked(b) == \E q \in Runs : b \in tx[q].picked

Init == /\ posted = {}
        /\ package = [b \in Batches |-> None]
        /\ links = {}
        /\ file = [r \in Runs |-> {}]
        /\ tx = [r \in Runs |-> Idle]

\* A posting function commits a batch (module BillingGL).
Post(b) == /\ b \notin posted
           /\ posted' = posted \cup {b}
           /\ UNCHANGED <<package, links, file, tx>>

\* The run row is inserted and the SELECT takes its snapshot.
StartExport(r, w) ==
    /\ tx[r] = Idle /\ file[r] = {}
    /\ tx' = [tx EXCEPT ![r] = [window |-> w, todo |-> Eligible(w), picked |-> {}]]
    /\ UNCHANGED <<posted, package, links, file>>

\* Mutant of Visit: the lock is taken without asking again.
VisitOnce(r, b) ==
    /\ b \in tx[r].todo
    /\ tx' = [tx EXCEPT ![r].todo = @ \ {b},
                        ![r].picked = IF Locked(b) THEN @ ELSE @ \cup {b}]
    /\ UNCHANGED <<posted, package, links, file>>

\* The SELECT comes to row b.
Visit(r, b) ==
    /\ b \in tx[r].todo
    /\ tx' = [tx EXCEPT ![r].todo = @ \ {b},
                        ![r].picked = IF Locked(b) \/ package[b] # None
                                      THEN @ ELSE @ \cup {b}]
    /\ UNCHANGED <<posted, package, links, file>>

\* Mutant of Commit: the batches are marked with the criteria, not the run.
CommitWindow(r) ==
    LET B == tx[r].picked IN
    /\ tx[r].todo = {} /\ B # {}
    /\ package' = [b \in Batches |-> IF b \in B THEN tx[r].window ELSE package[b]]
    /\ links' = links \cup ({r} \X B)
    /\ file' = [file EXCEPT ![r] = B]
    /\ tx' = [tx EXCEPT ![r] = Idle]
    /\ UNCHANGED posted

\* Mutant of Commit: the batches are linked but not marked.
CommitUnmarked(r) ==
    LET B == tx[r].picked IN
    /\ tx[r].todo = {} /\ B # {}
    /\ links' = links \cup ({r} \X B)
    /\ file' = [file EXCEPT ![r] = B]
    /\ tx' = [tx EXCEPT ![r] = Idle]
    /\ UNCHANGED <<posted, package>>

\* The file is built from the locked batches; they are linked to the run and
\* marked, and the run becomes a success.
Commit(r) ==
    LET B == tx[r].picked IN
    /\ tx[r].todo = {} /\ B # {}
    /\ package' = [b \in Batches |-> IF b \in B THEN r ELSE package[b]]
    /\ links' = links \cup ({r} \X B)
    /\ file' = [file EXCEPT ![r] = B]
    /\ tx' = [tx EXCEPT ![r] = Idle]
    /\ UNCHANGED posted

\* With no batch the run ends as a noop.  (Its row refers to nothing, so the
\* model uses its number again.)
Noop(r) ==
    /\ tx[r].window # None /\ tx[r].todo = {} /\ tx[r].picked = {}
    /\ tx' = [tx EXCEPT ![r] = Idle]
    /\ UNCHANGED <<posted, package, links, file>>

\* Any error, or the death of the process, before the commit: all of it,
\* the run row included, rolls back.
Fail(r) ==
    /\ tx[r] # Idle
    /\ tx' = [tx EXCEPT ![r] = Idle]
    /\ UNCHANGED <<posted, package, links, file>>

Step(r) == (\E b \in Batches : Visit(r, b)) \/ Commit(r) \/ Noop(r)

Next == \/ \E b \in Batches : Post(b)
        \/ \E r \in Runs, w \in Windows : StartExport(r, w)
        \/ \E r \in Runs : Step(r) \/ Fail(r)

Spec == Init /\ [][Next]_vars

\* Exports of every window are asked for again and again, those started run
\* on, and failures end some day.
FairSpec == /\ Spec
            /\ \A r \in Runs : WF_vars(Step(r))
            /\ \A w \in Windows : SF_vars(\E r \in Runs : StartExport(r, w))
            /\ <>[][\A r \in Runs : ~Fail(r)]_vars

-----------------------------------------------------------------------------
\* The shape of the tables (models/gl.py) and of a run's transaction.
TypeOK == /\ posted \subseteq Batches
          /\ package \in [Batches -> Runs \cup {None}]
          /\ links \in SUBSET (Runs \X Batches)
          /\ file \in [Runs -> SUBSET Batches]
          /\ tx \in [Runs -> [window : Windows \cup {None}, todo : SUBSET Batches,
                              picked : SUBSET Batches]]

\* redownload_export_run builds the file anew from the links.
Rebuilt(r) == {b \in Batches : <<r, b>> \in links}

\* The three records of an export agree: the file a run has signed, the file
\* rebuilt from its links, and the batches marked with it.  So a batch is in
\* the file of at most one run, although runs overlap and choose from old
\* snapshots, and a signed file can always be had again.
RecordsAgree ==
    \A r \in Runs : /\ Rebuilt(r) = file[r]
                    /\ Rebuilt(r) = {b \in Batches : package[b] = r}

\* What a run has locked is still there for it when it commits.
PickedIsFree ==
    \A r, q \in Runs : \A b \in tx[r].picked :
        /\ b \in posted \cap BatchesIn[tx[r].window] /\ package[b] = None
        /\ q # r => b \notin tx[q].picked

\* Every batch that some window covers is handed over in the end, although a
\* run leaves out what another, perhaps failing, run has locked.
EveryBatchHandedOver ==
    \A w \in Windows : \A b \in BatchesIn[w] : b \in posted ~> package[b] # None

\* Overlapping runs with their scans do what Handover promises.
Promise == INSTANCE Handover
ImplementsHandover == Promise!Spec
=============================================================================
