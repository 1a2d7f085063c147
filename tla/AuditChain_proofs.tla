-------------------------- MODULE AuditChain_proofs --------------------------
(***************************************************************************)
(* Theorems of AuditChain: its types, and what verify_chain finds in a log *)
(* of any length that any number of writers have written.                  *)
(***************************************************************************)
EXTENDS AuditChain, TLAPS, WellFoundedInduction, SequenceTheorems, FiniteSetTheorems

-----------------------------------------------------------------------------
(* Sets of numbers.                                                         *)

\* A set of natural numbers has a least member.
LEMMA LeastMember ==
    ASSUME NEW S \in SUBSET Nat, S # {}
    PROVE  \E n \in S : \A m \in S : n <= m
<1>1. PICK n \in S : \A m \in S : ~ (<<m, n>> \in OpToRel(<, Nat))
  BY NatLessThanWellFounded, WFMin
<1>2. \A m \in S : ~ (m < n)
  BY <1>1 DEF OpToRel
<1> QED BY <1>2

\* A bounded one has a greatest member, which Latest chooses.
LEMMA LatestIsLast ==
    ASSUME NEW n \in Nat, NEW S \in SUBSET (0 .. n), S # {}
    PROVE  Latest(S) \in S /\ \A m \in S : m <= Latest(S)
<1> DEFINE T == {k \in 0 .. n : n - k \in S}
<1>1. PICK m \in S : TRUE
  OBVIOUS
<1>2. n - m \in T
  BY <1>1
<1>3. PICK k \in T : \A l \in T : k <= l
  <2>1. T \in SUBSET Nat /\ T # {}
    BY <1>2
  <2> QED BY <2>1, LeastMember
<1>4. n - k \in S /\ \A l \in S : n - l \in T
  BY <1>3
<1>5. \A l \in S : l <= n - k
  BY <1>3, <1>4
<1>6. \E i \in S : \A j \in S : j <= i
  BY <1>4, <1>5
<1> QED BY <1>6 DEF Latest

-----------------------------------------------------------------------------
(* Types.                                                                   *)

LEMMA EntryType ==
    ASSUME NEW e \in Events, NEW c \in Configs, NEW prev \in Seq(Payloads)
    PROVE  /\ Entry(e, c, prev) \in Rows
           /\ Entry(e, c, prev).event = e /\ Entry(e, c, prev).prev = prev
           /\ Entry(e, c, prev).hash
                = ComputeHash(Entry(e, c, prev).prev, Payload(Entry(e, c, prev)))
           /\ Entry(e, c, prev).sig[2] = Entry(e, c, prev).hash
<1>1. c.kid \in KeyIds /\ c.secret \in Secrets
  BY ConfigAssumption
<1>2. <<e, c.kid>> \in Payloads
  BY <1>1 DEF Payloads
<1>3. Append(prev, <<e, c.kid>>) \in Seq(Payloads)
  BY <1>2
<1> QED BY <1>1, <1>3 DEF Entry, Rows, ComputeHash, Payload

\* The rows that are there have ids below nextId, so there is a latest one.
LEMMA LatestRow ==
    ASSUME TypeOK, NEW S \in SUBSET DOMAIN log, S # {}
    PROVE  Latest(S) \in S /\ \A m \in S : m <= Latest(S)
<1>1. \A i \in S : i \in Nat /\ i < nextId
  BY IdAssumption DEF TypeOK
<1>2. nextId \in Nat
  BY DEF TypeOK
<1>3. S \in SUBSET (0 .. nextId)
  BY <1>1, <1>2
<1> QED BY <1>2, <1>3, LatestIsLast

LEMMA HashOfType ==
    ASSUME TypeOK, NEW S \in SUBSET DOMAIN log
    PROVE  HashOf(S) \in Seq(Payloads)
<1>1. S # {} => Latest(S) \in DOMAIN log
  BY LatestRow
<1> QED BY <1>1 DEF TypeOK, Rows, HashOf, Empty

LEMMA TypeInit == Init => TypeOK
<1> SUFFICES ASSUME Init PROVE TypeOK
  OBVIOUS
<1>1. DOMAIN log = {}
  BY DEF Init
<1>2. \A w \in Writers : tx[w] = NoTx
  BY DEF Init
<1>3. DOMAIN tx = Writers /\ nextId \in Nat \ {0} /\ config \in Configs /\ written = {}
  BY DEF Init
<1>4. edits \in 0 .. MaxEdits
  BY IdAssumption DEF Init
<1>5. overlapped \in BOOLEAN
  BY DEF Init
<1> QED BY <1>1, <1>2, <1>3, <1>4, <1>5 DEF TypeOK

LEMMA TypeNext == TypeOK /\ [Next]_vars => TypeOK'
<1> SUFFICES ASSUME TypeOK, [Next]_vars PROVE TypeOK'
  OBVIOUS
<1> USE IdAssumption
<1>1. ASSUME NEW w \in Writers, NEW e \in Events, Read(w, e) PROVE TypeOK'
  <2>1. Entry(e, config, LatestHash) \in Rows
    BY EntryType, HashOfType DEF TypeOK, LatestHash
  <2>2. tx'[w] \in [event : Events, id : Ids \cup {0}, row : Rows] /\ tx'[w].id = 0
    BY <1>1, <2>1 DEF Read, TypeOK
  <2>3. \A v \in Writers \ {w} : tx'[v] = tx[v]
    BY <1>1 DEF Read, TypeOK
  <2> QED BY <1>1, <2>2, <2>3 DEF Read, TypeOK
<1>2. ASSUME NEW w \in Writers, Insert(w) PROVE TypeOK'
  <2>1. tx'[w] = [tx[w] EXCEPT !.id = nextId] /\ \A v \in Writers \ {w} : tx'[v] = tx[v]
    BY <1>2 DEF Insert, TypeOK
  <2>2. tx'[w] \in [event : Events, id : Ids \cup {0}, row : Rows] /\ tx'[w].id = nextId
    BY <1>2, <2>1 DEF Insert, TypeOK
  <2>3. nextId' = nextId + 1 /\ nextId \in Nat /\ nextId \notin DOMAIN log
    BY <1>2 DEF Insert, TypeOK
  <2>4. \A v \in Writers \ {w} : tx'[v] = NoTx \/ tx'[v].id < nextId
    BY <2>1 DEF TypeOK
  <2>5. nextId # 0 /\ NoTx.id = 0
    BY DEF TypeOK, NoTx
  <2>6. /\ tx'[w].id < nextId' /\ tx'[w].id \notin DOMAIN log'
        /\ \A v \in Writers \ {w} : tx'[v].id # tx'[w].id
    BY <1>2, <2>2, <2>3, <2>4, <2>5 DEF Insert
  <2>7. ASSUME NEW v \in Writers \ {w}, tx'[v] # NoTx
        PROVE  /\ tx'[v] \in [event : Events, id : Ids \cup {0}, row : Rows]
               /\ tx'[v].id < nextId'
               /\ tx'[v].id # 0 => /\ tx'[v].id \notin DOMAIN log'
                                   /\ \A u \in Writers \ {v} : tx'[u].id # tx'[v].id
    BY <1>2, <2>1, <2>3, <2>6, <2>7 DEF Insert, TypeOK
  <2>8. DOMAIN tx' = Writers /\ nextId' \in Nat \ {0}
    BY <1>2, <2>3 DEF Insert, TypeOK
  <2>9. \A i \in DOMAIN log' : log'[i] \in Rows /\ i < nextId'
    BY <1>2, <2>3 DEF Insert, TypeOK
  <2> QED BY <1>2, <2>2, <2>6, <2>7, <2>8, <2>9 DEF Insert, TypeOK
<1>3. ASSUME NEW w \in Writers, Commit(w) PROVE TypeOK'
  <2>1. tx[w] # NoTx /\ tx[w].id \in Ids /\ tx[w].row \in Rows
    BY <1>3 DEF Commit, TypeOK, NoTx
  <2>2. \A v \in Writers \ {w} : tx'[v] = tx[v] /\ tx[v].id # tx[w].id
    BY <1>3, <2>1 DEF Commit, TypeOK, NoTx
  <2>3. tx'[w] = NoTx
    BY <1>3 DEF Commit, TypeOK
  <2>4. /\ DOMAIN log' = DOMAIN log \cup {tx[w].id}
        /\ \A i \in DOMAIN log' : log'[i] \in Rows /\ i < nextId
    BY <1>3, <2>1 DEF Commit, TypeOK
  <2>5. DOMAIN tx' = Writers
    BY <1>3 DEF Commit, TypeOK
  <2>6. \A v \in Writers : tx'[v] = NoTx
            \/ /\ tx'[v] \in [event : Events, id : Ids \cup {0}, row : Rows]
               /\ tx'[v].id < nextId'
               /\ tx'[v].id # 0 => /\ tx'[v].id \notin DOMAIN log'
                                   /\ \A u \in Writers \ {v} : tx'[u].id # tx'[v].id
    <3> SUFFICES ASSUME NEW v \in Writers, tx'[v] # NoTx
                 PROVE  /\ tx'[v] \in [event : Events, id : Ids \cup {0}, row : Rows]
                        /\ tx'[v].id < nextId'
                        /\ tx'[v].id # 0 => /\ tx'[v].id \notin DOMAIN log'
                                            /\ \A u \in Writers \ {v} : tx'[u].id # tx'[v].id
      OBVIOUS
    <3>1. v # w /\ tx'[v] = tx[v] /\ tx[v] # NoTx /\ nextId' = nextId
      BY <1>3, <2>2, <2>3 DEF Commit
    <3>2. tx'[w].id = 0
      BY <2>3 DEF NoTx
    <3> QED BY <2>2, <2>4, <3>1, <3>2 DEF TypeOK
  <2> QED BY <1>3, <2>1, <2>4, <2>5, <2>6 DEF Commit, TypeOK
<1>4. ASSUME NEW w \in Writers, Abort(w) PROVE TypeOK'
  BY <1>4 DEF Abort, TypeOK, NoTx
<1>5. ASSUME NEW c \in Configs, Restart(c) PROVE TypeOK'
  BY <1>5 DEF Restart, TypeOK
<1>6. ASSUME NEW i \in DOMAIN log, NEW e \in Events, NEW rehash \in BOOLEAN,
             Edit(i, e, rehash)
      PROVE TypeOK'
  <2>1. log[i] \in Rows /\ <<e, log[i].kid>> \in Payloads
    BY DEF TypeOK, Rows, Payloads
  <2>2. ComputeHash(log[i].prev, <<e, log[i].kid>>) \in Seq(Payloads)
    BY <2>1 DEF ComputeHash, Rows
  <2>3. log'[i] \in Rows
    BY <1>6, <2>1, <2>2 DEF Edit, Rows
  <2> QED BY <1>6, <2>3 DEF Edit, TypeOK
<1>7. ASSUME NEW i \in DOMAIN log, Remove(i) PROVE TypeOK'
  BY <1>7 DEF Remove, TypeOK
<1>8. CASE UNCHANGED vars
  BY <1>8 DEF vars, TypeOK
<1> QED BY <1>1, <1>2, <1>3, <1>4, <1>5, <1>6, <1>7, <1>8 DEF Next

\* The table and the open transactions are well formed, and no id is used
\* twice (audit, models/audit_store.py:327).
THEOREM TypeCorrect == Spec => []TypeOK
BY TypeInit, TypeNext, PTL DEF Spec

-----------------------------------------------------------------------------
(* What the rows of audit are like, whoever else has a hand in the table.   *)

Genuine(r) == r.hash = ComputeHash(r.prev, Payload(r)) /\ r.sig[2] = r.hash

WellSigned == /\ \A r \in written : Genuine(r)
              /\ \A w \in Writers : tx[w] # NoTx => Genuine(tx[w].row)
              /\ \A i \in DOMAIN log : \E r \in written : r.sig = log[i].sig

\* While nobody else has had a hand in it.
Untouched == edits = 0 =>
    /\ \A i \in DOMAIN log : log[i] \in written
    /\ \A i \in DOMAIN log :
          log[i].prev = Empty \/ \E j \in Before(i) : log[j].hash = log[i].prev
    /\ \A w \in Writers : tx[w] # NoTx =>
          \/ tx[w].row.prev = Empty
          \/ \E j \in DOMAIN log : /\ log[j].hash = tx[w].row.prev
                                   /\ tx[w].id # 0 => j < tx[w].id

\* And while no two calls have overlapped.
OneByOne == edits = 0 /\ ~overlapped =>
    /\ \A v, w \in Writers : tx[v] # NoTx /\ tx[w] # NoTx => v = w
    /\ \A i \in DOMAIN log : log[i].prev = StoredBefore(i)
    /\ \A w \in Writers : tx[w] # NoTx =>
          /\ tx[w].row.prev = LatestHash
          /\ tx[w].id # 0 => \A j \in DOMAIN log : j < tx[w].id

ChainInv == TypeOK /\ WellSigned /\ Untouched /\ OneByOne

LEMMA ChainInit == Init => ChainInv
<1> SUFFICES ASSUME Init PROVE ChainInv
  OBVIOUS
<1>1. DOMAIN log = {} /\ written = {} /\ \A w \in Writers : tx[w] = NoTx
  BY DEF Init
<1> QED BY <1>1, TypeInit DEF ChainInv, WellSigned, Untouched, OneByOne

\* What Read, Insert and Commit do to the transaction of their writer.
LEMMA ReadStep ==
    ASSUME TypeOK, NEW w \in Writers, NEW e \in Events, Read(w, e)
    PROVE  /\ tx[w] = NoTx /\ tx'[w] # NoTx /\ tx'[w].id = 0
           /\ tx'[w].row = Entry(e, config, LatestHash)
           /\ \A v \in Writers \ {w} : tx'[v] = tx[v]
<1>1. tx'[w] = [event |-> e, id |-> 0, row |-> Entry(e, config, LatestHash)]
  BY DEF Read, TypeOK
<1>2. e # None
  BY NoneAssumption
<1> QED BY <1>1, <1>2 DEF Read, TypeOK, NoTx

LEMMA InsertStep ==
    ASSUME TypeOK, NEW w \in Writers, Insert(w)
    PROVE  /\ tx[w] # NoTx /\ tx'[w].id = nextId /\ tx'[w].row = tx[w].row
           /\ \A v \in Writers \ {w} : tx'[v] = tx[v]
BY DEF Insert, TypeOK

LEMMA CommitStep ==
    ASSUME TypeOK, NEW w \in Writers, Commit(w)
    PROVE  /\ tx[w] # NoTx /\ tx[w].id \in Nat \ {0} /\ tx[w].row \in Rows
           /\ tx[w].id \notin DOMAIN log
           /\ tx'[w] = NoTx
           /\ \A v \in Writers \ {w} : tx'[v] = tx[v]
           /\ DOMAIN log' = DOMAIN log \cup {tx[w].id}
           /\ log'[tx[w].id] = tx[w].row
           /\ \A i \in DOMAIN log : log'[i] = log[i]
           /\ written' = written \cup {tx[w].row}
<1>1. tx[w] # NoTx
  BY DEF Commit, NoTx
<1> QED BY <1>1, IdAssumption DEF Commit, TypeOK

\* A step by hand is counted.
LEMMA HandStep ==
    ASSUME TypeOK, NEW i \in DOMAIN log,
           Remove(i) \/ \E e \in Events, rehash \in BOOLEAN : Edit(i, e, rehash)
    PROVE  /\ edits' # 0 /\ tx' = tx /\ written' = written
           /\ DOMAIN log' \subseteq DOMAIN log
           /\ \A j \in DOMAIN log' : log'[j].sig = log[j].sig
<1>1. edits \in Nat
  BY IdAssumption DEF TypeOK
<1>2. CASE Remove(i)
  BY <1>1, <1>2 DEF Remove
<1>3. ASSUME NEW e \in Events, NEW rehash \in BOOLEAN, Edit(i, e, rehash)
      PROVE  /\ edits' # 0 /\ tx' = tx /\ written' = written
             /\ DOMAIN log' \subseteq DOMAIN log
             /\ \A j \in DOMAIN log' : log'[j].sig = log[j].sig
  <2>1. log[i] \in Rows
    BY DEF TypeOK
  <2>2. log'[i].sig = log[i].sig
    BY <1>3, <2>1 DEF Edit, Rows
  <2>3. DOMAIN log' = DOMAIN log /\ \A j \in DOMAIN log \ {i} : log'[j] = log[j]
    BY <1>3 DEF Edit
  <2>4. tx' = tx /\ written' = written /\ edits' = edits + 1
    BY <1>3 DEF Edit
  <2>5. edits' # 0
    BY <1>1, <2>4
  <2> QED BY <2>2, <2>3, <2>4, <2>5
<1> QED BY <1>2, <1>3

-----------------------------------------------------------------------------
LEMMA SignedNext == ChainInv /\ [Next]_vars => WellSigned'
<1> SUFFICES ASSUME ChainInv, [Next]_vars PROVE WellSigned'
  OBVIOUS
<1> USE DEF ChainInv
<1>1. ASSUME NEW w \in Writers, NEW e \in Events, Read(w, e) PROVE WellSigned'
  <2>1. Genuine(tx'[w].row)
    BY <1>1, ReadStep, EntryType, HashOfType DEF Genuine, LatestHash, TypeOK
  <2> QED BY <1>1, <2>1, ReadStep DEF Read, WellSigned
<1>2. ASSUME NEW w \in Writers, Insert(w) PROVE WellSigned'
  BY <1>2, InsertStep DEF Insert, WellSigned
<1>3. ASSUME NEW w \in Writers, Commit(w) PROVE WellSigned'
  <2> DEFINE n == tx[w].id
  <2>1. /\ tx[w] # NoTx /\ tx'[w] = NoTx /\ \A v \in Writers \ {w} : tx'[v] = tx[v]
        /\ DOMAIN log' = DOMAIN log \cup {n} /\ written' = written \cup {tx[w].row}
    BY <1>3, CommitStep
  <2>2. log'[n] = tx[w].row /\ \A i \in DOMAIN log : log'[i] = log[i]
    BY <1>3, CommitStep
  <2>3. log'[n].sig = tx[w].row.sig
    BY <2>2
  <2>4. \A i \in DOMAIN log' : \E r \in written' : r.sig = log'[i].sig
    BY <2>1, <2>2, <2>3 DEF WellSigned
  <2>5. \A r \in written' : Genuine(r)
    BY <2>1 DEF WellSigned
  <2> QED BY <2>1, <2>4, <2>5 DEF WellSigned
<1>4. ASSUME NEW w \in Writers, Abort(w) PROVE WellSigned'
  BY <1>4 DEF Abort, WellSigned, TypeOK
<1>5. ASSUME NEW c \in Configs, Restart(c) PROVE WellSigned'
  BY <1>5 DEF Restart, WellSigned
<1>6. ASSUME NEW i \in DOMAIN log,
             Remove(i) \/ \E e \in Events, rehash \in BOOLEAN : Edit(i, e, rehash)
      PROVE WellSigned'
  BY <1>6, HandStep DEF WellSigned
<1>7. CASE UNCHANGED vars
  BY <1>7 DEF vars, WellSigned
<1> QED BY <1>1, <1>2, <1>3, <1>4, <1>5, <1>6, <1>7 DEF Next

LEMMA UntouchedNext == ChainInv /\ [Next]_vars => Untouched'
<1> SUFFICES ASSUME ChainInv, [Next]_vars, edits' = 0 PROVE Untouched'
  BY DEF Untouched
<1> USE DEF ChainInv
<1>1. ASSUME NEW w \in Writers, NEW e \in Events, Read(w, e) PROVE Untouched'
  <2>1. edits = 0 /\ log' = log /\ written' = written
    BY <1>1 DEF Read
  <2>2. tx'[w].row.prev = LatestHash
    BY <1>1, ReadStep, EntryType, HashOfType DEF LatestHash, TypeOK
  <2>3. LatestHash = Empty \/ \E j \in DOMAIN log : log[j].hash = LatestHash
    BY LatestRow DEF LatestHash, HashOf
  <2> QED BY <1>1, <2>1, <2>2, <2>3, ReadStep DEF Untouched, Before
<1>2. ASSUME NEW w \in Writers, Insert(w) PROVE Untouched'
  <2>1. edits = 0 /\ log' = log /\ written' = written
    BY <1>2 DEF Insert
  <2>2. \A j \in DOMAIN log : j < nextId
    BY DEF TypeOK
  <2> QED BY <1>2, <2>1, <2>2, InsertStep DEF Untouched, Before
<1>3. ASSUME NEW w \in Writers, Commit(w) PROVE Untouched'
  <2> DEFINE n == tx[w].id
  <2>1. edits = 0
    BY <1>3 DEF Commit
  <2>2. /\ DOMAIN log' = DOMAIN log \cup {n} /\ written' = written \cup {tx[w].row}
        /\ n # 0 /\ tx[w] # NoTx
    BY <1>3, CommitStep
  <2>3. log'[n] = tx[w].row /\ \A i \in DOMAIN log : log'[i] = log[i]
    BY <1>3, CommitStep
  <2>4. \A i \in DOMAIN log' : log'[i] \in written'
    BY <2>1, <2>2, <2>3 DEF Untouched
  <2>5. \A i \in DOMAIN log' :
            log'[i].prev = Empty \/ \E j \in DOMAIN log' : j < i /\ log'[j].hash = log'[i].prev
    <3> SUFFICES ASSUME NEW i \in DOMAIN log', log'[i].prev # Empty
                 PROVE  \E j \in DOMAIN log' : j < i /\ log'[j].hash = log'[i].prev
      OBVIOUS
    <3>1. CASE i = n
      BY <2>1, <2>2, <2>3, <3>1 DEF Untouched
    <3>2. CASE i # n
      BY <2>1, <2>2, <2>3, <3>2 DEF Untouched, Before
    <3> QED BY <3>1, <3>2
  <2>6. ASSUME NEW v \in Writers, tx'[v] # NoTx
        PROVE  \/ tx'[v].row.prev = Empty
               \/ \E j \in DOMAIN log' : /\ log'[j].hash = tx'[v].row.prev
                                         /\ tx'[v].id # 0 => j < tx'[v].id
    BY <1>3, <2>1, <2>6, CommitStep DEF Untouched
  <2> QED BY <2>4, <2>5, <2>6 DEF Untouched, Before
<1>4. ASSUME NEW w \in Writers, Abort(w) PROVE Untouched'
  BY <1>4 DEF Abort, Untouched, TypeOK, Before
<1>5. ASSUME NEW c \in Configs, Restart(c) PROVE Untouched'
  BY <1>5 DEF Restart, Untouched, Before
<1>6. ASSUME NEW i \in DOMAIN log,
             Remove(i) \/ \E e \in Events, rehash \in BOOLEAN : Edit(i, e, rehash)
      PROVE Untouched'
  BY <1>6, HandStep
<1>7. CASE UNCHANGED vars
  BY <1>7 DEF vars, Untouched, Before
<1> QED BY <1>1, <1>2, <1>3, <1>4, <1>5, <1>6, <1>7 DEF Next

LEMMA OneByOneNext == ChainInv /\ [Next]_vars => OneByOne'
<1> SUFFICES ASSUME ChainInv, [Next]_vars, edits' = 0, ~ overlapped' PROVE OneByOne'
  BY DEF OneByOne
<1> USE DEF ChainInv
<1>1. ASSUME NEW w \in Writers, NEW e \in Events, Read(w, e) PROVE OneByOne'
  <2>1. edits = 0 /\ log' = log /\ ~ overlapped /\ \A v \in Writers : tx[v] = NoTx
    BY <1>1 DEF Read
  <2>2. tx'[w].row.prev = LatestHash
    BY <1>1, ReadStep, EntryType, HashOfType DEF LatestHash, TypeOK
  <2>3. LatestHash' = LatestHash /\ \A i \in DOMAIN log : StoredBefore(i)' = StoredBefore(i)
    BY <2>1 DEF LatestHash, StoredBefore, HashOf, Before
  <2> QED BY <1>1, <2>1, <2>2, <2>3, ReadStep DEF OneByOne
<1>2. ASSUME NEW w \in Writers, Insert(w) PROVE OneByOne'
  <2>1. edits = 0 /\ log' = log /\ ~ overlapped
    BY <1>2 DEF Insert
  <2>2. \A j \in DOMAIN log : j < nextId
    BY DEF TypeOK
  <2>3. LatestHash' = LatestHash /\ \A i \in DOMAIN log : StoredBefore(i)' = StoredBefore(i)
    BY <2>1 DEF LatestHash, StoredBefore, HashOf, Before
  <2> QED BY <1>2, <2>1, <2>2, <2>3, InsertStep DEF OneByOne
<1>3. ASSUME NEW w \in Writers, Commit(w) PROVE OneByOne'
  <2>1. edits = 0 /\ ~ overlapped
    BY <1>3 DEF Commit
  <2> DEFINE n == tx[w].id
  <2>2. /\ tx[w] # NoTx /\ tx'[w] = NoTx
        /\ \A v \in Writers \ {w} : tx'[v] = tx[v]
    BY <1>3, CommitStep
  <2>3. \A v \in Writers : tx'[v] = NoTx
    BY <2>1, <2>2 DEF OneByOne
  <2>4. /\ n \in Nat /\ \A j \in DOMAIN log : j < n /\ j \in Nat
        /\ tx[w].row.prev = LatestHash
    BY <1>3, <2>1, CommitStep, IdAssumption DEF OneByOne, TypeOK
  <2>5. ASSUME NEW i \in DOMAIN log' PROVE log'[i].prev = StoredBefore(i)'
    <3>1. DOMAIN log' = DOMAIN log \cup {n} /\ \A j \in DOMAIN log : log'[j] = log[j]
      BY <1>3, CommitStep
    <3>2. CASE i = n
      <4>1. Before(i)' = DOMAIN log
        BY <2>4, <3>1, <3>2 DEF Before
      <4>2. StoredBefore(i)' = LatestHash
        BY <3>1, <4>1, LatestRow DEF StoredBefore, LatestHash, HashOf
      <4> QED BY <1>3, <2>4, <3>2, <4>2, CommitStep
    <3>3. CASE i # n
      <4>1. i \in DOMAIN log /\ Before(i)' = Before(i) /\ Before(i) \in SUBSET DOMAIN log
        BY <2>4, <3>1, <3>3 DEF Before
      <4>2. StoredBefore(i)' = StoredBefore(i)
        BY <3>1, <4>1, LatestRow DEF StoredBefore, HashOf
      <4> QED BY <2>1, <3>1, <4>1, <4>2 DEF OneByOne
    <3> QED BY <3>2, <3>3
  <2> QED BY <2>3, <2>5 DEF OneByOne
<1>4. ASSUME NEW w \in Writers, Abort(w) PROVE OneByOne'
  <2>1. edits = 0 /\ log' = log /\ ~ overlapped
    BY <1>4 DEF Abort
  <2>2. \A v \in Writers : tx'[v] = NoTx \/ tx'[v] = tx[v]
    BY <1>4 DEF Abort, TypeOK
  <2>3. LatestHash' = LatestHash /\ \A i \in DOMAIN log : StoredBefore(i)' = StoredBefore(i)
    BY <2>1 DEF LatestHash, StoredBefore, HashOf, Before
  <2> QED BY <2>1, <2>2, <2>3 DEF OneByOne
<1>5. ASSUME NEW c \in Configs, Restart(c) PROVE OneByOne'
  <2>1. edits = 0 /\ log' = log /\ ~ overlapped /\ \A v \in Writers : tx'[v] = NoTx
    BY <1>5 DEF Restart
  <2>2. \A i \in DOMAIN log : StoredBefore(i)' = StoredBefore(i)
    BY <2>1 DEF StoredBefore, HashOf, Before
  <2> QED BY <2>1, <2>2 DEF OneByOne
<1>6. ASSUME NEW i \in DOMAIN log,
             Remove(i) \/ \E e \in Events, rehash \in BOOLEAN : Edit(i, e, rehash)
      PROVE OneByOne'
  BY <1>6, HandStep
<1>7. CASE UNCHANGED vars
  <2>1. edits = 0 /\ log' = log /\ ~ overlapped /\ tx' = tx
    BY <1>7 DEF vars
  <2>2. LatestHash' = LatestHash /\ \A i \in DOMAIN log : StoredBefore(i)' = StoredBefore(i)
    BY <2>1 DEF LatestHash, StoredBefore, HashOf, Before
  <2> QED BY <2>1, <2>2 DEF OneByOne
<1> QED BY <1>1, <1>2, <1>3, <1>4, <1>5, <1>6, <1>7 DEF Next

\* The inductive invariant.
THEOREM ChainInvariant == Spec => []ChainInv
<1>1. ChainInv /\ [Next]_vars => ChainInv'
  BY TypeNext, SignedNext, UntouchedNext, OneByOneNext DEF ChainInv
<1> QED BY ChainInit, <1>1, PTL DEF Spec

\* An entry is always newer than the one whose hash it continues
\* (_latest_hash_with, models/audit_store.py:261).
THEOREM LinksHold == Spec => []LinksPointBack
<1>1. ChainInv => LinksPointBack
  BY DEF ChainInv, Untouched, LinksPointBack
<1> QED BY ChainInvariant, <1>1, PTL

-----------------------------------------------------------------------------
(* What verify_chain finds in an untouched log.                             *)

Linked(i) == log[i].prev = StoredBefore(i)

\* It finds fault with a row that does not continue the one before it, and
\* with no other.
LEMMA FaultIsLink ==
    ASSUME ChainInv, edits = 0, KeysKnown, NEW i \in DOMAIN log
    PROVE  Fault(config, i) = "none" <=> Linked(i)
<1>1. log[i] \in Rows /\ Genuine(log[i])
  BY DEF ChainInv, TypeOK, Untouched, WellSigned
<1>2. log[i].hash = ComputeHash(log[i].prev, Payload(log[i])) /\ log[i].sig[2] = log[i].hash
  BY <1>1 DEF Genuine
<1>3. log[i].sig = <<log[i].sig[1], log[i].hash>>
  BY <1>1, <1>2 DEF Rows
<1>4. PICK p \in KeyRing(config) : p = <<log[i].kid, log[i].sig[1]>>
  BY DEF KeysKnown
<1>5. CASE Linked(i)
  <2>1. log[i].hash = Recomputed(i)
    BY <1>2, <1>5 DEF Linked, Recomputed
  <2>2. Signed(KeyRing(config), i)
    BY <1>3, <1>4, <2>1 DEF Signed
  <2>3. log[i].prev = StoredBefore(i) /\ p[1] = log[i].kid
    BY <1>4, <1>5 DEF Linked
  <2> QED BY <1>4, <1>5, <2>1, <2>2, <2>3 DEF Fault
<1>6. CASE ~ Linked(i)
  BY <1>6 DEF Linked, Fault
<1> QED BY <1>5, <1>6

LEMMA VerdictIsLinks ==
    ASSUME ChainInv, edits = 0, KeysKnown
    PROVE  Verdict(config, 0).ok <=> \A i \in DOMAIN log : Linked(i)
<1>1. Verdict(config, 0).ok <=> \A i \in DOMAIN log : Fault(config, i) = "none"
  BY DEF Verdict
<1> QED BY <1>1, FaultIsLink

\* In a chain the hash of a row is longer than those of the rows before it.
LEMMA HashesGrow ==
    ASSUME ChainInv, edits = 0, \A i \in DOMAIN log : Linked(i),
           NEW j \in DOMAIN log, NEW i \in Before(j)
    PROVE  Len(log[i].hash) <= Len(StoredBefore(j))
<1> DEFINE L(k) == Len(log[k].hash)
<1> DEFINE Bad == {k \in DOMAIN log : \E h \in Before(k) : ~ (L(h) <= Len(StoredBefore(k)))}
<1>1. DOMAIN log \subseteq Nat
  BY IdAssumption DEF ChainInv, TypeOK
<1>2. \A k \in DOMAIN log : L(k) \in Nat /\ L(k) = Len(StoredBefore(k)) + 1
  <2> SUFFICES ASSUME NEW k \in DOMAIN log
               PROVE  L(k) \in Nat /\ L(k) = Len(StoredBefore(k)) + 1
    OBVIOUS
  <2>1. StoredBefore(k) \in Seq(Payloads) /\ log[k] \in Rows
    BY HashOfType DEF StoredBefore, Before, ChainInv, TypeOK
  <2>2. log[k].hash = Append(StoredBefore(k), Payload(log[k]))
    BY DEF ChainInv, Untouched, WellSigned, Genuine, Linked, ComputeHash
  <2>3. Payload(log[k]) \in Payloads
    BY <2>1 DEF Rows, Payload, Payloads
  <2> QED BY <2>1, <2>2, <2>3
<1>3. ASSUME Bad # {} PROVE FALSE
  <2>1. PICK k \in Bad : \A h \in Bad : k <= h
    BY <1>1, <1>3, LeastMember
  <2>2. PICK h \in Before(k) : ~ (L(h) <= Len(StoredBefore(k)))
    OBVIOUS
  <2> DEFINE l == Latest(Before(k))
  <2>3. l \in Before(k) /\ h <= l /\ StoredBefore(k) = log[l].hash
    BY <2>2, LatestRow DEF Before, ChainInv, StoredBefore, HashOf
  <2>4. l \in DOMAIN log /\ l < k /\ h \in DOMAIN log /\ l \in Nat /\ k \in Nat /\ h \in Nat
    BY <1>1, <2>2, <2>3 DEF Before
  <2>5. h # l
    BY <1>2, <2>2, <2>3, <2>4
  <2>6. h \in Before(l)
    BY <2>3, <2>4, <2>5 DEF Before
  <2>7. l \notin Bad
    BY <2>1, <2>4
  <2>8. L(h) <= Len(StoredBefore(l))
    BY <2>4, <2>6, <2>7
  <2>9. L(l) = Len(StoredBefore(l)) + 1 /\ L(h) \in Nat /\ L(l) \in Nat
    BY <1>2, <2>4
  <2>10. Len(StoredBefore(k)) = L(l)
    BY <2>3
  <2> HIDE DEF L, l
  <2> QED BY <2>2, <2>8, <2>9, <2>10
<1> QED BY <1>3

\* So no two rows of a chain continue the same one,
LEMMA ChainHasNoFork ==
    ASSUME ChainInv, edits = 0, \A i \in DOMAIN log : Linked(i)
    PROVE  ~ Forked
<1> SUFFICES ASSUME NEW i \in DOMAIN log, NEW j \in DOMAIN log, i < j,
                    log[i].prev = log[j].prev
             PROVE  FALSE
  <2>1. DOMAIN log \subseteq Nat
    BY IdAssumption DEF ChainInv, TypeOK
  <2> QED BY <2>1 DEF Forked
<1>1. i \in Before(j)
  BY DEF Before
<1>2. Len(log[i].hash) <= Len(StoredBefore(j))
  BY <1>1, HashesGrow
<1>3. StoredBefore(j) = log[i].prev
  BY DEF Linked
<1>4. log[i] \in Rows /\ log[i].hash = Append(log[i].prev, Payload(log[i]))
  BY DEF ChainInv, TypeOK, Untouched, WellSigned, Genuine, ComputeHash
<1>5. log[i].prev \in Seq(Payloads) /\ Payload(log[i]) \in Payloads
  BY <1>4 DEF Rows, Payload, Payloads
<1>6. Len(log[i].hash) = Len(log[i].prev) + 1 /\ Len(log[i].prev) \in Nat
  BY <1>4, <1>5
<1> QED BY <1>2, <1>3, <1>6

\* and rows that all continue different ones, each an older one, are a chain.
LEMMA NoForkIsChain ==
    ASSUME ChainInv, edits = 0, ~ Forked
    PROVE  \A i \in DOMAIN log : Linked(i)
<1> DEFINE Bad == {i \in DOMAIN log : ~ Linked(i)}
<1>1. DOMAIN log \subseteq Nat
  BY IdAssumption DEF ChainInv, TypeOK
<1>2. ASSUME Bad # {} PROVE FALSE
  <2>1. PICK i \in Bad : \A k \in Bad : i <= k
    BY <1>1, <1>2, LeastMember
  <2>2. \A k \in Before(i) : k \in DOMAIN log /\ k < i /\ k \in Nat /\ Linked(k)
    BY <1>1, <2>1 DEF Before
  <2>3. CASE log[i].prev = Empty
    <3>1. Before(i) # {}
      BY <2>3 DEF Linked, StoredBefore, HashOf
    <3>2. PICK k \in Before(i) : \A h \in Before(i) : k <= h
      <4>1. Before(i) \in SUBSET Nat
        BY <2>2
      <4> QED BY <3>1, <4>1, LeastMember
    <3>3. Before(k) = {}
      BY <1>1, <2>2, <3>2 DEF Before
    <3>4. log[k].prev = Empty
      BY <2>2, <3>2, <3>3 DEF Linked, StoredBefore, HashOf
    <3> QED BY <2>2, <2>3, <3>2, <3>4 DEF Forked
  <2>4. CASE log[i].prev # Empty
    <3>1. PICK j \in Before(i) : log[j].hash = log[i].prev
      BY <2>4 DEF ChainInv, Untouched
    <3> DEFINE Between == {k \in Before(i) : j < k}
    <3>2. CASE Between = {}
      <4>1. Latest(Before(i)) \in Before(i) /\ j <= Latest(Before(i))
        BY <3>1, LatestRow DEF Before, ChainInv
      <4>2. Latest(Before(i)) = j
        BY <2>2, <3>1, <3>2, <4>1
      <4>3. StoredBefore(i) = log[j].hash
        BY <3>1, <4>2 DEF StoredBefore, HashOf
      <4> QED BY <2>1, <3>1, <4>3 DEF Linked
    <3>3. CASE Between # {}
      <4>1. PICK k \in Between : \A h \in Between : k <= h
        <5>1. Between \in SUBSET Nat
          BY <2>2
        <5> QED BY <3>3, <5>1, LeastMember
      <4>2. k \in Before(i) /\ j \in Before(k)
        BY <2>2, <3>1, <4>1 DEF Before
      <4>3. \A h \in Before(k) : h <= j
        BY <1>1, <2>2, <3>1, <4>1, <4>2 DEF Before
      <4>4. Latest(Before(k)) \in Before(k) /\ j <= Latest(Before(k))
        BY <4>2, LatestRow DEF Before, ChainInv
      <4>5. Latest(Before(k)) = j
        BY <2>2, <3>1, <4>2, <4>3, <4>4, <1>1 DEF Before
      <4>6. StoredBefore(k) = log[j].hash
        BY <4>2, <4>5 DEF StoredBefore, HashOf
      <4>7. log[k].prev = log[i].prev
        BY <2>2, <3>1, <4>2, <4>6 DEF Linked
      <4> QED BY <2>2, <4>2, <4>7 DEF Forked
    <3> QED BY <3>2, <3>3
  <2> QED BY <2>3, <2>4
<1> QED BY <1>2

\* verify_chain refuses an untouched log exactly when two calls of audit have
\* continued the same entry (models/audit_store.py:323).
THEOREM ForksAreBlamed == Spec => []VerdictBlamesForks
<1>1. ChainInv => VerdictBlamesForks
  BY VerdictIsLinks, ChainHasNoFork, NoForkIsChain DEF VerdictBlamesForks
<1> QED BY ChainInvariant, <1>1, PTL

\* It accepts what calls that do not overlap have written.
THEOREM SerialHolds == Spec => []SerialCallsChain
<1>1. ChainInv => SerialCallsChain
  BY VerdictIsLinks DEF SerialCallsChain, ChainInv, OneByOne, Linked
<1> QED BY ChainInvariant, <1>1, PTL

-----------------------------------------------------------------------------
(* What verify_chain accepts in any log.                                    *)

LEMMA RowFields ==
    ASSUME NEW r \in Rows, NEW q \in Rows, r.event = q.event, r.kid = q.kid,
           r.prev = q.prev, r.hash = q.hash, r.sig = q.sig
    PROVE  r = q
BY DEF Rows

\* Two hashes agree only when they are of the same input.
LEMMA HashFixesInput ==
    ASSUME NEW s \in Seq(Payloads), NEW t \in Seq(Payloads),
           NEW d \in Payloads, NEW e \in Payloads, Append(s, d) = Append(t, e)
    PROVE  s = t /\ d = e
BY AppendInjective

\* A row it accepts is one that audit has written: a signature is not made
\* without its secret, and it fixes what the row says and continues.
LEMMA AcceptedIsWritten ==
    ASSUME ChainInv, NEW i \in DOMAIN log, Fault(config, i) = "none"
    PROVE  log[i] \in written /\ Linked(i) /\ Genuine(log[i])
<1>1. Linked(i) /\ log[i].hash = Recomputed(i) /\ Signed(KeyRing(config), i)
  BY DEF Fault, Linked
<1>2. PICK p \in KeyRing(config) : log[i].sig = <<p[2], Recomputed(i)>>
  BY <1>1 DEF Signed
<1>3. PICK r \in written : r.sig = log[i].sig
  BY DEF ChainInv, WellSigned
<1>4. r \in Rows /\ log[i] \in Rows /\ Genuine(r)
  BY DEF ChainInv, TypeOK, WellSigned
<1>5. r.hash = log[i].hash
  BY <1>1, <1>2, <1>3, <1>4 DEF Genuine
<1>6. /\ r.hash = Append(r.prev, Payload(r))
      /\ log[i].hash = Append(log[i].prev, Payload(log[i]))
  BY <1>1, <1>4 DEF Genuine, Recomputed, Linked, ComputeHash
<1>7. /\ r.prev \in Seq(Payloads) /\ Payload(r) \in Payloads
      /\ log[i].prev \in Seq(Payloads) /\ Payload(log[i]) \in Payloads
  BY <1>4 DEF Rows, Payload, Payloads
<1>8. r.prev = log[i].prev /\ Payload(r) = Payload(log[i])
  <2>1. Append(r.prev, Payload(r)) = Append(log[i].prev, Payload(log[i]))
    BY <1>5, <1>6
  <2> QED BY <1>7, <2>1, HashFixesInput, Zenon
<1>9. r.event = log[i].event /\ r.kid = log[i].kid
  BY <1>8 DEF Payload
<1>10. r = log[i]
  BY <1>3, <1>4, <1>5, <1>8, <1>9, RowFields
<1> QED BY <1>1, <1>4, <1>10

\* There are finitely many rows before one; one more than before the latest
\* of them.
LEMMA BeforeCounts ==
    ASSUME TypeOK, NEW i \in DOMAIN log
    PROVE  /\ IsFiniteSet(Before(i)) /\ Cardinality(Before(i)) \in Nat
           /\ i \notin Before(i)
           /\ Cardinality(Before(i) \cup {i}) = Cardinality(Before(i)) + 1
<1>1. /\ Before(i) \in SUBSET Nat /\ i \in Nat /\ i \notin Before(i)
      /\ \A j \in Before(i) : j <= i
  <2>1. DOMAIN log \subseteq Nat
    BY IdAssumption DEF TypeOK
  <2> QED BY <2>1 DEF Before
<1>2. IsFiniteSet(Before(i))
  BY <1>1, FS_BoundedSetOfNaturals
<1> QED BY <1>1, <1>2, FS_AddElement, FS_CardinalityType

LEMMA BeforeLatest ==
    ASSUME TypeOK, NEW i \in DOMAIN log, Before(i) # {}
    PROVE  /\ Latest(Before(i)) \in Before(i)
           /\ Before(i) = Before(Latest(Before(i))) \cup {Latest(Before(i))}
           /\ Cardinality(Before(i)) = Cardinality(Before(Latest(Before(i)))) + 1
           /\ StoredBefore(i) = log[Latest(Before(i))].hash
<1> DEFINE l == Latest(Before(i))
<1>1. l \in Before(i) /\ \A m \in Before(i) : m <= l
  BY LatestRow DEF Before
<1>2. DOMAIN log \subseteq Nat
  BY IdAssumption DEF TypeOK
<1>3. l \in DOMAIN log /\ Before(i) = Before(l) \cup {l}
  BY <1>1, <1>2 DEF Before
<1>4. Cardinality(Before(i)) = Cardinality(Before(l)) + 1
  BY <1>3, BeforeCounts
<1> QED BY <1>1, <1>3, <1>4 DEF StoredBefore, HashOf

\* In rows from the first on that are all accepted, the hash of each is the
\* list of what they say.
LEMMA HashListsRows ==
    ASSUME ChainInv, NEW G \in SUBSET DOMAIN log,
           \A i \in G : Fault(config, i) = "none" /\ Before(i) \subseteq G,
           NEW k \in G
    PROVE  /\ Len(log[k].hash) = Cardinality(Before(k)) + 1
           /\ \A i \in Before(k) \cup {k} :
                 log[k].hash[Cardinality(Before(i)) + 1] = Payload(log[i])
<1> DEFINE Lists(h) == /\ Len(log[h].hash) = Cardinality(Before(h)) + 1
                       /\ \A i \in Before(h) \cup {h} :
                             log[h].hash[Cardinality(Before(i)) + 1] = Payload(log[i])
           Bad == {h \in G : ~ Lists(h)}
<1>1. DOMAIN log \subseteq Nat /\ TypeOK
  BY IdAssumption DEF ChainInv, TypeOK
<1>2. ASSUME Bad # {} PROVE FALSE
  <2>1. PICK h \in Bad : \A g \in Bad : h <= g
    <3>1. Bad \in SUBSET Nat
      BY <1>1
    <3> QED BY <1>2, <3>1, LeastMember
  <2> DEFINE prev == StoredBefore(h)
             n == Cardinality(Before(h))
  <2>2. h \in DOMAIN log /\ log[h] \in Rows /\ n \in Nat
    BY <1>1, <2>1, BeforeCounts DEF TypeOK
  <2>3. log[h].hash = Append(prev, Payload(log[h]))
    BY <2>1, <2>2, AcceptedIsWritten DEF Genuine, Linked, ComputeHash
  <2>4. prev \in Seq(Payloads) /\ Payload(log[h]) \in Payloads
    <3>1. Before(h) \in SUBSET DOMAIN log
      BY DEF Before
    <3>2. prev \in Seq(Payloads)
      BY <1>1, <3>1, HashOfType DEF StoredBefore
    <3> QED BY <2>2, <3>2 DEF Rows, Payload, Payloads
  <2>5. Len(prev) = n /\ \A i \in Before(h) : /\ Cardinality(Before(i)) + 1 \in 1 .. n
                                              /\ prev[Cardinality(Before(i)) + 1] = Payload(log[i])
    <3>1. CASE Before(h) = {}
      <4>1. prev = << >> /\ n = 0
        BY <3>1, FS_EmptySet DEF StoredBefore, HashOf, Empty
      <4> QED BY <3>1, <4>1
    <3>2. CASE Before(h) # {}
      <4> DEFINE l == Latest(Before(h))
      <4>1. /\ l \in Before(h) /\ Before(h) = Before(l) \cup {l}
            /\ n = Cardinality(Before(l)) + 1 /\ prev = log[l].hash
        BY <1>1, <2>2, <3>2, BeforeLatest
      <4>2. l \in G /\ l \in DOMAIN log /\ l < h
        BY <2>1, <4>1 DEF Before
      <4>3. Lists(l)
        BY <1>1, <2>1, <2>2, <4>2
      <4>4. ASSUME NEW i \in Before(h)
            PROVE  /\ Cardinality(Before(i)) + 1 \in 1 .. n
                   /\ prev[Cardinality(Before(i)) + 1] = Payload(log[i])
        <5>1. i \in DOMAIN log /\ i \in Nat
          BY <1>1 DEF Before
        <5>2. Before(i) \subseteq Before(l)
          <6>1. i \in Before(l) \/ i = l
            BY <4>1
          <6>2. CASE i = l
            BY <6>2
          <6>3. CASE i \in Before(l)
            <7> HIDE DEF l
            <7>1. l \in Nat /\ i < l
              BY <1>1, <4>2, <6>3 DEF Before
            <7> QED BY <1>1, <5>1, <7>1 DEF Before
          <6> QED BY <6>1, <6>2, <6>3
        <5>3. Cardinality(Before(i)) \in Nat /\ Cardinality(Before(i)) <= Cardinality(Before(l))
          BY <1>1, <4>2, <5>1, <5>2, BeforeCounts, FS_Subset
        <5>4. prev[Cardinality(Before(i)) + 1] = Payload(log[i])
          BY <4>1, <4>3
        <5>5. Cardinality(Before(l)) \in Nat
          BY <1>1, <4>2, BeforeCounts
        <5> QED BY <4>1, <5>3, <5>4, <5>5
      <4>5. Len(prev) = n
        BY <4>1, <4>3
      <4> QED BY <4>4, <4>5
    <3> QED BY <3>1, <3>2
  <2>6. /\ Len(log[h].hash) = n + 1
        /\ \A j \in 1 .. n : log[h].hash[j] = prev[j]
        /\ log[h].hash[n + 1] = Payload(log[h])
    BY <2>3, <2>4, <2>5, AppendProperties
  <2>7. \A i \in Before(h) : log[h].hash[Cardinality(Before(i)) + 1] = Payload(log[i])
    BY <2>5, <2>6
  <2>8. Lists(h)
    BY <2>6, <2>7
  <2> QED BY <2>1, <2>8
<1> QED BY <1>2

LEMMA SoundState == ChainInv => VerdictIsSound
<1> SUFFICES ASSUME ChainInv, NEW limit \in Ids \cup {0},
                    Verdict(config, limit).last_ok # None
             PROVE  LET v == Verdict(config, limit)
                        good == Before(v.last_ok) \cup {v.last_ok} IN
                    /\ v.checked = Cardinality(good) /\ v.checked = Len(log[v.last_ok].hash)
                    /\ \A i \in good : /\ log[i] \in written
                                       /\ log[v.last_ok].hash[Cardinality(Before(i)) + 1] = Payload(log[i])
  BY DEF VerdictIsSound
<1> DEFINE rows == {i \in DOMAIN log : limit = 0 \/ Cardinality(Before(i)) < limit}
           bad  == {i \in rows : Fault(config, i) # "none"}
           good == {i \in rows : \A j \in bad : i < j}
           l    == Latest(good)
<1>1. /\ Verdict(config, limit).checked = Cardinality(good)
      /\ good # {} /\ Verdict(config, limit).last_ok = l
  BY DEF Verdict
<1>2. DOMAIN log \subseteq Nat /\ limit \in Nat /\ TypeOK
  <2>1. limit \in Nat
    BY IdAssumption
  <2>2. TypeOK
    BY DEF ChainInv
  <2> QED BY <2>1, <2>2, IdAssumption DEF TypeOK
<1>3. l \in good /\ \A i \in good : i <= l
  BY <1>1, <1>2, LatestRow
<1>4. \A i \in good : Fault(config, i) = "none"
  BY <1>2
<1>5. ASSUME NEW i \in good, NEW j \in Before(i) PROVE j \in good
  <2>1. j \in DOMAIN log /\ i \in DOMAIN log /\ j < i /\ j \in Nat /\ i \in Nat
    BY <1>2, <1>5 DEF Before
  <2>2. Before(j) \subseteq Before(i)
    BY <1>2, <2>1 DEF Before
  <2>3. Cardinality(Before(j)) <= Cardinality(Before(i))
    BY <1>2, <2>1, <2>2, BeforeCounts, FS_Subset
  <2>4. Cardinality(Before(j)) \in Nat /\ Cardinality(Before(i)) \in Nat
    BY <1>2, <2>1, BeforeCounts
  <2>5. j \in rows
    BY <1>2, <2>1, <2>3, <2>4
  <2>6. \A b \in bad : j < b
    BY <1>2, <2>1
  <2> QED BY <2>5, <2>6
<1>6. good = Before(l) \cup {l}
  <2>1. \A i \in good : i \in DOMAIN log /\ i \in Nat
    BY <1>2
  <2>2. \A i \in good : i < l \/ i = l
    <3> HIDE DEF good, l
    <3> QED BY <1>3, <2>1
  <2>3. \A i \in good : i \in Before(l) \cup {l}
    BY <2>1, <2>2 DEF Before
  <2>4. \A i \in Before(l) : i \in good
    BY <1>3, <1>5
  <2> QED BY <1>3, <2>3, <2>4
<1>7. good \in SUBSET DOMAIN log
  OBVIOUS
<1>8. \A i \in good : Fault(config, i) = "none" /\ Before(i) \subseteq good
  BY <1>4, <1>5
<1> HIDE DEF good, l
<1>9. /\ Len(log[l].hash) = Cardinality(Before(l)) + 1
      /\ \A i \in Before(l) \cup {l} :
            log[l].hash[Cardinality(Before(i)) + 1] = Payload(log[i])
  BY <1>3, <1>7, <1>8, HashListsRows
<1>10. Cardinality(good) = Cardinality(Before(l)) + 1
  BY <1>2, <1>3, <1>6, <1>7, BeforeCounts
<1>11. \A i \in good : log[i] \in written
  BY <1>7, <1>8, AcceptedIsWritten
<1> QED BY <1>1, <1>6, <1>9, <1>10, <1>11

\* The rows up to the last one verify_chain accepts are all that were written
\* before it and as they were written (verify_chain, models/audit_store.py:120).
THEOREM SoundVerdict == Spec => []VerdictIsSound
BY ChainInvariant, SoundState, PTL

\* Keys that come to the ring make nothing invalid (models/audit_store.py:164).
THEOREM RotationHolds == Spec => RotationKeepsVerdict
<1> DEFINE Asked(i, limit) == limit = 0 \/ Cardinality(Before(i)) < limit
<1>1. ASSUME NEW c, NEW d, KeyRing(c) \subseteq KeyRing(d), NEW i \in DOMAIN log,
             Fault(c, i) = "none"
      PROVE  Fault(d, i) = "none"
  BY <1>1 DEF Fault, Signed
<1>2. ASSUME NEW c, NEW d, KeyRing(c) \subseteq KeyRing(d), NEW limit,
             Verdict(c, limit).ok
      PROVE  Verdict(d, limit).ok
  <2>1. \A i \in DOMAIN log : Asked(i, limit) => Fault(c, i) = "none"
    BY <1>2 DEF Verdict
  <2>2. \A i \in DOMAIN log : Asked(i, limit) => Fault(d, i) = "none"
    BY <1>1, <1>2, <2>1
  <2> QED BY <2>2 DEF Verdict
<1>3. KeyRing(config) \subseteq KeyRing(config') =>
          \A limit \in Ids \cup {0} :
             Verdict(config, limit).ok => Verdict(config', limit).ok
  BY <1>2
<1> QED BY <1>3, PTL DEF RotationKeepsVerdict
=============================================================================
