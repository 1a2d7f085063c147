------------------------------ MODULE AuditChain ------------------------------
(***************************************************************************)
(* The audit log of models/audit_store.py: entries that continue the hash  *)
(* of the latest entry, signed with a key that is rotated between runs of  *)
(* the application, and verify_chain, which the administrators' page       *)
(* /admin/audit.verify.json asks.                                          *)
(*                                                                         *)
(* Cryptography is ideal: the hash of an entry is the list of payloads     *)
(* hashed into it, so different contents have different hashes, and a      *)
(* signature is the pair of the secret and the hash it was made from.      *)
(*                                                                         *)
(* audit() is one transaction at READ COMMITTED: it reads the latest hash, *)
(* inserts its row, which draws the id from a sequence, and commits.       *)
(* Nothing is locked in between.                                           *)
(***************************************************************************)
EXTENDS Integers, Sequences, FiniteSets

CONSTANTS Writers,      \* requests (threads, processes) that call audit
          Events,       \* what audit is told; the request id and the time are
                        \* part of it, so that no event happens twice
          KeyIds, Secrets,
          Configs,      \* the settings the application is started with
          Ids,          \* audit_log.id, as far as the model counts
          MaxEdits,     \* bound on changes of the table by hand
          None

\* AUDIT_HMAC_KEY_ID, AUDIT_HMAC_SECRET and the pairs of AUDIT_HMAC_KEYRING.
ASSUME ConfigAssumption ==
    \A c \in Configs : /\ c.kid \in KeyIds /\ c.secret \in Secrets
                       /\ c.ring \in SUBSET (KeyIds \X Secrets)
ASSUME IdAssumption == Ids \subseteq Nat /\ MaxEdits \in Nat
ASSUME NoneAssumption == None \notin Events

VARIABLES log,        \* the committed rows: a function of their ids
          nextId,     \* the sequence behind audit_log.id
          tx,         \* the open transaction of each writer
          config,     \* the settings of the running application
          written,    \* history: the rows audit has committed
          edits,      \* history: changes of the table by hand
          overlapped  \* history: two calls of audit have overlapped

vars == <<log, nextId, tx, config, written, edits, overlapped>>

-----------------------------------------------------------------------------
\* The hash of no entry is the empty string.
Empty == << >>

ComputeHash(prev, payload) == Append(prev, payload)

Payload(row) == <<row.event, row.kid>>

Latest(S) == CHOOSE i \in S : \A j \in S : j <= i

\* What the code has in prev when it comes from the rows S.
HashOf(S) == IF S = {} THEN Empty ELSE log[Latest(S)].hash

\* Mutant of LatestHash: the order of the query is reversed.
EarliestHash == IF DOMAIN log = {} THEN Empty
                ELSE log[CHOOSE i \in DOMAIN log : \A j \in DOMAIN log : i <= j].hash

\* Mutant of LatestHash: rows that are not committed are read too.
UncommittedHash ==
    LET hashes == {<<i, log[i].hash>> : i \in DOMAIN log}
                  \cup {<<tx[w].id, tx[w].row.hash>> : w \in {v \in Writers : tx[v].id # 0}}
    IN IF hashes = {} THEN Empty
       ELSE (CHOOSE p \in hashes : \A q \in hashes : q[1] <= p[1])[2]

\* The hash of the committed row with the largest id.
LatestHash == HashOf(DOMAIN log)

Entry(e, c, prev) ==
    LET h == ComputeHash(prev, <<e, c.kid>>) IN
    [event |-> e, kid |-> c.kid, prev |-> prev, hash |-> h, sig |-> <<c.secret, h>>]

\* _load_keyring: the current key replaces a pair of the same id.
KeyRing(c) == {p \in c.ring : p[1] # c.kid} \cup {<<c.kid, c.secret>>}

-----------------------------------------------------------------------------
\* verify_chain goes through the rows in the order of their ids and asks of
\* each whether it continues the row before it.
Before(i) == {j \in DOMAIN log : j < i}

StoredBefore(i) == HashOf(Before(i))

Recomputed(i) == ComputeHash(StoredBefore(i), Payload(log[i]))

Signed(ring, i) == \E p \in ring : /\ p[1] = log[i].kid
                                   /\ log[i].sig = <<p[2], Recomputed(i)>>

\* Mutant of Fault: the signature is not compared.
FaultOfHashes(c, i) ==
    IF log[i].prev # StoredBefore(i) THEN "prev_hash_mismatch"
    ELSE IF log[i].hash # Recomputed(i) THEN "hash_mismatch"
    ELSE "none"

\* Mutant of Fault: only the link is followed.
FaultOfSignature(c, i) ==
    IF log[i].hash # ComputeHash(log[i].prev, Payload(log[i])) THEN "hash_mismatch"
    ELSE IF \E p \in KeyRing(c) : <<log[i].kid, log[i].sig[1]>> = p THEN "none"
    ELSE "signature_mismatch"

\* Mutant of Fault: every row is verified with the current key.
FaultByCurrentKey(c, i) ==
    IF log[i].prev # StoredBefore(i) THEN "prev_hash_mismatch"
    ELSE IF log[i].hash # Recomputed(i) THEN "hash_mismatch"
    ELSE IF log[i].sig = <<c.secret, Recomputed(i)>> THEN "none"
    ELSE "signature_mismatch"

\* The first reason to refuse row i, in the order of the code.
Fault(c, i) ==
    IF log[i].prev # StoredBefore(i) THEN "prev_hash_mismatch"
    ELSE IF log[i].hash # Recomputed(i) THEN "hash_mismatch"
    ELSE IF ~ \E p \in KeyRing(c) : p[1] = log[i].kid THEN "missing_key"
    ELSE IF Signed(KeyRing(c), i) THEN "none"
    ELSE "signature_mismatch"

\* verify_chain(limit) under the settings c; no limit, like a limit of zero,
\* means all the rows.
Verdict(c, limit) ==
    LET rows == {i \in DOMAIN log : limit = 0 \/ Cardinality(Before(i)) < limit}
        bad  == {i \in rows : Fault(c, i) # "none"}
        good == {i \in rows : \A j \in bad : i < j}
        first == CHOOSE i \in bad : \A j \in bad : i <= j
    IN [ok |-> bad = {}, checked |-> Cardinality(good),
        last_ok |-> IF good = {} THEN None ELSE Latest(good),
        first_bad |-> IF bad = {} THEN None ELSE first,
        reason |-> IF bad = {} THEN "none" ELSE Fault(c, first)]

-----------------------------------------------------------------------------
NoTx == [event |-> None, id |-> 0, row |-> None]

Init == /\ log = << >>
        /\ nextId = 1
        /\ tx = [w \in Writers |-> NoTx]
        /\ config \in Configs
        /\ written = {}
        /\ edits = 0
        /\ overlapped = FALSE

Fresh(e) == /\ \A r \in written : r.event # e
            /\ \A w \in Writers : tx[w].event # e

\* audit is called: it reads the latest hash and builds the entry.
Read(w, e) ==
    /\ tx[w] = NoTx /\ Fresh(e)
    /\ tx' = [tx EXCEPT ![w] = [event |-> e, id |-> 0,
                                row |-> Entry(e, config, LatestHash)]]
    /\ overlapped' = (overlapped \/ \E v \in Writers : tx[v] # NoTx)
    /\ UNCHANGED <<log, nextId, config, written, edits>>

\* Mutant of Insert: the id follows the largest one in the table.
InsertAfterLargest(w) ==
    LET next == Cardinality(DOMAIN log) + 1 IN
    /\ tx[w] # NoTx /\ tx[w].id = 0 /\ next \in Ids
    /\ tx' = [tx EXCEPT ![w].id = next]
    /\ nextId' = next + 1
    /\ UNCHANGED <<log, config, written, edits, overlapped>>

\* The flush inserts the row, which draws its id.
Insert(w) ==
    /\ tx[w] # NoTx /\ tx[w].id = 0 /\ nextId \in Ids
    /\ tx' = [tx EXCEPT ![w].id = nextId]
    /\ nextId' = nextId + 1
    /\ UNCHANGED <<log, config, written, edits, overlapped>>

Commit(w) ==
    /\ tx[w].id # 0
    /\ log' = [i \in DOMAIN log \cup {tx[w].id} |->
                  IF i = tx[w].id THEN tx[w].row ELSE log[i]]
    /\ written' = written \cup {tx[w].row}
    /\ tx' = [tx EXCEPT ![w] = NoTx]
    /\ UNCHANGED <<nextId, config, edits, overlapped>>

\* audit_session_scope rolls back; an id that was drawn is not used again.
Abort(w) ==
    /\ tx[w] # NoTx
    /\ tx' = [tx EXCEPT ![w] = NoTx]
    /\ UNCHANGED <<log, nextId, config, written, edits, overlapped>>

\* The application is started again, perhaps with other keys.
Restart(c) ==
    /\ config' = c
    /\ tx' = [w \in Writers |-> NoTx]
    /\ UNCHANGED <<log, nextId, written, edits, overlapped>>

\* A hand that has the table and none of the secrets changes what row i says
\* and, perhaps, makes its hash fit.
Edit(i, e, rehash) ==
    /\ edits < MaxEdits /\ log[i].event # e
    /\ log' = [log EXCEPT ![i] =
                  [@ EXCEPT !.event = e,
                            !.hash = IF rehash THEN ComputeHash(log[i].prev, <<e, log[i].kid>>)
                                     ELSE log[i].hash]]
    /\ edits' = edits + 1
    /\ UNCHANGED <<nextId, tx, config, written, overlapped>>

\* The same hand deletes row i.
Remove(i) ==
    /\ edits < MaxEdits
    /\ log' = [j \in DOMAIN log \ {i} |-> log[j]]
    /\ edits' = edits + 1
    /\ UNCHANGED <<nextId, tx, config, written, overlapped>>

Next == \/ \E w \in Writers, e \in Events : Read(w, e)
        \/ \E w \in Writers : Insert(w) \/ Commit(w) \/ Abort(w)
        \/ \E c \in Configs : Restart(c)
        \/ \E i \in DOMAIN log, e \in Events, rehash \in BOOLEAN : Edit(i, e, rehash)
        \/ \E i \in DOMAIN log : Remove(i)

Spec == Init /\ [][Next]_vars

-----------------------------------------------------------------------------
Payloads == Events \X KeyIds
Rows == [event : Events, kid : KeyIds, prev : Seq(Payloads), hash : Seq(Payloads),
         sig : Secrets \X Seq(Payloads)]

\* The table as models/schema.py declares it, and the rows in flight: an id
\* is drawn once, so no two writers hold the same and none is in the table.
TypeOK == /\ DOMAIN log \subseteq Ids /\ \A i \in DOMAIN log : log[i] \in Rows /\ i < nextId
          /\ nextId \in Nat \ {0}
          /\ DOMAIN tx = Writers
          /\ \A w \in Writers :
                \/ tx[w] = NoTx
                \/ /\ tx[w] \in [event : Events, id : Ids \cup {0}, row : Rows]
                   /\ tx[w].id < nextId
                   /\ tx[w].id # 0 => /\ tx[w].id \notin DOMAIN log
                                      /\ \A v \in Writers \ {w} : tx[v].id # tx[w].id
          /\ config \in Configs
          /\ \A r \in written : r \in Rows
          /\ edits \in 0 .. MaxEdits /\ overlapped \in BOOLEAN

\* What verify_chain calls good is good: the rows up to the last one it
\* accepts are as audit wrote them, and they are all the entries the accepted
\* one continues, from the first on.  (It cannot see that the newest rows are
\* gone.)
VerdictIsSound ==
    \A limit \in Ids \cup {0} :
        LET v == Verdict(config, limit) IN
        v.last_ok # None =>
            LET good == Before(v.last_ok) \cup {v.last_ok} IN
            /\ v.checked = Cardinality(good) /\ v.checked = Len(log[v.last_ok].hash)
            /\ \A i \in good : /\ log[i] \in written
                               /\ log[v.last_ok].hash[Cardinality(Before(i)) + 1] = Payload(log[i])

KeysKnown == \A i \in DOMAIN log :
    \E p \in KeyRing(config) : <<log[i].kid, log[i].sig[1]>> = p

Forked == \E i, j \in DOMAIN log : i # j /\ log[i].prev = log[j].prev

\* A table that nobody touched is refused exactly when two calls of audit
\* continued the same entry: neither the gaps that rollbacks leave in the
\* ids nor commits in another order than the ids are ever blamed.
VerdictBlamesForks ==
    edits = 0 /\ KeysKnown => (Verdict(config, 0).ok <=> ~Forked)

\* Calls of audit that do not overlap build one chain, whatever rolls back,
\* and however often the application is started anew with its old keys in
\* the ring.
SerialCallsChain ==
    edits = 0 /\ KeysKnown /\ ~overlapped => Verdict(config, 0).ok

\* The entry that another one continues has the lower id, so the order of
\* verify_chain meets it first; this holds with calls that overlap.
LinksPointBack ==
    edits = 0 => \A i \in DOMAIN log :
        log[i].prev = Empty \/ \E j \in Before(i) : log[j].hash = log[i].prev

\* A rotation that keeps the old keys in the ring takes back nothing that was
\* accepted: every prefix of the table that passed still passes.
RotationKeepsVerdict ==
    [][KeyRing(config) \subseteq KeyRing(config') /\ log' = log
          => \A limit \in Ids \cup {0} :
                Verdict(config, limit).ok => Verdict(config', limit).ok]_vars
=============================================================================
