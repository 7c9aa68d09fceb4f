---------------------------- MODULE HashChain_Proofs ----------------------------
(***************************************************************************)
(* Proofs about module HashChain, for any tenants, writers and contents,   *)
(* any length of the table and any limit of a verification.                *)
(*                                                                         *)
(* What an append committed carries its hash (InsertedHashes), a writer's  *)
(* prev_hash is that of an append it could read (ReadsAreOlder, SealedLinks),  *)
(* the seq it drew is nobody else's (DrawnIsOwn), and of a tenant whose    *)
(* links nobody tampered with the table holds just what was committed      *)
(* (Untouched).  That decides what a verification can report; that an      *)
(* append that overlaps no other keeps the chain also needs what a lone    *)
(* writer read to stay the latest row (LoneChain).                         *)
(***************************************************************************)
EXTENDS HashChain, FiniteSetTheorems, SequenceTheorems, WellFoundedInduction, TLAPS

USE ChainAssumption DEF NONE, Seqs, Genesis, NoRow, Entry, Hash, RowHash

\* What an append committed: columns and the hash over them, numbered below the
\* sequence, as every row is.
InsertedHashes ==
    \A s \in Seqs :
        /\ inserted[s] # NoRow =>
              /\ s < nextSeq
              /\ inserted[s].hash = RowHash(inserted[s].prev, EntryOf(inserted[s]))
        /\ s \in sealed => inserted[s] # NoRow
        /\ log[s] # NoRow => s < nextSeq

\* A writer at work has an entry; one that inserted has a seq of its own, where
\* no row is visible and none was before.
DrawnIsOwn ==
    \A w \in Writers :
        /\ pc[w] = "idle" <=> entry[w] = NoRow
        /\ pc[w] = "commit" =>
              /\ drawn[w] \in Seqs /\ drawn[w] < nextSeq
              /\ log[drawn[w]] = NoRow /\ inserted[drawn[w]] = NoRow
              /\ \A v \in Writers : pc[v] = "commit" /\ drawn[v] = drawn[w] => v = w

\* An append of the tenant, older than s, that wrote the hash
SealedBelow(t, hash, s) ==
    \E q \in sealed : q < s /\ inserted[q].tenant = t /\ inserted[q].hash = hash

\* The prev_hash a writer read is that of an append older than the one it inserts,
\* unless the tenant's links were tampered with.
ReadsAreOlder ==
    \A w \in Writers :
        pc[w] # "idle" /\ entry[w].tenant \notin relinked /\ prevHash[w] # Genesis =>
            SealedBelow(entry[w].tenant, prevHash[w],
                        IF pc[w] = "commit" THEN drawn[w] ELSE nextSeq)

SealedLinks ==
    \A p \in sealed :
        inserted[p].prev # Genesis => SealedBelow(inserted[p].tenant, inserted[p].prev, p)

\* The rows of a tenant whose links nobody tampered with
Untouched ==
    \A t \in Tenants \ relinked, s \in Seqs :
        /\ s \in RowsOf(t) <=> s \in sealed /\ inserted[s].tenant = t
        /\ s \in RowsOf(t) => log[s].prev = inserted[s].prev /\ log[s].hash = inserted[s].hash

ChainInv ==
    TypeOK /\ InsertedHashes /\ DrawnIsOwn /\ ReadsAreOlder /\ SealedLinks /\ Untouched

-----------------------------------------------------------------------------
(* Numbers.                                                                *)

LEMMA LeastExists ==
    ASSUME NEW T \in SUBSET Nat, T # {}
    PROVE  \E u \in T : \A v \in T : u <= v
<1>1. \E u \in T : \A v \in T : <<v, u>> \notin OpToRel(<, Nat)
  BY NatLessThanWellFounded, WFMin
<1>2. ASSUME NEW u \in Nat, NEW v \in Nat, v < u PROVE <<v, u>> \in OpToRel(<, Nat)
  BY <1>2, Zenon DEF OpToRel
<1>3. PICK u \in T : \A v \in T : <<v, u>> \notin OpToRel(<, Nat)
  BY <1>1
<1>4. \A v \in T : ~(v < u)
  BY <1>2, <1>3
<1> QED
  BY <1>4

LEMMA GreatestExists ==
    ASSUME NEW T \in SUBSET Seqs, T # {}
    PROVE  \E u \in T : \A v \in T : v <= u
<1> DEFINE R == {MaxRows - v : v \in T}
<1>1. R \in SUBSET Nat
  OBVIOUS
<1>2. R # {}
  OBVIOUS
<1> HIDE DEF R
<1>3. PICK n \in R : \A m \in R : n <= m
  BY <1>1, <1>2, LeastExists
<1>4. PICK u \in T : n = MaxRows - u
  BY <1>3 DEF R
<1>5. \A v \in T : MaxRows - u <= MaxRows - v
  BY <1>3, <1>4 DEF R
<1> QED
  BY <1>5

-----------------------------------------------------------------------------
(* HashBelow.                                                              *)

\* A row below s: the latest of them is one row, and HashBelow is its hash.
LEMMA LatestExists ==
    \A t \in Tenants, s \in Int :
        (\E u \in RowsOf(t) : u < s) => \E u \in Seqs : IsLatestBelow(t, s, u)
<1> SUFFICES ASSUME NEW t \in Tenants, NEW s \in Int, \E u \in RowsOf(t) : u < s
             PROVE  \E u \in Seqs : IsLatestBelow(t, s, u)
  OBVIOUS
<1> DEFINE T == {u \in RowsOf(t) : u < s}
<1>1. T \in SUBSET Seqs /\ T # {}
  BY DEF RowsOf
<1>2. PICK u \in T : \A v \in T : v <= u
  BY <1>1, GreatestExists
<1> QED
  BY <1>1, <1>2 DEF IsLatestBelow

LEMMA HashBelowLatest ==
    \A t \in Tenants, s \in Int, u \in Seqs :
        IsLatestBelow(t, s, u) => HashBelow(t, s) = log[u].hash
<1> SUFFICES ASSUME NEW t \in Tenants, NEW s \in Int, NEW u \in Seqs, IsLatestBelow(t, s, u)
             PROVE  HashBelow(t, s) = log[u].hash
  OBVIOUS
<1> DEFINE v == CHOOSE x \in Seqs : IsLatestBelow(t, s, x)
<1>1. v \in Seqs /\ IsLatestBelow(t, s, v)
  BY Zenon
<1>2. HashBelow(t, s) = log[v].hash
  BY DEF HashBelow, IsLatestBelow
<1> HIDE DEF v
<1>3. u = v
  BY <1>1 DEF IsLatestBelow
<1> QED
  BY <1>2, <1>3

LEMMA HashBelowNone ==
    \A t \in Tenants, s \in Int :
        (\A u \in RowsOf(t) : ~(u < s)) => HashBelow(t, s) = Genesis
  BY DEF HashBelow

-----------------------------------------------------------------------------
(* Types.                                                                  *)

\* A seq with a visible row, and the rows of a tenant.
LEMMA RowType ==
    ASSUME TypeOK, NEW s \in Seqs, log[s] # NoRow
    PROVE  /\ log[s] \in Row
           /\ log[s].tenant \in Tenants /\ log[s].content \in Contents
           /\ log[s].prev \in Hash /\ log[s].hash \in Hash
           /\ s \in RowsOf(log[s].tenant)
  BY DEF TypeOK, Row, RowsOf

LEMMA RowsVisible ==
    ASSUME NEW t \in Tenants, NEW s \in RowsOf(t)
    PROVE  s \in Seqs /\ log[s] # NoRow /\ log[s].tenant = t
  BY DEF RowsOf

LEMMA GenesisType == Genesis \in Hash
  BY EmptySeq

LEMMA HashBelowType ==
    ASSUME TypeOK, NEW t \in Tenants, NEW s \in Int
    PROVE  HashBelow(t, s) \in Hash
<1>1. CASE \E u \in RowsOf(t) : u < s
  <2>1. PICK u \in Seqs : IsLatestBelow(t, s, u)
    BY <1>1, LatestExists
  <2>2. u \in RowsOf(t)
    BY <2>1 DEF IsLatestBelow
  <2>3. log[u] # NoRow
    BY <2>2, RowsVisible
  <2>4. log[u].hash \in Hash
    BY <2>3, RowType
  <2> QED
    BY <2>1, <2>4, HashBelowLatest
<1>2. CASE \A u \in RowsOf(t) : ~(u < s)
  BY <1>2, HashBelowNone, GenesisType
<1> QED
  BY <1>1, <1>2

LEMMA EndType ==
    ASSUME TypeOK, NEW w \in Writers, End(w)
    PROVE  /\ pc' \in [Writers -> {"idle", "compute", "commit"}]
           /\ entry' \in [Writers -> Entry \cup {NoRow}]
           /\ prevHash' \in [Writers -> Hash]
           /\ drawn' \in [Writers -> 0..MaxRows]
<1>1. pc' \in [Writers -> {"idle", "compute", "commit"}]
  BY DEF End, TypeOK
<1>2. entry' \in [Writers -> Entry \cup {NoRow}]
  BY DEF End, TypeOK
<1>3. prevHash' \in [Writers -> Hash]
  BY GenesisType DEF End, TypeOK
<1>4. drawn' \in [Writers -> 0..MaxRows]
  BY DEF End, TypeOK
<1> QED
  BY <1>1, <1>2, <1>3, <1>4

\* The row a writer inserts.
NewRow(w) == RowWith(entry[w], "written", prevHash[w], RowHash(prevHash[w], entry[w]))

\* What a commit does to the table, said about one seq at a time.
LEMMA CommitEffect ==
    ASSUME TypeOK, DrawnIsOwn, NEW w \in Writers, Commit(w)
    PROVE  /\ pc[w] = "commit" /\ entry[w] \in Entry /\ prevHash[w] \in Hash
           /\ drawn[w] \in Seqs /\ drawn[w] < nextSeq
           /\ log[drawn[w]] = NoRow /\ inserted[drawn[w]] = NoRow
           /\ NewRow(w) \in Row /\ NewRow(w) # NoRow
           /\ NewRow(w).tenant = entry[w].tenant /\ NewRow(w).prev = prevHash[w]
           /\ NewRow(w).hash = RowHash(prevHash[w], EntryOf(NewRow(w)))
           /\ HashedPart(NewRow(w)) \in Hashed
           /\ log' = [log EXCEPT ![drawn[w]] = NewRow(w)]
           /\ inserted' = [inserted EXCEPT ![drawn[w]] = HashedPart(NewRow(w))]
           /\ sealed' = IF entry[w].tenant \in relinked THEN sealed ELSE sealed \cup {drawn[w]}
           /\ End(w) /\ UNCHANGED <<nextSeq, overlapped, relinked, tampers>>
<1>1. pc[w] = "commit" /\ entry[w] \in Entry /\ prevHash[w] \in Hash
      /\ entry[w].tenant \in Tenants /\ entry[w].content \in Contents
  BY DEF Commit, DrawnIsOwn, TypeOK
<1>2. drawn[w] \in Seqs /\ drawn[w] < nextSeq /\ log[drawn[w]] = NoRow
      /\ inserted[drawn[w]] = NoRow
  BY DEF Commit, DrawnIsOwn
<1>3. Append(prevHash[w], entry[w]) \in Hash
  BY <1>1, AppendProperties
<1>4. /\ NewRow(w) \in Row /\ NewRow(w) # NoRow
      /\ NewRow(w).tenant = entry[w].tenant /\ NewRow(w).content = entry[w].content
      /\ NewRow(w).prev = prevHash[w] /\ NewRow(w).hash = RowHash(prevHash[w], entry[w])
  BY <1>1, <1>3 DEF NewRow, RowWith, Row
<1>5. entry[w] = EntryOf(NewRow(w))
  BY <1>1, <1>4 DEF EntryOf
<1>6. HashedPart(NewRow(w)) \in Hashed
  BY <1>1, <1>3, <1>4 DEF HashedPart, Hashed
<1>7. /\ log' = [log EXCEPT ![drawn[w]] = NewRow(w)]
      /\ inserted' = [inserted EXCEPT ![drawn[w]] = HashedPart(NewRow(w))]
      /\ sealed' = IF NewRow(w).tenant \in relinked THEN sealed ELSE sealed \cup {drawn[w]}
      /\ End(w) /\ UNCHANGED <<nextSeq, overlapped, relinked, tampers>>
  BY DEF Commit, NewRow
<1> QED
  BY <1>1, <1>2, <1>4, <1>5, <1>6, <1>7

LEMMA KnownType ==
    ASSUME TypeOK
    PROVE  Known \subseteq Hash
  BY GenesisType, RowType DEF Known

\* What tampering leaves in the table is a row or none.
LEMMA ForgedType ==
    ASSUME TypeOK, NEW s \in Seqs, NEW r \in Forged(s)
    PROVE  r \in Row \cup {NoRow}
<1>1. CASE log[s] = NoRow
  <2>1. PICK e \in Entry, p \in Known : r = RowWith(e, "written", p, RowHash(p, e))
    BY <1>1 DEF Forged, Added
  <2>2. p \in Hash /\ Append(p, e) \in Hash
    BY <2>1, KnownType, AppendProperties
  <2> QED
    BY <2>1, <2>2 DEF RowWith, Row
<1>2. CASE log[s] # NoRow /\ r # NoRow
  <2> DEFINE q == log[s]
             one == {[q EXCEPT !.tenant = t] : t \in Tenants}
                        \cup {[q EXCEPT !.content = c] : c \in Contents}
                        \cup {[q EXCEPT !.rest = "changed"]}
                        \cup {[q EXCEPT !.prev = p] : p \in Known}
  <2>1. q \in Row
    BY <1>2, RowType
  <2>2. one \subseteq Row
    <3> HIDE DEF q
    <3> QED
      BY <2>1, KnownType DEF Row
  <2>3. \A x \in Row, h \in Hash : [x EXCEPT !.hash = h] \in Row
    BY DEF Row
  <2>4. \A x \in Row : Append(x.prev, EntryOf(x)) \in Hash
    <3> SUFFICES ASSUME NEW x \in Row PROVE Append(x.prev, EntryOf(x)) \in Hash
      OBVIOUS
    <3>1. x.prev \in Hash /\ EntryOf(x) \in Entry
      BY DEF Row, EntryOf
    <3> QED
      BY <3>1, AppendProperties
  <2>5. r \in one \cup {[x EXCEPT !.hash = RowHash(x.prev, EntryOf(x))] : x \in one}
              \cup {[q EXCEPT !.hash = h] : h \in Known}
    BY <1>2 DEF Forged, Changed
  <2> HIDE DEF one, q
  <2> QED
    <3>1. CASE r \in one
      BY <2>2, <3>1
    <3>2. ASSUME NEW x \in one, r = [x EXCEPT !.hash = RowHash(x.prev, EntryOf(x))]
          PROVE  r \in Row
      BY <2>2, <2>3, <2>4, <3>2
    <3>3. ASSUME NEW h \in Known, r = [q EXCEPT !.hash = h]
          PROVE  r \in Row
      BY <2>1, <2>3, <3>3, KnownType
    <3> QED
      BY <2>5, <3>1, <3>2, <3>3
<1> QED
  BY <1>1, <1>2

LEMMA TamperEffect ==
    ASSUME TypeOK, NEW s \in Seqs, NEW r \in Forged(s), Tamper(s, r)
    PROVE  /\ r \in Row \cup {NoRow} /\ s < nextSeq
           /\ \A w \in Writers : pc[w] = "commit" => drawn[w] # s
           /\ log' = [log EXCEPT ![s] = r] /\ log'[s] = r
           /\ \A u \in Seqs : u # s => log'[u] = log[u]
           /\ relinked \subseteq relinked' /\ relinked' \subseteq Tenants
           /\ SameLinks(log[s], r) \/ {log[s].tenant, r.tenant} \cap Tenants \subseteq relinked'
           /\ tampers' \in 0..MaxTampers
           /\ UNCHANGED <<nextSeq, pc, entry, prevHash, drawn, overlapped, inserted, sealed>>
<1>1. r \in Row \cup {NoRow}
  BY ForgedType
<1>2. log[s] \in Row \cup {NoRow}
  BY DEF TypeOK
<1>3. log[s].tenant \in Tenants \cup {NONE} /\ r.tenant \in Tenants \cup {NONE}
  BY <1>1, <1>2 DEF Row
<1>4. /\ relinked' \subseteq Tenants /\ relinked \subseteq relinked'
      /\ SameLinks(log[s], r) \/ {log[s].tenant, r.tenant} \cap Tenants \subseteq relinked'
  BY <1>3 DEF Tamper, TypeOK
<1>5. /\ log' = [log EXCEPT ![s] = r] /\ log'[s] = r
      /\ \A u \in Seqs : u # s => log'[u] = log[u]
  BY DEF Tamper, TypeOK
<1>6. tampers' \in 0..MaxTampers
  BY DEF Tamper, TypeOK
<1>7. /\ s < nextSeq /\ \A w \in Writers : pc[w] = "commit" => drawn[w] # s
      /\ UNCHANGED <<nextSeq, pc, entry, prevHash, drawn, overlapped, inserted, sealed>>
  BY DEF Tamper, callVars
<1> QED
  BY <1>1, <1>4, <1>5, <1>6, <1>7

LEMMA TypeStep ==
    ASSUME TypeOK, DrawnIsOwn, [Next]_vars
    PROVE  TypeOK'
<1>1. ASSUME NEW w \in Writers, NEW e \in Entry, ReadLatest(w, e)
      PROVE  TypeOK'
  <2>1. HashBelow(e.tenant, MaxRows + 1) \in Hash
    BY HashBelowType, e.tenant \in Tenants, MaxRows + 1 \in Int
  <2>2. prevHash' \in [Writers -> Hash]
    BY <1>1, <2>1 DEF ReadLatest, TypeOK
  <2>3. overlapped' \subseteq Tenants
    BY <1>1 DEF ReadLatest, TypeOK
  <2> QED
    BY <1>1, <2>2, <2>3 DEF ReadLatest, TypeOK, tableVars
<1>2. ASSUME NEW w \in Writers, Insert(w)
      PROVE  TypeOK'
  <2>1. drawn' \in [Writers -> 0..MaxRows] /\ nextSeq' \in 1..(MaxRows + 1)
    BY <1>2 DEF Insert, TypeOK
  <2>2. pc' \in [Writers -> {"idle", "compute", "commit"}]
    BY <1>2 DEF Insert, TypeOK
  <2> QED
    BY <1>2, <2>1, <2>2 DEF Insert, TypeOK, tableVars
<1>3. ASSUME NEW w \in Writers, Commit(w)
      PROVE  TypeOK'
  <2>1. log' \in [Seqs -> Row \cup {NoRow}]
    <3>1. /\ log' = [log EXCEPT ![drawn[w]] = NewRow(w)]
          /\ NewRow(w) \in Row
      BY <1>3, CommitEffect
    <3> QED
      BY <3>1, Zenon DEF TypeOK
  <2>2. inserted' \in [Seqs -> Hashed \cup {NoRow}]
    <3>1. /\ inserted' = [inserted EXCEPT ![drawn[w]] = HashedPart(NewRow(w))]
          /\ HashedPart(NewRow(w)) \in Hashed
      BY <1>3, CommitEffect
    <3> QED
      BY <3>1, Zenon DEF TypeOK
  <2>3. /\ sealed' \subseteq Seqs
        /\ UNCHANGED <<nextSeq, overlapped, relinked, tampers>>
    <3>1. /\ drawn[w] \in Seqs
          /\ sealed' = IF entry[w].tenant \in relinked THEN sealed ELSE sealed \cup {drawn[w]}
          /\ UNCHANGED <<nextSeq, overlapped, relinked, tampers>>
      BY <1>3, CommitEffect
    <3> QED
      BY <3>1 DEF TypeOK
  <2>4. End(w)
    BY <1>3, CommitEffect
  <2> QED
    BY <2>1, <2>2, <2>3, <2>4, EndType DEF TypeOK
<1>4. ASSUME NEW w \in Writers, Lose(w)
      PROVE  TypeOK'
  BY <1>4, EndType DEF Lose, TypeOK, tableVars
<1>5. ASSUME NEW s \in Seqs, NEW r \in Forged(s), Tamper(s, r)
      PROVE  TypeOK'
  <2>1. /\ r \in Row \cup {NoRow} /\ log' = [log EXCEPT ![s] = r]
        /\ relinked' \subseteq Tenants /\ tampers' \in 0..MaxTampers
        /\ UNCHANGED <<nextSeq, pc, entry, prevHash, drawn, overlapped, inserted, sealed>>
    BY <1>5, TamperEffect
  <2>2. log' \in [Seqs -> Row \cup {NoRow}]
    BY <2>1, Zenon DEF TypeOK
  <2> QED
    BY <2>1, <2>2 DEF TypeOK
<1>6. CASE UNCHANGED vars
  BY <1>6 DEF vars, callVars, tableVars, TypeOK
<1> QED
  BY <1>1, <1>2, <1>3, <1>4, <1>5, <1>6 DEF Next

-----------------------------------------------------------------------------
(* Steps.                                                                  *)

LEMMA OneOf ==
    ASSUME [Next]_vars
    PROVE  \/ \E w \in Writers : \/ \E e \in Entry : ReadLatest(w, e)
                                 \/ Insert(w)
                                 \/ Commit(w)
                                 \/ Lose(w)
           \/ \E s \in Seqs : \E r \in Forged(s) : Tamper(s, r)
           \/ UNCHANGED vars
  BY Zenon DEF Next

\* Only a commit and tampering change the table.
LEMMA TableSteps ==
    ASSUME [Next]_vars
    PROVE  \/ UNCHANGED <<log, inserted, sealed, relinked>>
           \/ \E w \in Writers : Commit(w)
           \/ \E s \in Seqs : \E r \in Forged(s) : Tamper(s, r)
<1>1. ASSUME NEW w \in Writers, (\E e \in Entry : ReadLatest(w, e)) \/ Insert(w) \/ Lose(w)
      PROVE  UNCHANGED tableVars
  BY <1>1 DEF ReadLatest, Insert, Lose
<1>2. UNCHANGED vars => UNCHANGED tableVars
  BY DEF vars
<1>3. UNCHANGED tableVars => UNCHANGED <<log, inserted, sealed, relinked>>
  BY DEF tableVars
<1> QED
  BY <1>1, <1>2, <1>3, OneOf

LEMMA RelinkedStays ==
    ASSUME TypeOK, [Next]_vars
    PROVE  relinked \subseteq relinked'
<1>1. ASSUME NEW w \in Writers, Commit(w)
      PROVE  relinked' = relinked
  BY <1>1 DEF Commit
<1>2. ASSUME NEW s, NEW r, Tamper(s, r)
      PROVE  relinked \subseteq relinked'
  BY <1>2 DEF Tamper
<1> QED
  BY <1>1, <1>2, TableSteps

\* What happens at one seq: nothing, a commit, or tampering.
LEMMA AtSeq ==
    ASSUME TypeOK, DrawnIsOwn, [Next]_vars, NEW s \in Seqs
    PROVE  /\ relinked \subseteq relinked'
           /\ \/ /\ log'[s] = log[s] /\ inserted'[s] = inserted[s]
                 /\ s \in sealed' <=> s \in sealed
              \/ /\ log[s] = NoRow /\ inserted[s] = NoRow
                 /\ \E w \in Writers :
                       /\ Commit(w) /\ s = drawn[w] /\ log'[s] = NewRow(w)
                       /\ inserted'[s] = HashedPart(NewRow(w))
                       /\ relinked' = relinked
                       /\ sealed' = IF entry[w].tenant \in relinked THEN sealed
                                    ELSE sealed \cup {s}
              \/ /\ inserted'[s] = inserted[s]
                 /\ s \in sealed' <=> s \in sealed
                 /\ s < nextSeq
                 /\ \/ SameLinks(log[s], log'[s])
                    \/ {log[s].tenant, log'[s].tenant} \cap Tenants \subseteq relinked'
<1>1. ASSUME NEW w \in Writers, Commit(w), s # drawn[w]
      PROVE  /\ log'[s] = log[s] /\ inserted'[s] = inserted[s] /\ relinked' = relinked
             /\ s \in sealed' <=> s \in sealed
  <2>1. /\ log' = [log EXCEPT ![drawn[w]] = NewRow(w)]
        /\ inserted' = [inserted EXCEPT ![drawn[w]] = HashedPart(NewRow(w))]
        /\ sealed' = IF entry[w].tenant \in relinked THEN sealed ELSE sealed \cup {drawn[w]}
        /\ relinked' = relinked
    BY <1>1, CommitEffect
  <2> QED
    BY <1>1, <2>1 DEF TypeOK
<1>2. ASSUME NEW w \in Writers, Commit(w), s = drawn[w]
      PROVE  /\ log[s] = NoRow /\ inserted[s] = NoRow /\ log'[s] = NewRow(w)
             /\ inserted'[s] = HashedPart(NewRow(w)) /\ relinked' = relinked
             /\ sealed' = IF entry[w].tenant \in relinked THEN sealed ELSE sealed \cup {s}
  <2>1. /\ log' = [log EXCEPT ![s] = NewRow(w)]
        /\ inserted' = [inserted EXCEPT ![s] = HashedPart(NewRow(w))]
        /\ sealed' = IF entry[w].tenant \in relinked THEN sealed ELSE sealed \cup {s}
        /\ relinked' = relinked /\ log[s] = NoRow /\ inserted[s] = NoRow
    BY <1>2, CommitEffect
  <2> QED
    BY <2>1 DEF TypeOK
<1>3. ASSUME NEW u \in Seqs, NEW r \in Forged(u), Tamper(u, r)
      PROVE  /\ relinked \subseteq relinked' /\ inserted'[s] = inserted[s]
             /\ s \in sealed' <=> s \in sealed
             /\ \/ log'[s] = log[s]
                \/ /\ s < nextSeq
                   /\ \/ SameLinks(log[s], log'[s])
                      \/ {log[s].tenant, log'[s].tenant} \cap Tenants \subseteq relinked'
  <2>1. CASE u = s
    BY <1>3, <2>1, TamperEffect
  <2>2. CASE u # s
    BY <1>3, <2>2, TamperEffect
  <2> QED
    BY <2>1, <2>2
<1>4. CASE UNCHANGED <<log, inserted, sealed, relinked>>
  BY <1>4
<1>5. ASSUME NEW w \in Writers, Commit(w)
      PROVE  \/ s # drawn[w]
             \/ s = drawn[w]
  OBVIOUS
<1> QED
  BY <1>1, <1>2, <1>3, <1>4, TableSteps

\* What was committed stays known.
LEMMA InsertedStays ==
    ASSUME TypeOK, DrawnIsOwn, InsertedHashes, [Next]_vars, NEW s \in sealed
    PROVE  s \in Seqs /\ s \in sealed' /\ inserted'[s] = inserted[s]
<1>1. s \in Seqs /\ inserted[s] # NoRow
  BY DEF TypeOK, InsertedHashes
<1> QED
  BY <1>1, AtSeq

LEMMA SealedBelowStays ==
    ASSUME TypeOK, DrawnIsOwn, InsertedHashes, [Next]_vars,
           NEW t, NEW h, NEW s \in Int, SealedBelow(t, h, s)
    PROVE  SealedBelow(t, h, s)'
<1>1. PICK q \in sealed : q < s /\ inserted[q].tenant = t /\ inserted[q].hash = h
  BY DEF SealedBelow
<1>2. q \in sealed' /\ inserted'[q] = inserted[q]
  BY InsertedStays
<1> QED
  BY <1>1, <1>2 DEF SealedBelow

\* The rows of a tenant whose links nobody tampers with: one stays, its links with it;
\* a new one is committed.
LEMMA RowsStay ==
    ASSUME TypeOK, DrawnIsOwn, [Next]_vars, NEW t \in Tenants, t \notin relinked', NEW s \in Seqs
    PROVE  /\ t \notin relinked
           /\ \/ /\ s \in RowsOf(t)' <=> s \in RowsOf(t)
                 /\ s \in RowsOf(t) => log'[s].prev = log[s].prev /\ log'[s].hash = log[s].hash
                 /\ inserted'[s] = inserted[s]
                 /\ s \in sealed' <=> s \in sealed
              \/ /\ log[s] = NoRow
                 /\ \E w \in Writers :
                       /\ Commit(w) /\ s = drawn[w] /\ log'[s] = NewRow(w)
                       /\ inserted'[s] = HashedPart(NewRow(w))
                       /\ sealed' = IF entry[w].tenant \in relinked THEN sealed
                                    ELSE sealed \cup {s}
<1>1. t \notin relinked
  BY AtSeq
<1>2. CASE log'[s] = log[s] /\ inserted'[s] = inserted[s] /\ (s \in sealed' <=> s \in sealed)
  BY <1>1, <1>2 DEF RowsOf
<1>3. CASE /\ log[s] = NoRow
           /\ \E w \in Writers :
                 /\ Commit(w) /\ s = drawn[w] /\ log'[s] = NewRow(w)
                 /\ inserted'[s] = HashedPart(NewRow(w))
                 /\ sealed' = IF entry[w].tenant \in relinked THEN sealed ELSE sealed \cup {s}
  BY <1>1, <1>3
<1>4. CASE /\ inserted'[s] = inserted[s] /\ (s \in sealed' <=> s \in sealed)
           /\ SameLinks(log[s], log'[s])
  BY <1>1, <1>4 DEF RowsOf, SameLinks
<1>5. CASE /\ inserted'[s] = inserted[s] /\ (s \in sealed' <=> s \in sealed)
           /\ {log[s].tenant, log'[s].tenant} \cap Tenants \subseteq relinked'
  BY <1>1, <1>5 DEF RowsOf
<1> QED
  BY <1>2, <1>3, <1>4, <1>5, AtSeq

\* Rows are numbered below the sequence.
LEMMA RowsNumbered ==
    ASSUME InsertedHashes, NEW s \in Seqs, log[s] # NoRow
    PROVE  s < nextSeq
  BY Zenon DEF InsertedHashes

LEMMA SequenceGrows ==
    ASSUME TypeOK, [Next]_vars
    PROVE  nextSeq \in Nat /\ nextSeq' \in Nat /\ nextSeq <= nextSeq'
<1>1. nextSeq \in Nat
  BY DEF TypeOK
<1>2. nextSeq' = nextSeq \/ nextSeq' = nextSeq + 1
  <2>1. ASSUME NEW w \in Writers
        PROVE  /\ \A e \in Entry : ReadLatest(w, e) => nextSeq' = nextSeq
               /\ Insert(w) => nextSeq' = nextSeq + 1
               /\ Commit(w) \/ Lose(w) => nextSeq' = nextSeq
    BY DEF ReadLatest, Insert, Commit, Lose
  <2>2. ASSUME NEW s, NEW r, Tamper(s, r)
        PROVE  nextSeq' = nextSeq
    BY <2>2 DEF Tamper, callVars
  <2>3. UNCHANGED vars => nextSeq' = nextSeq
    BY DEF vars, callVars
  <2> QED
    BY <2>1, <2>2, <2>3, OneOf
<1> QED
  BY <1>1, <1>2

\* The rows of a tenant whose links nobody tampers with stay its rows.
LEMMA RowsOfGrows ==
    ASSUME TypeOK, DrawnIsOwn, [Next]_vars, NEW t \in Tenants, t \notin relinked',
           NEW u \in RowsOf(t)
    PROVE  /\ u \in RowsOf(t)' /\ u \in Seqs /\ log'[u].tenant = t
           /\ log'[u].hash = log[u].hash /\ log'[u].prev = log[u].prev
<1>1. u \in Seqs /\ log[u] # NoRow /\ log[u].tenant = t
  BY RowsVisible
<1>2. u \in RowsOf(t)' /\ log'[u].prev = log[u].prev /\ log'[u].hash = log[u].hash
  BY <1>1, RowsStay
<1> QED
  BY <1>1, <1>2 DEF RowsOf

LEMMA InsertedStep ==
    ASSUME TypeOK, DrawnIsOwn, InsertedHashes, [Next]_vars
    PROVE  InsertedHashes'
<1> DEFINE Fine(s) ==
       /\ inserted[s] # NoRow => /\ s < nextSeq
                                 /\ inserted[s].hash = Append(inserted[s].prev, EntryOf(inserted[s]))
       /\ s \in sealed => inserted[s] # NoRow
       /\ log[s] # NoRow => s < nextSeq
<1> SUFFICES ASSUME NEW s \in Seqs
             PROVE  Fine(s)'
  BY DEF InsertedHashes
<1>1. nextSeq \in Nat /\ nextSeq' \in Nat /\ nextSeq <= nextSeq'
  BY SequenceGrows
<1>2. Fine(s)
  BY DEF InsertedHashes
<1>3. ASSUME log[s] = NoRow, inserted[s] = NoRow,
             NEW w \in Writers, Commit(w), s = drawn[w], log'[s] = NewRow(w),
             inserted'[s] = HashedPart(NewRow(w))
      PROVE  Fine(s)'
  <2>1. /\ s < nextSeq /\ NewRow(w).prev = prevHash[w] /\ HashedPart(NewRow(w)) \in Hashed
        /\ NewRow(w).hash = Append(prevHash[w], EntryOf(NewRow(w)))
    BY <1>3, CommitEffect
  <2>2. /\ HashedPart(NewRow(w)).hash = NewRow(w).hash /\ HashedPart(NewRow(w)).prev = NewRow(w).prev
        /\ EntryOf(HashedPart(NewRow(w))) = EntryOf(NewRow(w))
    BY DEF HashedPart, EntryOf
  <2>3. HashedPart(NewRow(w)) # NoRow
    BY <2>1 DEF Hashed
  <2> QED
    BY <1>1, <1>3, <2>1, <2>2, <2>3
<1>4. ASSUME inserted'[s] = inserted[s], s \in sealed' <=> s \in sealed,
             log'[s] = log[s] \/ s < nextSeq
      PROVE  Fine(s)'
  BY <1>1, <1>2, <1>4
<1> HIDE DEF Fine
<1> QED
  BY <1>3, <1>4, AtSeq

LEMMA DrawnStep ==
    ASSUME TypeOK, DrawnIsOwn, InsertedHashes, [Next]_vars
    PROVE  DrawnIsOwn'
<1>1. ASSUME NEW w \in Writers, NEW e \in Entry, ReadLatest(w, e)
      PROVE  DrawnIsOwn'
  <2>1. UNCHANGED <<log, inserted>>
    BY <1>1 DEF ReadLatest, tableVars
  <2> QED
    BY <1>1, <2>1 DEF ReadLatest, DrawnIsOwn, TypeOK
<1>2. ASSUME NEW w \in Writers, Insert(w)
      PROVE  DrawnIsOwn'
  <2>1. log[nextSeq] = NoRow /\ inserted[nextSeq] = NoRow
    <3>1. nextSeq \in Seqs /\ ~(nextSeq < nextSeq)
      BY <1>2 DEF Insert
    <3> QED
      BY <3>1, Zenon DEF InsertedHashes
  <2>2. /\ pc[w] = "compute" /\ nextSeq \in Seqs /\ nextSeq' = nextSeq + 1
        /\ drawn' = [drawn EXCEPT ![w] = nextSeq] /\ pc' = [pc EXCEPT ![w] = "commit"]
        /\ UNCHANGED <<log, inserted, entry>>
    BY <1>2 DEF Insert, tableVars
  <2> QED
    BY <2>1, <2>2 DEF DrawnIsOwn, TypeOK
<1>3. ASSUME NEW w \in Writers, End(w), UNCHANGED nextSeq,
             \A s \in Seqs : log'[s] # log[s] \/ inserted'[s] # inserted[s]
                                => pc[w] = "commit" /\ s = drawn[w]
      PROVE  DrawnIsOwn'
  BY <1>3 DEF End, DrawnIsOwn, TypeOK
<1>4. ASSUME NEW w \in Writers, Commit(w)
      PROVE  DrawnIsOwn'
  <2>1. /\ log' = [log EXCEPT ![drawn[w]] = NewRow(w)]
        /\ inserted' = [inserted EXCEPT ![drawn[w]] = HashedPart(NewRow(w))]
        /\ pc[w] = "commit" /\ End(w) /\ UNCHANGED nextSeq
    BY <1>4, CommitEffect
  <2>2. \A s \in Seqs : log'[s] # log[s] \/ inserted'[s] # inserted[s] => s = drawn[w]
    BY <2>1, Zenon DEF TypeOK
  <2> QED
    BY <1>3, <2>1, <2>2
<1>5. ASSUME NEW w \in Writers, Lose(w)
      PROVE  DrawnIsOwn'
  <2>1. End(w) /\ nextSeq' = nextSeq /\ log' = log /\ inserted' = inserted
    BY <1>5 DEF Lose, tableVars
  <2> QED
    BY <1>3, <2>1
<1>6. ASSUME NEW s \in Seqs, NEW r \in Forged(s), Tamper(s, r)
      PROVE  DrawnIsOwn'
  <2>1. /\ \A w \in Writers : pc[w] = "commit" => drawn[w] # s
        /\ \A u \in Seqs : u # s => log'[u] = log[u]
        /\ UNCHANGED <<nextSeq, pc, entry, drawn, inserted>>
    BY <1>6, TamperEffect
  <2> QED
    BY <2>1 DEF DrawnIsOwn
<1>7. CASE UNCHANGED vars
  BY <1>7 DEF vars, callVars, tableVars, DrawnIsOwn
<1> QED
  BY <1>1, <1>2, <1>4, <1>5, <1>6, <1>7, OneOf

\* The steps of other writers and tampering leave a writer where it is.
LEMMA WriterStep ==
    ASSUME TypeOK, [Next]_vars, NEW w \in Writers
    PROVE  \/ \E e \in Entry : ReadLatest(w, e)
           \/ Insert(w)
           \/ End(w)
           \/ UNCHANGED <<entry[w], pc[w], prevHash[w], drawn[w]>>
<1>1. ASSUME NEW v \in Writers, v # w,
             (\E e \in Entry : ReadLatest(v, e)) \/ Insert(v) \/ End(v)
      PROVE  UNCHANGED <<entry[w], pc[w], prevHash[w], drawn[w]>>
  BY <1>1 DEF ReadLatest, Insert, End, TypeOK
<1>2. ASSUME NEW v \in Writers, Commit(v) \/ Lose(v)
      PROVE  End(v)
  BY <1>2 DEF Commit, Lose
<1>3. ASSUME NEW s, NEW r, Tamper(s, r)
      PROVE  UNCHANGED <<entry, pc, prevHash, drawn>>
  BY <1>3 DEF Tamper, callVars
<1>4. UNCHANGED vars => UNCHANGED <<entry, pc, prevHash, drawn>>
  BY DEF vars, callVars
<1> QED
  BY <1>1, <1>2, <1>3, <1>4, OneOf

\* Moving a writer on keeps what it read older than what it inserts.
LEMMA ReadsStep ==
    ASSUME TypeOK, DrawnIsOwn, InsertedHashes, Untouched, ReadsAreOlder, [Next]_vars
    PROVE  ReadsAreOlder'
<1> SUFFICES ASSUME NEW w \in Writers, pc'[w] # "idle", entry'[w].tenant \notin relinked',
                    prevHash'[w] # Genesis
             PROVE  \E q \in sealed' :
                       /\ q < IF pc'[w] = "commit" THEN drawn'[w] ELSE nextSeq'
                       /\ inserted'[q].tenant = entry'[w].tenant
                       /\ inserted'[q].hash = prevHash'[w]
  BY DEF ReadsAreOlder, SealedBelow
<1>0. nextSeq \in Nat /\ nextSeq' \in Nat /\ nextSeq <= nextSeq' /\ relinked \subseteq relinked'
  BY SequenceGrows, RelinkedStays
<1>1. ASSUME NEW e \in Entry, ReadLatest(w, e)
      PROVE  /\ pc'[w] # "commit"
             /\ \E q \in sealed' : /\ q < nextSeq' /\ inserted'[q].tenant = entry'[w].tenant
                                   /\ inserted'[q].hash = prevHash'[w]
  <2>1. /\ entry'[w] = e /\ e.tenant \in Tenants /\ pc'[w] = "compute"
        /\ prevHash'[w] = HashBelow(e.tenant, MaxRows + 1)
        /\ UNCHANGED <<inserted, sealed, nextSeq>>
    BY <1>1 DEF ReadLatest, TypeOK, tableVars
  <2>2. \E u \in RowsOf(e.tenant) : u < MaxRows + 1
    BY <2>1, HashBelowNone, MaxRows + 1 \in Int
  <2>3. PICK u \in Seqs : IsLatestBelow(e.tenant, MaxRows + 1, u)
    BY <2>1, <2>2, LatestExists, MaxRows + 1 \in Int
  <2>4. log[u].hash = prevHash'[w] /\ u \in RowsOf(e.tenant)
    BY <2>1, <2>3, HashBelowLatest DEF IsLatestBelow
  <2>5. u \in sealed /\ inserted[u].tenant = e.tenant /\ inserted[u].hash = log[u].hash
    BY <1>0, <2>1, <2>4 DEF Untouched
  <2>6. u < nextSeq
    BY <2>4, RowsVisible, RowsNumbered
  <2> QED
    BY <2>1, <2>4, <2>5, <2>6
<1>2. CASE Insert(w)
  <2>1. /\ pc[w] = "compute" /\ prevHash'[w] = prevHash[w] /\ entry' = entry
        /\ drawn'[w] = nextSeq /\ pc'[w] = "commit"
    BY <1>2 DEF Insert, TypeOK
  <2>2. SealedBelow(entry[w].tenant, prevHash[w], nextSeq)
    BY <1>0, <2>1 DEF ReadsAreOlder
  <2>3. \E q \in sealed' : /\ q < drawn'[w] /\ inserted'[q].tenant = entry'[w].tenant
                           /\ inserted'[q].hash = prevHash'[w]
    <3>1. PICK q \in sealed : /\ q < nextSeq /\ inserted[q].tenant = entry[w].tenant
                              /\ inserted[q].hash = prevHash[w]
      BY <2>2 DEF SealedBelow
    <3>2. q \in sealed' /\ inserted'[q] = inserted[q]
      BY InsertedStays
    <3> QED
      BY <2>1, <3>1, <3>2
  <2> QED
    BY <2>1, <2>3
<1>3. CASE UNCHANGED <<entry[w], pc[w], prevHash[w], drawn[w]>>
  <2>1. PICK q \in sealed : /\ q < IF pc[w] = "commit" THEN drawn[w] ELSE nextSeq
                            /\ inserted[q].tenant = entry[w].tenant
                            /\ inserted[q].hash = prevHash[w]
    BY <1>0, <1>3 DEF ReadsAreOlder, SealedBelow
  <2>2. q \in sealed' /\ inserted'[q] = inserted[q] /\ q \in Seqs
    BY InsertedStays
  <2>3. q < IF pc'[w] = "commit" THEN drawn'[w] ELSE nextSeq'
    BY <1>0, <1>3, <2>1, <2>2
  <2> QED
    BY <1>3, <2>1, <2>2, <2>3
<1>4. ~End(w)
  BY DEF End, TypeOK
<1> QED
  BY <1>1, <1>2, <1>3, <1>4, WriterStep

LEMMA SealedStep ==
    ASSUME TypeOK, DrawnIsOwn, InsertedHashes, ReadsAreOlder, SealedLinks, [Next]_vars
    PROVE  SealedLinks'
<1> SUFFICES ASSUME NEW p \in sealed', inserted'[p].prev # Genesis
             PROVE  \E q \in sealed' : /\ q < p /\ inserted'[q].tenant = inserted'[p].tenant
                                       /\ inserted'[q].hash = inserted'[p].prev
  BY DEF SealedLinks, SealedBelow
<1>0. p \in Seqs
  BY TypeStep DEF TypeOK
<1>1. CASE p \in sealed
  <2>1. inserted'[p] = inserted[p]
    BY <1>1, InsertedStays
  <2>2. PICK q \in sealed : /\ q < p /\ inserted[q].tenant = inserted[p].tenant
                            /\ inserted[q].hash = inserted[p].prev
    BY <1>1, <2>1, Zenon DEF SealedLinks, SealedBelow
  <2> QED
    BY <2>1, <2>2, InsertedStays
<1>2. CASE p \notin sealed
  <2>1. PICK w \in Writers : /\ Commit(w) /\ p = drawn[w]
                             /\ inserted'[p] = HashedPart(NewRow(w))
                             /\ sealed' = IF entry[w].tenant \in relinked THEN sealed
                                          ELSE sealed \cup {p}
    BY <1>0, <1>2, AtSeq
  <2>2. entry[w].tenant \notin relinked
    BY <1>2, <2>1
  <2>3. /\ inserted'[p].prev = prevHash[w] /\ inserted'[p].tenant = entry[w].tenant
        /\ pc[w] = "commit"
    <3>1. /\ pc[w] = "commit" /\ NewRow(w).prev = prevHash[w]
          /\ NewRow(w).tenant = entry[w].tenant
      BY <2>1, CommitEffect
    <3> QED
      BY <2>1, <3>1 DEF HashedPart
  <2>4. PICK q \in sealed : /\ q < drawn[w] /\ inserted[q].tenant = entry[w].tenant
                            /\ inserted[q].hash = prevHash[w]
    BY <2>2, <2>3 DEF ReadsAreOlder, SealedBelow
  <2> QED
    BY <2>1, <2>3, <2>4, InsertedStays
<1> QED
  BY <1>1, <1>2

LEMMA UntouchedStep ==
    ASSUME TypeOK, DrawnIsOwn, InsertedHashes, Untouched, [Next]_vars
    PROVE  Untouched'
<1> SUFFICES ASSUME NEW t \in Tenants, t \notin relinked', NEW s \in Seqs
             PROVE  /\ s \in RowsOf(t)' <=> s \in sealed' /\ inserted'[s].tenant = t
                    /\ s \in RowsOf(t)' => /\ log'[s].prev = inserted'[s].prev
                                           /\ log'[s].hash = inserted'[s].hash
  BY DEF Untouched
<1>1. t \notin relinked
  BY RowsStay
<1>2. /\ s \in RowsOf(t) <=> s \in sealed /\ inserted[s].tenant = t
      /\ s \in RowsOf(t) => log[s].prev = inserted[s].prev /\ log[s].hash = inserted[s].hash
  BY <1>1 DEF Untouched
<1>3. CASE /\ s \in RowsOf(t)' <=> s \in RowsOf(t)
           /\ s \in RowsOf(t) => log'[s].prev = log[s].prev /\ log'[s].hash = log[s].hash
           /\ inserted'[s] = inserted[s]
           /\ s \in sealed' <=> s \in sealed
  BY <1>2, <1>3
<1>4. ASSUME NEW w \in Writers, Commit(w), s = drawn[w], log'[s] = NewRow(w),
             inserted'[s] = HashedPart(NewRow(w)),
             sealed' = IF entry[w].tenant \in relinked THEN sealed ELSE sealed \cup {s}
      PROVE  /\ s \in RowsOf(t)' <=> s \in sealed' /\ inserted'[s].tenant = t
             /\ s \in RowsOf(t)' => /\ log'[s].prev = inserted'[s].prev
                                    /\ log'[s].hash = inserted'[s].hash
  <2>1. NewRow(w).tenant = entry[w].tenant
    BY <1>4, CommitEffect
  <2>2. /\ inserted'[s].tenant = NewRow(w).tenant /\ inserted'[s].prev = NewRow(w).prev
        /\ inserted'[s].hash = NewRow(w).hash
    BY <1>4 DEF HashedPart
  <2>3. s \in RowsOf(t)' <=> entry[w].tenant = t
    BY <1>4, <2>1 DEF RowsOf
  <2> QED
    BY <1>1, <1>4, <2>1, <2>2, <2>3
<1> QED
  BY <1>3, <1>4, RowsStay

LEMMA ChainInit == Init => ChainInv
<1> SUFFICES ASSUME Init PROVE ChainInv
  OBVIOUS
<1>1. TypeOK
  BY GenesisType DEF Init, TypeOK
<1>2. InsertedHashes /\ DrawnIsOwn /\ ReadsAreOlder /\ SealedLinks
  BY DEF Init, InsertedHashes, DrawnIsOwn, ReadsAreOlder, SealedLinks
<1>3. Untouched
  BY DEF Init, Untouched, RowsOf
<1> QED
  BY <1>1, <1>2, <1>3 DEF ChainInv

LEMMA ChainStep == ChainInv /\ [Next]_vars => ChainInv'
  BY TypeStep, InsertedStep, DrawnStep, ReadsStep, SealedStep, UntouchedStep DEF ChainInv

\* Of a tenant whose links nobody tampered with every row links to an older one.
LEMMA Linked ==
    ASSUME ChainInv, NEW t \in Tenants, t \notin relinked, NEW s \in RowsOf(t),
           log[s].prev # Genesis
    PROVE  \E u \in RowsOf(t) : u < s /\ log[u].hash = log[s].prev
<1>1. s \in Seqs /\ s \in sealed /\ inserted[s].tenant = t /\ inserted[s].prev = log[s].prev
  BY RowsVisible DEF ChainInv, Untouched
<1>2. PICK q \in sealed : q < s /\ inserted[q].tenant = t /\ inserted[q].hash = log[s].prev
  BY <1>1 DEF ChainInv, SealedLinks, SealedBelow
<1>3. q \in Seqs
  BY DEF ChainInv, TypeOK
<1>4. q \in RowsOf(t) /\ log[q].hash = inserted[q].hash
  BY <1>2, <1>3, Zenon DEF ChainInv, Untouched
<1> QED
  BY <1>2, <1>4

\* The state of the log, the sequence and the writers is what it can be.
THEOREM ChainTypeCorrect == Spec => []TypeOK
<1>1. ChainInv => TypeOK
  BY DEF ChainInv
<1> QED
  BY <1>1, ChainInit, ChainStep, PTL DEF Spec

\* Chains of tenants never mix and never point to a lost or later row, however
\* appendHashChainedLog's queries interleave, commit out of order or fail, unless the
\* tenant, prev_hash or row_hash of a row of the tenant was tampered with.
THEOREM RowsLinkToOlderRows == Spec => []LinksToOlderRow
<1>1. ChainInv => LinksToOlderRow
  <2> SUFFICES ASSUME ChainInv, NEW s \in Seqs, log[s] # NoRow,
                      log[s].tenant \notin relinked, log[s].prev # Genesis
               PROVE  \E u \in RowsOf(log[s].tenant) : u < s /\ log[u].hash = log[s].prev
    BY DEF LinksToOlderRow
  <2>1. log[s].tenant \in Tenants /\ s \in RowsOf(log[s].tenant)
    BY RowType DEF ChainInv
  <2> QED
    BY <2>1, Linked
<1> QED
  BY <1>1, ChainInit, ChainStep, PTL DEF Spec

-----------------------------------------------------------------------------
(* What a verification reports.                                            *)

\* The first bad row it reads, and what is bad about it.
LEMMA FirstBad ==
    ASSUME NEW t \in Tenants
    PROVE  /\ Bad(t) = {} => VerifyHashChain(t) = [valid |-> TRUE]
           /\ Bad(t) # {} => \E b \in Bad(t) :
                 /\ \A u \in Bad(t) : b <= u
                 /\ VerifyHashChain(t) =
                       [valid |-> FALSE, brokenAt |-> b,
                        detail |-> IF LinkBroken(t, b) THEN "chain broken" ELSE "hash mismatch"]
<1>1. CASE Bad(t) = {}
  BY <1>1 DEF VerifyHashChain
<1>2. CASE Bad(t) # {}
  <2> DEFINE b == CHOOSE u \in Bad(t) : \A v \in Bad(t) : u <= v
  <2>1. Bad(t) \in SUBSET Nat
    BY DEF Bad, Checked, RowsOf
  <2>2. b \in Bad(t) /\ \A u \in Bad(t) : b <= u
    BY <1>2, <2>1, LeastExists
  <2>3. VerifyHashChain(t) =
           [valid |-> FALSE, brokenAt |-> b,
            detail |-> IF LinkBroken(t, b) THEN "chain broken" ELSE "hash mismatch"]
    BY <1>2 DEF VerifyHashChain
  <2> QED
    BY <1>2, <2>2, <2>3
<1> QED
  BY <1>1, <1>2

\* A stored hash differs from the recomputed one only when the row was tampered with.
LEMMA MismatchIsTampering ==
    ASSUME ChainInv, NEW s \in Seqs, log[s] # NoRow, HashMismatch(s)
    PROVE  Tampered(s)
<1> SUFFICES ASSUME HashedPart(log[s]) = inserted[s]
             PROVE  log[s].hash = Append(log[s].prev, EntryOf(log[s]))
  BY DEF HashMismatch, Tampered
<1>1. /\ inserted[s].tenant = log[s].tenant /\ inserted[s].content = log[s].content
      /\ inserted[s].prev = log[s].prev /\ inserted[s].hash = log[s].hash
  BY DEF HashedPart
<1>2. inserted[s] # NoRow
  BY <1>1, RowType DEF ChainInv
<1>3. inserted[s].hash = Append(inserted[s].prev, EntryOf(inserted[s]))
  BY <1>2 DEF ChainInv, InsertedHashes
<1>4. EntryOf(inserted[s]) = EntryOf(log[s])
  BY <1>1 DEF EntryOf
<1> QED
  BY <1>1, <1>3, <1>4

\* The fields of what verifyHashChain returns.
LEMMA ReportFields ==
    ASSUME NEW r, NEW b, NEW why
    PROVE  /\ r = [valid |-> TRUE] => r.valid
           /\ r = [valid |-> FALSE, brokenAt |-> b, detail |-> why]
                 => ~r.valid /\ r.brokenAt = b /\ r.detail = why
<1>1. ASSUME r = [valid |-> TRUE]
      PROVE  r.valid
  <2>1. r.valid = TRUE
    BY <1>1, Zenon
  <2> QED
    BY <2>1, Zenon
<1>2. ASSUME r = [valid |-> FALSE, brokenAt |-> b, detail |-> why]
      PROVE  r.brokenAt = b /\ r.detail = why
  BY <1>2, Zenon
<1>3. ASSUME r = [valid |-> FALSE, brokenAt |-> b, detail |-> why]
      PROVE  ~r.valid
  BY <1>3, Zenon
<1> QED
  BY <1>1, <1>2, <1>3, Zenon

LEMMA Report ==
    ASSUME NEW t \in Tenants
    PROVE  \/ VerifyHashChain(t).valid /\ Bad(t) = {}
           \/ /\ ~VerifyHashChain(t).valid
              /\ \E b \in Bad(t) :
                    /\ \A u \in Bad(t) : b <= u
                    /\ VerifyHashChain(t).brokenAt = b
                    /\ VerifyHashChain(t).detail = "chain broken" => LinkBroken(t, b)
                    /\ VerifyHashChain(t).detail = "hash mismatch" => ~LinkBroken(t, b)
<1>1. CASE Bad(t) = {}
  <2>1. VerifyHashChain(t) = [valid |-> TRUE]
    BY <1>1, FirstBad, Zenon
  <2> QED
    BY <1>1, <2>1, ReportFields, Zenon
<1>2. CASE Bad(t) # {}
  <2>1. PICK b \in Bad(t) :
           /\ \A u \in Bad(t) : b <= u
           /\ VerifyHashChain(t) =
                 [valid |-> FALSE, brokenAt |-> b,
                  detail |-> IF LinkBroken(t, b) THEN "chain broken" ELSE "hash mismatch"]
    BY <1>2, FirstBad, Zenon
  <2> DEFINE why == IF LinkBroken(t, b) THEN "chain broken" ELSE "hash mismatch"
  <2>2. /\ why = "chain broken" => LinkBroken(t, b)
        /\ why = "hash mismatch" => ~LinkBroken(t, b)
    OBVIOUS
  <2>3. VerifyHashChain(t) = [valid |-> FALSE, brokenAt |-> b, detail |-> why]
    BY <2>1
  <2> HIDE DEF why
  <2>4. ~VerifyHashChain(t).valid
    BY <2>3, ReportFields, Zenon
  <2>5. VerifyHashChain(t).brokenAt = b /\ VerifyHashChain(t).detail = why
    BY <2>3, ReportFields, Zenon
  <2> QED
    BY <2>1, <2>2, <2>4, <2>5, Zenon
<1> QED
  BY <1>1, <1>2, Zenon

\* Below a row that a verification reads it reads every row.
LEMMA CheckedBelow ==
    ASSUME NEW t \in Tenants, NEW b \in Checked(t), NEW u \in RowsOf(t), u <= b
    PROVE  u \in Checked(t)
<1> DEFINE Below(s) == {x \in RowsOf(t) : x < s}
<1>1. IsFiniteSet(Below(b)) /\ Below(u) \in SUBSET Below(b)
  <2>1. IsFiniteSet(Seqs) /\ Below(b) \in SUBSET Seqs
    BY FS_Interval DEF RowsOf
  <2> QED
    BY <2>1, FS_Subset DEF RowsOf, Checked
<1>2. Cardinality(Below(u)) <= Cardinality(Below(b))
  BY <1>1, FS_Subset
<1>3. IsFiniteSet(Below(u))
  BY <1>1, FS_Subset
<1>4. Cardinality(Below(u)) \in Nat /\ Cardinality(Below(b)) \in Nat
  BY <1>1, <1>3, FS_CardinalityType
<1>5. Cardinality(Below(b)) < Limit
  BY DEF Checked
<1> QED
  BY <1>2, <1>4, <1>5 DEF Checked

\* The next row of a tenant after one of its rows.
LEMMA NextRowExists ==
    ASSUME NEW t \in Tenants, NEW u \in Int, NEW b \in RowsOf(t), u < b
    PROVE  \E x \in RowsOf(t) : u < x /\ x <= b /\ \A y \in RowsOf(t) : u < y => x <= y
<1> DEFINE T == {y \in RowsOf(t) : u < y}
<1>1. T \in SUBSET Nat /\ T # {}
  BY DEF RowsOf
<1>2. PICK x \in T : \A y \in T : x <= y
  BY <1>1, LeastExists
<1> QED
  BY <1>2 DEF RowsOf

\* A row that verifyHashChain gets past links to the row before it and has its hash.
LEMMA GoodUpTo ==
    ASSUME NEW t \in Tenants, NEW u \in Checked(t), \A b \in Bad(t) : u < b,
           NEW w \in RowsOf(t), w <= u
    PROVE  /\ log[w].prev = HashBelow(t, w)
           /\ log[w].hash = RowHash(log[w].prev, EntryOf(log[w]))
<1>1. w \in Checked(t) /\ w \in Seqs /\ u \in Seqs
  BY CheckedBelow, RowsVisible DEF Checked
<1>2. w \notin Bad(t)
  BY <1>1
<1> QED
  BY <1>1, <1>2 DEF Bad, LinkBroken, HashMismatch

\* Hashes and the hashes that went into them.
WentInto(g, h) == \E n \in 1..Len(h) : g = SubSeq(h, 1, n)

LEMMA IntoAppend ==
    ASSUME NEW h \in Hash, NEW e \in Entry, NEW g
    PROVE  /\ Append(h, e) \in Hash /\ Append(h, e) # Genesis
           /\ WentInto(g, Append(h, e)) <=> g = Append(h, e) \/ WentInto(g, h)
<1> DEFINE k == Append(h, e)
<1>1. k \in Hash /\ Len(k) = Len(h) + 1 /\ Len(h) \in Nat /\ k # Genesis
  BY AppendProperties, LenProperties
<1>2. SubSeq(k, 1, Len(k)) = k
  BY <1>1, SubSeqFull
<1>3. \A n \in 1..Len(h) : SubSeq(k, 1, n) = SubSeq(h, 1, n)
  BY <1>1
<1> HIDE DEF k
<1>4. WentInto(g, k) => g = k \/ WentInto(g, h)
  BY <1>1, <1>2, <1>3 DEF WentInto
<1>5. g = k => WentInto(g, k)
  BY <1>1, <1>2 DEF WentInto
<1>6. WentInto(g, h) => WentInto(g, k)
  BY <1>1, <1>3 DEF WentInto
<1> QED
  BY <1>1, <1>4, <1>5, <1>6 DEF k

\* What went into a hash, so did the hash it was appended to.
LEMMA IntoFront ==
    ASSUME NEW h \in Hash, h # Genesis, NEW e \in Entry, NEW k \in Hash,
           WentInto(Append(h, e), k)
    PROVE  WentInto(h, k)
<1>1. PICK n \in 1..Len(k) : Append(h, e) = SubSeq(k, 1, n)
  BY DEF WentInto
<1>2. Len(h) \in Nat /\ Len(k) \in Nat /\ Len(h) > 0
  BY LenProperties, EmptySeq
<1>3. n = Len(h) + 1
  BY <1>1, <1>2, AppendProperties, SubSeqProperties
<1>4. h = SubSeq(k, 1, Len(h))
  <2>0. \A i \in 1..Len(k) : k[i] \in Entry
    BY LenProperties
  <2>1. SubSeq(k, 1, Len(h)) \in Hash /\ Len(SubSeq(k, 1, Len(h))) = Len(h)
    <3>1. \A i \in 1..Len(h) : k[i] \in Entry
      BY <1>2, <1>3, <2>0
    <3> QED
      BY <1>2, <3>1, SubSeqProperties
  <2>2. \A i \in 1..Len(h) : h[i] = SubSeq(k, 1, Len(h))[i]
    <3> SUFFICES ASSUME NEW i \in 1..Len(h) PROVE h[i] = SubSeq(k, 1, Len(h))[i]
      OBVIOUS
    <3>1. Append(h, e)[i] = h[i]
      BY AppendProperties
    <3>2. SubSeq(k, 1, n)[i] = k[i] /\ SubSeq(k, 1, Len(h))[i] = k[i]
      BY <1>2, <1>3, <2>0
    <3> QED
      BY <1>1, <3>1, <3>2
  <2> QED
    BY <2>1, <2>2, SeqEqual
<1> QED
  <2>1. Len(h) \in 1..Len(k)
    BY <1>2, <1>3
  <2> QED
    BY <1>4, <2>1, Zenon DEF WentInto

\* A row with its hash and an append that wrote the same hash agree on every column
\* that the hash covers.
LEMMA SameHashSameData ==
    ASSUME ChainInv, NEW w \in Seqs, log[w] # NoRow,
           log[w].hash = RowHash(log[w].prev, EntryOf(log[w])),
           NEW p \in sealed, inserted[p].hash = log[w].hash
    PROVE  HashedPart(log[w]) = inserted[p]
<1>1. p \in Seqs /\ inserted[p] # NoRow
  BY DEF ChainInv, TypeOK, InsertedHashes
<1>2. inserted[p] \in Hashed
  BY <1>1 DEF ChainInv, TypeOK
<1>3. inserted[p].hash = Append(inserted[p].prev, EntryOf(inserted[p]))
  BY <1>1 DEF ChainInv, InsertedHashes
<1>4. /\ inserted[p].prev \in Hash /\ EntryOf(inserted[p]) \in Entry
      /\ log[w].prev \in Hash /\ EntryOf(log[w]) \in Entry
  BY <1>2, RowType DEF ChainInv, Hashed, EntryOf
<1>5. inserted[p].prev = log[w].prev /\ EntryOf(inserted[p]) = EntryOf(log[w])
  <2>1. Append(inserted[p].prev, EntryOf(inserted[p])) = Append(log[w].prev, EntryOf(log[w]))
    BY <1>3
  <2> DEFINE g == inserted[p].prev  d == EntryOf(inserted[p])
             h == log[w].prev       e == EntryOf(log[w])
  <2>2. g \in Hash /\ h \in Hash /\ d \in Entry /\ e \in Entry /\ Append(g, d) = Append(h, e)
    BY <1>4, <2>1
  <2> HIDE DEF g, h, d, e
  <2>3. g = h /\ d = e
    BY <2>2, AppendInjective
  <2> QED
    BY <2>3 DEF g, h, d, e
<1>6. inserted[p].tenant = log[w].tenant /\ inserted[p].content = log[w].content
  BY <1>5 DEF EntryOf
<1> QED
  BY <1>2, <1>5, <1>6 DEF HashedPart, Hashed

\* Below a verified row whose hash an append wrote, every row is what an append committed
\* that went into that hash.
LEMMA RowsAreCovered ==
    ASSUME ChainInv, NEW t \in Tenants, NEW u \in Checked(t), \A b \in Bad(t) : u < b,
           Vouched(t, log[u].hash)
    PROVE  \A w \in RowsOf(t) : w <= u => \E p \in Covered(t, log[u].hash) :
                                             HashedPart(log[w]) = inserted[p]
<1> DEFINE Fine(w) == Vouched(t, log[w].hash) /\ WentInto(log[w].hash, log[u].hash)
           T == {w \in RowsOf(t) : w <= u /\ ~Fine(w)}
<1>1. u \in RowsOf(t) /\ RowsOf(t) \in SUBSET Seqs
  BY DEF Checked, RowsOf
<1>2. ASSUME NEW w \in RowsOf(t), w <= u
      PROVE  /\ w \in Seqs /\ log[w] # NoRow /\ log[w].prev \in Hash /\ log[w].hash \in Hash
             /\ EntryOf(log[w]) \in Entry
             /\ log[w].prev = HashBelow(t, w) /\ log[w].hash = Append(log[w].prev, EntryOf(log[w]))
  BY <1>2, GoodUpTo, RowsVisible, RowType DEF ChainInv, EntryOf
<1>3. T = {}
  <2> SUFFICES ASSUME T # {} PROVE FALSE
    OBVIOUS
  <2>1. PICK w \in T : \A v \in T : v <= w
    BY <1>1, GreatestExists
  <2>2. w \in RowsOf(t) /\ w <= u /\ ~Fine(w)
    BY <2>1
  <2>3. Fine(u)
    <3>1. u <= u
      BY <1>1
    <3>2. log[u].prev \in Hash /\ EntryOf(log[u]) \in Entry
          /\ log[u].hash = Append(log[u].prev, EntryOf(log[u]))
      BY <1>1, <1>2, <3>1
    <3>3. WentInto(log[u].hash, log[u].hash)
      <4> DEFINE h == log[u].prev  e == EntryOf(log[u])
      <4>1. h \in Hash /\ e \in Entry /\ log[u].hash = Append(h, e)
        BY <3>2
      <4> HIDE DEF h, e
      <4>2. WentInto(Append(h, e), Append(h, e))
        BY <4>1, IntoAppend
      <4> QED
        BY <4>1, <4>2
    <3> QED
      BY <3>3
  <2>4. w < u
    BY <1>1, <2>2, <2>3
  <2>5. PICK x \in RowsOf(t) : w < x /\ x <= u /\ \A y \in RowsOf(t) : w < y => x <= y
    BY <1>1, <2>2, <2>4, NextRowExists
  <2>6. Fine(x)
    BY <1>1, <2>1, <2>5
  <2>7. IsLatestBelow(t, x, w)
    BY <1>1, <2>2, <2>5 DEF IsLatestBelow
  <2>8. log[x].prev = log[w].hash
    BY <1>1, <1>2, <2>2, <2>5, <2>7, HashBelowLatest
  <2>9. log[w].hash # Genesis
    BY <1>2, <2>2, IntoAppend
  <2>10. PICK p \in sealed : inserted[p].tenant = t /\ inserted[p].hash = log[x].hash
    BY <2>6 DEF Vouched
  <2>11. inserted[p].prev = log[w].hash
    <3>1. x \in Seqs /\ log[x] # NoRow /\ log[x].hash = RowHash(log[x].prev, EntryOf(log[x]))
      BY <1>2, <2>5
    <3>2. HashedPart(log[x]) = inserted[p]
      BY <2>10, <3>1, SameHashSameData
    <3>3. HashedPart(log[x]).prev = log[x].prev
      BY DEF HashedPart
    <3> QED
      BY <2>8, <3>2, <3>3
  <2>12. Vouched(t, log[w].hash)
    BY <2>9, <2>10, <2>11 DEF ChainInv, SealedLinks, SealedBelow, Vouched
  <2>13. WentInto(log[w].hash, log[u].hash)
    <3>1. log[w].hash \in Hash /\ log[u].hash \in Hash /\ EntryOf(log[x]) \in Entry
      <4>1. u <= u
        BY <1>1
      <4> QED
        BY <1>1, <1>2, <2>2, <2>5, <4>1
    <3>2. log[x].hash = Append(log[w].hash, EntryOf(log[x]))
      BY <1>2, <2>5, <2>8
    <3>3. WentInto(Append(log[w].hash, EntryOf(log[x])), log[u].hash)
      BY <2>6, <3>2
    <3> QED
      BY <2>9, <3>1, <3>3, IntoFront
  <2> QED
    BY <2>2, <2>12, <2>13
<1> SUFFICES ASSUME NEW w \in RowsOf(t), w <= u
             PROVE  \E p \in Covered(t, log[u].hash) : HashedPart(log[w]) = inserted[p]
  OBVIOUS
<1>4. Fine(w)
  BY <1>3
<1>5. PICK p \in sealed : inserted[p].tenant = t /\ inserted[p].hash = log[w].hash
  BY <1>4 DEF Vouched
<1>6. HashedPart(log[w]) = inserted[p]
  BY <1>2, <1>5, SameHashSameData
<1>7. p \in Covered(t, log[u].hash)
  BY <1>4, <1>5 DEF Covered, WentInto
<1> QED
  BY <1>6, <1>7

\* And every append that went into the hash has its row.
LEMMA CoveredHaveRows ==
    ASSUME ChainInv, NEW t \in Tenants, NEW u \in Checked(t), \A b \in Bad(t) : u < b,
           NEW p \in Covered(t, log[u].hash)
    PROVE  \E w \in RowsOf(t) : w <= u /\ HashedPart(log[w]) = inserted[p]
<1> DEFINE g == inserted[p].hash
           T == {w \in RowsOf(t) : w <= u /\ WentInto(g, log[w].hash)}
<1>1. u \in RowsOf(t) /\ RowsOf(t) \in SUBSET Seqs /\ p \in sealed
  BY DEF Checked, RowsOf, Covered
<1>2. ASSUME NEW w \in RowsOf(t), w <= u
      PROVE  /\ w \in Seqs /\ log[w] # NoRow /\ log[w].prev \in Hash /\ EntryOf(log[w]) \in Entry
             /\ log[w].prev = HashBelow(t, w) /\ log[w].hash = Append(log[w].prev, EntryOf(log[w]))
  BY <1>2, GoodUpTo, RowsVisible, RowType DEF ChainInv, EntryOf
<1>3. u \in T
  BY <1>1 DEF Covered, WentInto
<1>4. T \in SUBSET Nat /\ T # {}
  BY <1>1, <1>3
<1>5. PICK w \in T : \A v \in T : w <= v
  BY <1>4, LeastExists
<1>6. w \in RowsOf(t) /\ w <= u /\ WentInto(g, log[w].hash)
  BY <1>5
<1>7. g = log[w].hash \/ WentInto(g, log[w].prev)
  BY <1>2, <1>6, IntoAppend
<1>8. ~WentInto(g, log[w].prev)
  <2> SUFFICES ASSUME WentInto(g, log[w].prev) PROVE FALSE
    OBVIOUS
  <2>1. log[w].prev # Genesis
    BY EmptySeq DEF WentInto
  <2>2. \E v \in RowsOf(t) : v < w
    BY <1>1, <1>2, <1>6, <2>1, HashBelowNone
  <2>3. PICK v \in Seqs : IsLatestBelow(t, w, v)
    BY <1>1, <1>6, <2>2, LatestExists
  <2>4. v \in RowsOf(t) /\ v < w /\ log[w].prev = log[v].hash
    BY <1>1, <1>2, <1>6, <2>3, HashBelowLatest DEF IsLatestBelow
  <2>5. v \in T
    BY <1>1, <1>6, <2>4
  <2> QED
    BY <1>1, <1>5, <1>6, <2>4, <2>5
<1>9. HashedPart(log[w]) = inserted[p]
  BY <1>1, <1>2, <1>6, <1>7, <1>8, SameHashSameData
<1> QED
  BY <1>6, <1>9

\* When verifyHashChain gets past a row whose row_hash is one that an append wrote, the
\* rows up to that row are just the appends that went into the hash, none changed, added
\* or missing, whatever was tampered with; and it blames a row's data only when that row
\* was tampered with.
THEOREM TamperingIsReported == Spec => []TamperingReported
<1>1. ASSUME ChainInv, NEW t \in Tenants, NEW u \in Checked(t), \A b \in Bad(t) : u < b,
             Vouched(t, log[u].hash)
      PROVE  {HashedPart(log[w]) : w \in {x \in RowsOf(t) : x <= u}}
                = {inserted[p] : p \in Covered(t, log[u].hash)}
  <2>1. \A w \in RowsOf(t) : w <= u => \E p \in Covered(t, log[u].hash) :
                                          HashedPart(log[w]) = inserted[p]
    BY <1>1, RowsAreCovered
  <2>2. \A p \in Covered(t, log[u].hash) :
           \E w \in RowsOf(t) : w <= u /\ HashedPart(log[w]) = inserted[p]
    BY <1>1, CoveredHaveRows
  <2> QED
    BY <2>1, <2>2
<1>2. ASSUME ChainInv, NEW t \in Tenants, NEW u \in Checked(t),
             VerifyHashChain(t).valid \/ u < VerifyHashChain(t).brokenAt
      PROVE  \A b \in Bad(t) : u < b
  <2>1. u \in Seqs /\ Bad(t) \subseteq Seqs
    BY DEF Bad, Checked, RowsOf
  <2>2. CASE Bad(t) = {}
    BY <2>2
  <2>3. CASE Bad(t) # {}
    <3>1. ~VerifyHashChain(t).valid
          /\ \E b \in Bad(t) : (\A x \in Bad(t) : b <= x) /\ VerifyHashChain(t).brokenAt = b
      BY <2>3, Report, Zenon
    <3> QED
      BY <1>2, <2>1, <3>1
  <2> QED
    BY <2>2, <2>3
<1>3. ASSUME ChainInv, NEW t \in Tenants, ~VerifyHashChain(t).valid,
             VerifyHashChain(t).detail = "hash mismatch"
      PROVE  Tampered(VerifyHashChain(t).brokenAt)
  <2>1. PICK b \in Bad(t) : VerifyHashChain(t).brokenAt = b /\ ~LinkBroken(t, b)
    BY <1>3, Report, Zenon
  <2>2. b \in RowsOf(t) /\ HashMismatch(b)
    BY <2>1 DEF Bad, Checked
  <2> QED
    BY <1>3, <2>1, <2>2, RowsVisible, MismatchIsTampering
<1>4. ChainInv => TamperingReported
  BY <1>1, <1>2, <1>3, Zenon DEF TamperingReported
<1> QED
  BY <1>4, ChainInit, ChainStep, PTL DEF Spec

\* Up to the first bad row every row links to the row before it, so the row that has
\* the predecessor of a row with a broken link is an earlier one.
LEMMA BreakForks ==
    ASSUME ChainInv, NEW t \in Tenants, t \notin relinked,
           NEW b \in Bad(t), \A u \in Bad(t) : b <= u, LinkBroken(t, b)
    PROVE  \E u \in RowsOf(t) : u < b /\ log[u].prev = log[b].prev
<1>1. b \in RowsOf(t) /\ b \in Checked(t)
  BY DEF Bad, Checked
<1>2. RowsOf(t) \in SUBSET Seqs
  BY DEF RowsOf
<1>3. \A u \in RowsOf(t) : u < b => log[u].prev = HashBelow(t, u)
  <2> SUFFICES ASSUME NEW u \in RowsOf(t), u < b PROVE ~LinkBroken(t, u)
    BY DEF LinkBroken
  <2>1. u \in Checked(t)
    BY <1>1, <1>2, CheckedBelow
  <2>2. u \notin Bad(t)
    BY <1>1, <1>2
  <2> QED
    BY <2>1, <2>2 DEF Bad
<1>4. CASE log[b].prev = Genesis
  <2>1. \E u \in RowsOf(t) : u < b
    BY <1>1, <1>2, <1>4, HashBelowNone DEF LinkBroken
  <2>2. PICK x \in RowsOf(t) : x <= b /\ \A y \in RowsOf(t) : 0 < y => x <= y
    BY <1>1, <1>2, NextRowExists
  <2>3. x < b /\ \A y \in RowsOf(t) : ~(y < x)
    BY <1>1, <1>2, <2>1, <2>2
  <2>4. HashBelow(t, x) = Genesis
    BY <1>2, <2>3, HashBelowNone
  <2> QED
    BY <1>3, <1>4, <2>3, <2>4
<1>5. CASE log[b].prev # Genesis
  <2>1. log[b] # NoRow /\ log[b].tenant = t
    BY <1>1, RowsVisible
  <2>2. PICK u \in RowsOf(t) : u < b /\ log[u].hash = log[b].prev
    BY <1>1, <1>5, Linked
  <2>3. PICK x \in RowsOf(t) : u < x /\ x <= b /\ \A y \in RowsOf(t) : u < y => x <= y
    BY <1>1, <1>2, <2>2, NextRowExists
  <2>4. u \in Seqs /\ x \in Seqs /\ IsLatestBelow(t, x, u)
    BY <1>2, <2>2, <2>3 DEF IsLatestBelow
  <2>5. HashBelow(t, x) = log[b].prev
    BY <2>2, <2>4, HashBelowLatest
  <2>6. x # b
    BY <2>5 DEF LinkBroken
  <2>7. x < b
    BY <1>1, <1>2, <2>3, <2>6
  <2> QED
    BY <1>3, <2>5, <2>7
<1> QED
  BY <1>4, <1>5

\* A break that verifyHashChain reports is a fork, unless the tenant's links were tampered
\* with: the row it names and an earlier row of the tenant have the same predecessor.
THEOREM BreaksAreForks == Spec => []BreakIsAFork
<1>1. ChainInv => BreakIsAFork
  BY Report, BreakForks, Zenon DEF BreakIsAFork
<1> QED
  BY <1>1, ChainInit, ChainStep, PTL DEF Spec

-----------------------------------------------------------------------------
(* Appends that do not overlap.                                            *)

\* Of a tenant none of whose appends overlapped and whose links nobody tampered with,
\* every row links to the row before it, one append at most is under way, and what it
\* read is still the latest row.
LoneChain ==
    \A t \in Tenants : t \notin overlapped \cup relinked =>
        /\ Unbroken(t)
        /\ \A v, w \in InFlight(t) : v = w
        /\ \A w \in InFlight(t) :
              /\ prevHash[w] = HashBelow(t, MaxRows + 1)
              /\ pc[w] = "commit" => \A u \in RowsOf(t) : u < drawn[w]

\* HashBelow in the next state.
LEMMA HashBelowLater ==
    (\A t \in Tenants, s \in Int, u \in Seqs :
        IsLatestBelow(t, s, u) => HashBelow(t, s) = log[u].hash)'
<1>1. \A t \in Tenants, s \in Int, u \in Seqs :
         IsLatestBelow(t, s, u) => HashBelow(t, s) = log[u].hash
  BY HashBelowLatest
<1> QED
  BY <1>1, PTL

LEMMA NoneBelowLater ==
    (\A t \in Tenants, s \in Int :
        (\A u \in RowsOf(t) : ~(u < s)) => HashBelow(t, s) = Genesis)'
<1>1. \A t \in Tenants, s \in Int :
         (\A u \in RowsOf(t) : ~(u < s)) => HashBelow(t, s) = Genesis
  BY HashBelowNone
<1> QED
  BY <1>1, PTL

LEMMA HashBelowNext ==
    ASSUME NEW t \in Tenants, NEW s \in Int
    PROVE  /\ \A u \in Seqs : IsLatestBelow(t, s, u)' => HashBelow(t, s)' = log'[u].hash
           /\ (\A u \in Seqs : log'[u].tenant = t => ~(u < s)) => HashBelow(t, s)' = Genesis
<1>1. \A u \in Seqs : IsLatestBelow(t, s, u)' => HashBelow(t, s)' = log'[u].hash
  BY HashBelowLater
<1>2. (\A u \in RowsOf(t)' : ~(u < s)) => HashBelow(t, s)' = Genesis
  BY NoneBelowLater
<1> QED
  BY <1>1, <1>2 DEF RowsOf

\* HashBelow changes only when a row is added below.
LEMMA HashBelowKept ==
    ASSUME TypeOK, DrawnIsOwn, [Next]_vars, NEW t \in Tenants, t \notin relinked',
           NEW s \in Int, \A u \in Seqs : log'[u].tenant = t /\ u < s => log[u].tenant = t
    PROVE  HashBelow(t, s)' = HashBelow(t, s)
<1>1. CASE \E u \in RowsOf(t) : u < s
  <2>1. PICK u \in Seqs : IsLatestBelow(t, s, u)
    BY <1>1, LatestExists
  <2>2. u \in RowsOf(t) /\ u < s
    BY <2>1 DEF IsLatestBelow
  <2>3. u \in RowsOf(t)' /\ log'[u].hash = log[u].hash
    BY <2>2, RowsOfGrows
  <2>4. \A v \in RowsOf(t)' : v < s => v <= u
    BY <2>1 DEF IsLatestBelow, RowsOf
  <2>5. IsLatestBelow(t, s, u)'
    BY <2>2, <2>3, <2>4 DEF IsLatestBelow
  <2> QED
    BY <2>1, <2>3, <2>5, HashBelowNext, HashBelowLatest
<1>2. CASE \A u \in RowsOf(t) : ~(u < s)
  <2>1. \A u \in Seqs : log'[u].tenant = t => ~(u < s)
    BY <1>2 DEF RowsOf
  <2> QED
    BY <1>2, <2>1, HashBelowNext, HashBelowNone
<1> QED
  BY <1>1, <1>2

\* Above all rows of a tenant HashBelow is that of the whole table.
LEMMA HashBelowAll ==
    ASSUME TypeOK, NEW t \in Tenants, NEW s \in Seqs, \A u \in RowsOf(t) : u < s
    PROVE  HashBelow(t, s) = HashBelow(t, MaxRows + 1)
<1>1. RowsOf(t) \in SUBSET Seqs /\ \A u \in RowsOf(t) : u < MaxRows + 1
  BY DEF RowsOf
<1>2. CASE RowsOf(t) = {}
  BY <1>2, HashBelowNone
<1>3. CASE RowsOf(t) # {}
  <2>1. PICK u \in RowsOf(t) : \A v \in RowsOf(t) : v <= u
    BY <1>1, <1>3, GreatestExists
  <2>2. u \in Seqs /\ IsLatestBelow(t, s, u) /\ IsLatestBelow(t, MaxRows + 1, u)
    BY <1>1, <2>1 DEF IsLatestBelow
  <2> QED
    BY <2>2, HashBelowLatest
<1> QED
  BY <1>2, <1>3

LEMMA OverlapsStay ==
    ASSUME [Next]_vars
    PROVE  overlapped \subseteq overlapped'
<1>1. ASSUME NEW w \in Writers, (\E e \in Entry : ReadLatest(w, e)) \/ Insert(w) \/ Commit(w) \/ Lose(w)
      PROVE  overlapped \subseteq overlapped'
  BY <1>1, Zenon DEF ReadLatest, Insert, Commit, Lose
<1>2. ASSUME NEW s, NEW r, Tamper(s, r)
      PROVE  overlapped \subseteq overlapped'
  BY <1>2 DEF Tamper, callVars
<1>3. UNCHANGED vars => overlapped' = overlapped
  BY DEF vars, callVars
<1> QED
  BY <1>1, <1>2, <1>3, OneOf

\* A step that adds no row of the tenant.
LEMMA LoneElsewhere ==
    ASSUME ChainInv, [Next]_vars, NEW t \in Tenants, t \notin overlapped' \cup relinked',
           LoneChain, ~\E w \in Writers : Commit(w) /\ entry[w].tenant = t
    PROVE  /\ Unbroken(t)'
           /\ \A v, w \in InFlight(t)' : v = w
           /\ \A w \in InFlight(t)' :
                 /\ prevHash'[w] = HashBelow(t, MaxRows + 1)'
                 /\ pc'[w] = "commit" => \A u \in RowsOf(t)' : u < drawn'[w]
<1>1. TypeOK /\ DrawnIsOwn /\ InsertedHashes
  BY DEF ChainInv
<1>2. t \notin overlapped \cup relinked
  BY <1>1, OverlapsStay, RelinkedStays
<1>3. /\ \A s \in RowsOf(t) : log[s].prev = HashBelow(t, s)
      /\ \A v, w \in InFlight(t) : v = w
      /\ \A w \in InFlight(t) :
            /\ prevHash[w] = HashBelow(t, MaxRows + 1)
            /\ pc[w] = "commit" => \A u \in RowsOf(t) : u < drawn[w]
  BY <1>2, Zenon DEF LoneChain, Unbroken, LinkBroken
<1>4. ASSUME NEW u \in Seqs, log'[u].tenant = t
      PROVE  log[u].tenant = t
  <2>1. ASSUME NEW w \in Writers, Commit(w), log'[u] = NewRow(w)
        PROVE  entry[w].tenant = t
    BY <1>1, <1>4, <2>1, CommitEffect
  <2>2. u \in RowsOf(t)' <=> u \in RowsOf(t)
    BY <1>1, <2>1, RowsStay
  <2> QED
    BY <1>4, <2>2 DEF RowsOf
<1>5. \A s \in Int : HashBelow(t, s)' = HashBelow(t, s)
  BY <1>1, <1>4, HashBelowKept
<1>6. Unbroken(t)'
  <2> SUFFICES ASSUME NEW s \in Seqs, log'[s].tenant = t
               PROVE  log'[s].prev = HashBelow(t, s)'
    BY DEF Unbroken, LinkBroken, RowsOf
  <2>1. s \in RowsOf(t)
    BY <1>4 DEF RowsOf
  <2> QED
    BY <1>1, <1>3, <1>5, <2>1, RowsOfGrows
<1>7. \A u \in RowsOf(t)' : u \in RowsOf(t)
  BY <1>4 DEF RowsOf
<1>8. ASSUME NEW w \in Writers, NEW e \in Entry, ReadLatest(w, e), e.tenant = t
      PROVE  \A v \in InFlight(t)' : v = w /\ prevHash'[v] = HashBelow(t, MaxRows + 1)
                                     /\ pc'[v] = "compute"
  <2>1. InFlight(t) = {}
    BY <1>8 DEF ReadLatest
  <2>2. \A v \in Writers : v # w => entry'[v].tenant # t
    BY <1>1, <1>8, <2>1 DEF ReadLatest, InFlight, TypeOK
  <2>3. prevHash'[w] = HashBelow(t, MaxRows + 1) /\ pc'[w] = "compute"
    BY <1>1, <1>8 DEF ReadLatest, TypeOK
  <2> QED
    BY <2>2, <2>3 DEF InFlight
<1>9. CASE ~\E w \in Writers, e \in Entry : ReadLatest(w, e) /\ e.tenant = t
  <2>1. ASSUME NEW v \in InFlight(t)'
        PROVE  /\ v \in InFlight(t) /\ prevHash'[v] = prevHash[v]
               /\ \/ pc'[v] = pc[v] /\ drawn'[v] = drawn[v]
                  \/ drawn'[v] = nextSeq
    <3>0. v \in Writers /\ entry'[v].tenant = t
      BY DEF InFlight
    <3>1. ASSUME NEW w \in Writers, NEW e \in Entry, ReadLatest(w, e)
          PROVE  v # w
      BY <1>1, <1>9, <3>0, <3>1 DEF ReadLatest, TypeOK
    <3>2. ASSUME NEW w \in Writers, End(w)
          PROVE  v # w
      BY <1>1, <3>0, <3>2 DEF End, TypeOK
    <3>3. ASSUME NEW w \in Writers, Insert(w), v = w
          PROVE  entry' = entry /\ prevHash' = prevHash /\ drawn'[v] = nextSeq
      BY <1>1, <3>3 DEF Insert, TypeOK
    <3>4. ASSUME NEW w \in Writers, v # w,
                 (\E e \in Entry : ReadLatest(w, e)) \/ Insert(w) \/ End(w)
          PROVE  UNCHANGED <<entry[v], pc[v], prevHash[v], drawn[v]>>
      BY <1>1, <3>0, <3>4 DEF ReadLatest, Insert, End, TypeOK
    <3>5. \/ \E w \in Writers : \/ \E e \in Entry : ReadLatest(w, e)
                                \/ Insert(w)
                                \/ End(w)
          \/ UNCHANGED <<entry[v], pc[v], prevHash[v], drawn[v]>>
      BY <1>1, <3>0, WriterStep
    <3>6. \/ UNCHANGED <<entry[v], pc[v], prevHash[v], drawn[v]>>
          \/ entry' = entry /\ prevHash' = prevHash /\ drawn'[v] = nextSeq
      BY <3>1, <3>2, <3>3, <3>4, <3>5
    <3> QED
      BY <3>0, <3>6 DEF InFlight
  <2>2. \A u \in RowsOf(t) : u < nextSeq
    BY <1>1, RowsVisible, RowsNumbered
  <2>3. \A v, w \in InFlight(t)' : v = w
    BY <1>3, <2>1
  <2>4. ASSUME NEW w \in InFlight(t)'
        PROVE  /\ prevHash'[w] = HashBelow(t, MaxRows + 1)
               /\ pc'[w] = "commit" => \A u \in RowsOf(t)' : u < drawn'[w]
    BY <1>3, <1>7, <2>1, <2>2
  <2> QED
    BY <1>5, <1>6, <2>3, <2>4
<1> QED
  BY <1>5, <1>6, <1>8, <1>9

\* The only append of the tenant under way commits.
LEMMA LoneCommit ==
    ASSUME ChainInv, [Next]_vars, NEW t \in Tenants, t \notin overlapped' \cup relinked',
           LoneChain, NEW w \in Writers, Commit(w), entry[w].tenant = t
    PROVE  Unbroken(t)' /\ InFlight(t)' = {}
<1>1. TypeOK /\ DrawnIsOwn
  BY DEF ChainInv
<1>2. t \notin overlapped \cup relinked /\ w \in InFlight(t) /\ pc[w] = "commit"
  BY <1>1, OverlapsStay, RelinkedStays DEF InFlight, Commit
<1>3. /\ \A s \in RowsOf(t) : log[s].prev = HashBelow(t, s)
      /\ \A v \in InFlight(t) : v = w
      /\ prevHash[w] = HashBelow(t, MaxRows + 1)
      /\ \A u \in RowsOf(t) : u < drawn[w]
  <2>1. \A s \in RowsOf(t) : log[s].prev = HashBelow(t, s)
    BY <1>2, Zenon DEF LoneChain, Unbroken, LinkBroken
  <2>2. \A v \in InFlight(t) : v = w
    BY <1>2 DEF LoneChain
  <2> QED
    BY <1>2, <2>1, <2>2 DEF LoneChain
<1>4. /\ drawn[w] \in Seqs /\ log' = [log EXCEPT ![drawn[w]] = NewRow(w)] /\ End(w)
  BY <1>1, CommitEffect
<1>5. \A u \in Seqs : u # drawn[w] => log'[u] = log[u]
  BY <1>1, <1>4 DEF TypeOK
<1>6. log'[drawn[w]].prev = prevHash[w]
  BY <1>1, <1>4, CommitEffect DEF TypeOK
<1>7. \A s \in Seqs : s <= drawn[w] => HashBelow(t, s)' = HashBelow(t, s)
  <2> SUFFICES ASSUME NEW s \in Seqs, s <= drawn[w]
               PROVE  HashBelow(t, s)' = HashBelow(t, s)
    OBVIOUS
  <2>1. \A u \in Seqs : log'[u].tenant = t /\ u < s => log[u].tenant = t
    BY <1>4, <1>5
  <2> QED
    BY <1>1, <2>1, HashBelowKept
<1>8. HashBelow(t, drawn[w]) = HashBelow(t, MaxRows + 1)
  BY <1>1, <1>3, <1>4, HashBelowAll
<1>9. Unbroken(t)'
  <2> SUFFICES ASSUME NEW s \in Seqs, log'[s].tenant = t
               PROVE  log'[s].prev = HashBelow(t, s)'
    BY DEF Unbroken, LinkBroken, RowsOf
  <2>1. CASE s = drawn[w]
    BY <1>3, <1>6, <1>7, <1>8, <2>1
  <2>2. CASE s # drawn[w]
    <3>1. s \in RowsOf(t) /\ log'[s] = log[s]
      BY <1>5, <2>2 DEF RowsOf
    <3>2. s <= drawn[w]
      BY <1>3, <1>4, <3>1
    <3> QED
      BY <1>3, <1>7, <3>1, <3>2
  <2> QED
    BY <2>1, <2>2
<1>10. InFlight(t)' = {}
  BY <1>1, <1>3, <1>4 DEF InFlight, End, TypeOK
<1> QED
  BY <1>9, <1>10

LEMMA LoneStep ==
    ASSUME ChainInv, LoneChain, [Next]_vars
    PROVE  LoneChain'
<1> SUFFICES ASSUME NEW t \in Tenants, t \notin overlapped' \cup relinked'
             PROVE  /\ Unbroken(t)'
                    /\ \A v, w \in InFlight(t)' : v = w
                    /\ \A w \in InFlight(t)' :
                          /\ prevHash'[w] = HashBelow(t, MaxRows + 1)'
                          /\ pc'[w] = "commit" => \A u \in RowsOf(t)' : u < drawn'[w]
  BY Zenon DEF LoneChain
<1>1. CASE \E w \in Writers : Commit(w) /\ entry[w].tenant = t
  <2>1. Unbroken(t)' /\ InFlight(t)' = {}
    BY <1>1, LoneCommit
  <2> QED
    BY <2>1
<1>2. CASE ~\E w \in Writers : Commit(w) /\ entry[w].tenant = t
  BY <1>2, LoneElsewhere, Zenon
<1> QED
  BY <1>1, <1>2

\* An append that overlaps no other append of its tenant keeps the chain verifiable,
\* lost appends and gaps in seq included, until a row of the tenant is tampered with.
THEOREM SequentialChainIsValid == Spec => []SequentialChainValid
<1>1. Init => LoneChain
  BY DEF Init, LoneChain, Unbroken, RowsOf, InFlight
<1>2. ASSUME ChainInv, LoneChain, NEW t \in Tenants, t \notin overlapped \cup relinked,
             TamperedRows(t) = {}
      PROVE  VerifyHashChain(t).valid
  <2>1. \A s \in RowsOf(t) : ~LinkBroken(t, s)
    BY <1>2, Zenon DEF LoneChain, Unbroken
  <2>2. \A s \in RowsOf(t) : ~HashMismatch(s)
    BY <1>2, RowsVisible, MismatchIsTampering DEF TamperedRows
  <2>3. Bad(t) = {}
    BY <2>1, <2>2 DEF Bad, Checked
  <2> QED
    BY <2>3, Report, Zenon
<1>3. ChainInv /\ LoneChain => SequentialChainValid
  BY <1>2, Zenon DEF SequentialChainValid
<1>4. (ChainInv /\ LoneChain) /\ [Next]_vars => (ChainInv /\ LoneChain)'
  BY ChainStep, LoneStep
<1> QED
  BY <1>1, <1>3, <1>4, ChainInit, PTL DEF Spec
=============================================================================
