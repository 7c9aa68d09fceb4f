------------------------ MODULE WebhookRetry_Proofs ------------------------
(***************************************************************************)
(* Proofs about module WebhookRetry: types, that no delivery is given up   *)
(* early (DeadLetterEarned), and that none is posted for ever              *)
(* (PostsBounded), for any number of deliveries and of overlapping sweeps  *)
(* and any number of retries.                                              *)
(*                                                                         *)
(* A sweep decides by the retry_count that its SELECT returned, so the     *)
(* invariant has to bound present counts and remembered ones alike:        *)
(* RetriesCounted charges every increment to a post or a manual retry,     *)
(* with the posts under way not yet counted; SnapshotsCounted does so for  *)
(* the remembered counts, strictly once the row was posted.                *)
(***************************************************************************)
EXTENDS WebhookRetry, FiniteSetTheorems, TLAPS

\* The sweeps that have posted row i and not yet written the outcome.
Posting(i) == {s \in Sweepers : posted[s] = i}

RetriesCounted ==
    \A i \in Deliveries : retries[i] + Cardinality(Posting(i)) <= posts[i] + bumps[i]

SnapshotsCounted ==
    \A s \in Sweepers, i \in Deliveries :
        /\ batch[s][i] <= posts[i] + bumps[i]
        /\ posted[s] = i => batch[s][i] < posts[i] + bumps[i]

IInv == TypeOK /\ RetriesCounted /\ SnapshotsCounted /\ DeadLetterEarned

-----------------------------------------------------------------------------
\* The rest of a batch keeps its type.
LEMMA NextRowType ==
    ASSUME TypeOK, NEW s \in Sweepers, NextRow(s), posted[s] # NoRow
    PROVE  /\ batch' \in [Sweepers -> [Deliveries -> Nat \cup {Absent}]]
           /\ posted' \in [Sweepers -> Deliveries \cup {NoRow}]
<1>1. posted[s] \in Deliveries
  BY DEF TypeOK
<1>2. [batch[s] EXCEPT ![posted[s]] = Absent] \in [Deliveries -> Nat \cup {Absent}]
  BY <1>1 DEF TypeOK
<1>3. QED
  BY <1>2 DEF NextRow, TypeOK

\* The types are inductive.
LEMMA TypeStep ==
    ASSUME TypeOK, [Next]_vars
    PROVE  TypeOK'
<1>1. ASSUME NEW i \in Deliveries, RecordDelivery(i) \/ BecomesDue(i)
      PROVE  TypeOK'
  BY <1>1 DEF RecordDelivery, BecomesDue, envVars, TypeOK
<1>2. ASSUME NEW i \in Deliveries, ManualRetry(i)
      PROVE  TypeOK'
  <2>1. retries' \in [Deliveries -> Nat] /\ bumps' \in [Deliveries -> Nat]
    BY <1>2 DEF ManualRetry, TypeOK
  <2>2. QED
    BY <1>2, <2>1 DEF ManualRetry, TypeOK
<1>3. ASSUME NEW i \in Deliveries, Revive(i)
      PROVE  TypeOK'
  <2>1. revives' \in [Deliveries -> Nat]
    BY <1>3 DEF Revive, TypeOK
  <2>2. /\ retries' \in [Deliveries -> Nat]
        /\ dead' \in [Deliveries -> BOOLEAN]
        /\ next' \in [Deliveries -> {"none", "null", "future", "past"}]
    BY <1>3, Zenon DEF Revive, TypeOK
  <2>3. QED
    BY <1>3, <2>1, <2>2 DEF Revive, TypeOK
<1>4. ASSUME NEW s \in Sweepers, Select(s)
      PROVE  TypeOK'
  <2>1. PICK rows \in SUBSET {i \in Deliveries : Due(i)} :
           batch' = [batch EXCEPT ![s] =
                        [i \in Deliveries |-> IF i \in rows THEN retries[i] ELSE Absent]]
    BY <1>4 DEF Select
  <2>2. [i \in Deliveries |-> IF i \in rows THEN retries[i] ELSE Absent]
           \in [Deliveries -> Nat \cup {Absent}]
    BY DEF TypeOK
  <2>3. batch' \in [Sweepers -> [Deliveries -> Nat \cup {Absent}]]
    BY <2>1, <2>2, Zenon DEF TypeOK
  <2>4. QED
    BY <1>4, <2>3 DEF Select, rowVars, envVars, TypeOK
<1>5. ASSUME NEW s \in Sweepers, NEW i \in Deliveries, Post(s, i)
      PROVE  TypeOK'
  <2>1. posts' \in [Deliveries -> Nat] /\ posted' \in [Sweepers -> Deliveries \cup {NoRow}]
    BY <1>5 DEF Post, TypeOK
  <2>2. QED
    BY <1>5, <2>1 DEF Post, rowVars, envVars, TypeOK
<1>6. ASSUME NEW s \in Sweepers, Record(s)
      PROVE  TypeOK'
  <2>1. posted[s] \in Deliveries /\ NextRow(s)
    BY <1>6 DEF Record, TypeOK
  <2>2. retries' \in [Deliveries -> Nat]
    BY <1>6, <2>1 DEF Record, TypeOK
  <2>3. dead' \in [Deliveries -> BOOLEAN]
    BY <1>6, <2>1, Zenon DEF Record, Exhausted, TypeOK
  <2>4. next' \in [Deliveries -> {"none", "null", "future", "past"}]
    BY <1>6, <2>1 DEF Record, TypeOK
  <2>5. QED
    BY <1>6, <2>1, <2>2, <2>3, <2>4, NextRowType DEF Record, envVars, TypeOK
<1>7. ASSUME NEW s \in Sweepers, RecordFails(s)
      PROVE  TypeOK'
  <2>1. /\ batch' \in [Sweepers -> [Deliveries -> Nat \cup {Absent}]]
        /\ posted' \in [Sweepers -> Deliveries \cup {NoRow}]
    BY <1>7, NextRowType DEF RecordFails
  <2>2. QED
    BY <1>7, <2>1 DEF RecordFails, rowVars, TypeOK
<1>8. ASSUME NEW s \in Sweepers, SweepDies(s)
      PROVE  TypeOK'
  <2>1. EmptyBatch \in [Deliveries -> Nat \cup {Absent}]
    BY DEF EmptyBatch
  <2>2. /\ batch' \in [Sweepers -> [Deliveries -> Nat \cup {Absent}]]
        /\ posted' \in [Sweepers -> Deliveries \cup {NoRow}]
    BY <1>8, <2>1, Zenon DEF SweepDies, TypeOK
  <2>3. QED
    BY <1>8, <2>2 DEF SweepDies, rowVars, TypeOK
<1>9. CASE UNCHANGED vars
  BY <1>9 DEF vars, TypeOK
<1>10. QED
  BY <1>1, <1>2, <1>3, <1>4, <1>5, <1>6, <1>7, <1>8, <1>9 DEF Next, SweepStep

\* Finitely many sweeps are posting a row; one more when a sweep posts it, one
\* less when that sweep goes on.
LEMMA PostingFinite ==
    ASSUME NEW i \in Deliveries
    PROVE  IsFiniteSet(Posting(i)) /\ Cardinality(Posting(i)) \in Nat
<1>1. Posting(i) \in SUBSET Sweepers
  BY DEF Posting
<1>2. IsFiniteSet(Posting(i))
  BY <1>1, RetryAssumption, FS_Subset
<1>3. QED
  BY <1>2, FS_CardinalityType

\* A step at which one sweep moves from one row to another row or to none
\* changes the set of posting sweeps by that sweep.
LEMMA PostingMoves ==
    ASSUME TypeOK, NEW s \in Sweepers, NEW to \in Deliveries \cup {NoRow},
           posted' = [posted EXCEPT ![s] = to], to # posted[s],
           NEW i \in Deliveries
    PROVE  Cardinality(Posting(i)') = IF to = i THEN Cardinality(Posting(i)) + 1
                                      ELSE IF posted[s] = i THEN Cardinality(Posting(i)) - 1
                                      ELSE Cardinality(Posting(i))
<1>1. IsFiniteSet(Posting(i))
  BY PostingFinite
<1>2. CASE to = i
  <2>1. Posting(i)' = Posting(i) \cup {s} /\ s \notin Posting(i)
    BY <1>2 DEF Posting, TypeOK
  <2>2. Cardinality(Posting(i) \cup {s}) = Cardinality(Posting(i)) + 1
    BY <1>1, <2>1, FS_AddElement
  <2>3. QED
    BY <1>2, <2>1, <2>2
<1>3. CASE to # i
  <2>1. Posting(i)' = Posting(i) \ {s} /\ (s \in Posting(i) <=> posted[s] = i)
    BY <1>3 DEF Posting, TypeOK
  <2>2. Cardinality(Posting(i) \ {s}) =
           IF posted[s] = i THEN Cardinality(Posting(i)) - 1 ELSE Cardinality(Posting(i))
    BY <1>1, <2>1, FS_RemoveElement
  <2>3. QED
    BY <1>3, <2>1, <2>2
<1>4. QED
  BY <1>2, <1>3

\* The counts stay accounted for when a sweep selects, posts, writes or dies,
\* and when somebody revives a delivery or retries it by hand.
LEMMA CountStep ==
    ASSUME IInv, [Next]_vars
    PROVE  RetriesCounted' /\ SnapshotsCounted'
<1> SUFFICES ASSUME NEW i \in Deliveries
             PROVE  /\ retries'[i] + Cardinality(Posting(i)') <= posts'[i] + bumps'[i]
                    /\ \A s \in Sweepers :
                          /\ batch'[s][i] <= posts'[i] + bumps'[i]
                          /\ posted'[s] = i => batch'[s][i] < posts'[i] + bumps'[i]
  BY Zenon DEF RetriesCounted, SnapshotsCounted, Posting
<1>1. /\ retries[i] + Cardinality(Posting(i)) <= posts[i] + bumps[i]
      /\ \A s \in Sweepers :
            /\ batch[s][i] <= posts[i] + bumps[i]
            /\ posted[s] = i => batch[s][i] < posts[i] + bumps[i]
  BY DEF IInv, RetriesCounted, SnapshotsCounted
<1>2. TypeOK /\ TypeOK' /\ Cardinality(Posting(i)) \in Nat
  BY TypeStep, PostingFinite DEF IInv
<1>3. ASSUME UNCHANGED <<batch, posted, posts>>, retries'[i] + bumps[i] <= retries[i] + bumps'[i],
             bumps[i] <= bumps'[i]
      PROVE  /\ retries'[i] + Cardinality(Posting(i)') <= posts'[i] + bumps'[i]
             /\ \A s \in Sweepers :
                   /\ batch'[s][i] <= posts'[i] + bumps'[i]
                   /\ posted'[s] = i => batch'[s][i] < posts'[i] + bumps'[i]
  <2>1. Posting(i)' = Posting(i)
    BY <1>3 DEF Posting
  <2>2. /\ retries[i] \in Nat /\ retries'[i] \in Nat /\ posts[i] \in Nat
        /\ bumps[i] \in Nat /\ bumps'[i] \in Nat /\ posts'[i] = posts[i]
        /\ \A s \in Sweepers : batch[s][i] \in Int
    BY <1>2, <1>3 DEF TypeOK, Absent
  <2>3. retries'[i] + Cardinality(Posting(i)') <= posts'[i] + bumps'[i]
    BY <1>1, <1>2, <1>3, <2>1, <2>2
  <2>4. QED
    BY <1>1, <1>3, <2>2, <2>3
<1>4. ASSUME NEW j \in Deliveries,
             RecordDelivery(j) \/ BecomesDue(j) \/ ManualRetry(j) \/ Revive(j)
      PROVE  /\ UNCHANGED <<batch, posted, posts>>
             /\ retries'[i] + bumps[i] <= retries[i] + bumps'[i]
             /\ bumps[i] <= bumps'[i]
  <2>1. CASE RecordDelivery(j) \/ BecomesDue(j)
    BY <1>2, <2>1 DEF RecordDelivery, BecomesDue, envVars, TypeOK
  <2>2. CASE ManualRetry(j)
    BY <1>2, <2>2 DEF ManualRetry, TypeOK
  <2>3. CASE Revive(j)
    BY <1>2, <2>3 DEF Revive, TypeOK
  <2>4. QED
    BY <1>4, <2>1, <2>2, <2>3
<1>5. ASSUME NEW s \in Sweepers, Select(s)
      PROVE  /\ retries'[i] + Cardinality(Posting(i)') <= posts'[i] + bumps'[i]
             /\ \A t \in Sweepers :
                   /\ batch'[t][i] <= posts'[i] + bumps'[i]
                   /\ posted'[t] = i => batch'[t][i] < posts'[i] + bumps'[i]
  <2>1. Posting(i)' = Posting(i) /\ UNCHANGED <<retries, posted, posts, bumps>>
    BY <1>5 DEF Select, Posting, rowVars, envVars
  <2>2. posted[s] = NoRow /\ NoRow # i
    BY <1>5, RetryAssumption DEF Select, NoRow
  <2>3. \A t \in Sweepers \ {s} : batch'[t] = batch[t]
    BY <1>2, <1>5 DEF Select, TypeOK
  <2>4. batch'[s][i] \in {retries[i], Absent}
    <3>1. PICK rows \in SUBSET {j \in Deliveries : Due(j)} :
             batch' = [batch EXCEPT ![s] =
                          [j \in Deliveries |-> IF j \in rows THEN retries[j] ELSE Absent]]
      BY <1>5 DEF Select
    <3>2. QED
      BY <1>2, <3>1 DEF TypeOK
  <2>5. QED
    BY <1>1, <1>2, <2>1, <2>2, <2>3, <2>4 DEF TypeOK, Absent
<1>6. ASSUME NEW s \in Sweepers, NEW j \in Deliveries, Post(s, j)
      PROVE  /\ retries'[i] + Cardinality(Posting(i)') <= posts'[i] + bumps'[i]
             /\ \A t \in Sweepers :
                   /\ batch'[t][i] <= posts'[i] + bumps'[i]
                   /\ posted'[t] = i => batch'[t][i] < posts'[i] + bumps'[i]
  <2>1. /\ posted' = [posted EXCEPT ![s] = j] /\ posted[s] = NoRow /\ NoRow # j /\ NoRow # i
        /\ UNCHANGED <<retries, batch, bumps>>
    BY <1>6, RetryAssumption DEF Post, NoRow, rowVars, envVars
  <2>2. Cardinality(Posting(i)') = IF j = i THEN Cardinality(Posting(i)) + 1
                                   ELSE Cardinality(Posting(i))
    BY <1>2, <2>1, PostingMoves
  <2>3. posts'[i] = IF j = i THEN posts[i] + 1 ELSE posts[i]
    BY <1>2, <1>6 DEF Post, TypeOK
  <2>4. \A t \in Sweepers : posted'[t] = IF t = s THEN j ELSE posted[t]
    BY <1>2, <2>1 DEF TypeOK
  <2>5. \A t \in Sweepers : batch[t][i] \in Int
    BY <1>2 DEF TypeOK, Absent
  <2>6. QED
    BY <1>1, <1>2, <2>1, <2>2, <2>3, <2>4, <2>5 DEF TypeOK
<1>7. ASSUME NEW s \in Sweepers, posted' = [posted EXCEPT ![s] = NoRow], posted[s] # NoRow,
             UNCHANGED <<posts, bumps>>,
             \A t \in Sweepers : batch'[t][i] \in {batch[t][i], Absent},
             retries'[i] \in {retries[i], IF posted[s] = i THEN retries[i] + 1 ELSE retries[i]}
      PROVE  /\ retries'[i] + Cardinality(Posting(i)') <= posts'[i] + bumps'[i]
             /\ \A t \in Sweepers :
                   /\ batch'[t][i] <= posts'[i] + bumps'[i]
                   /\ posted'[t] = i => batch'[t][i] < posts'[i] + bumps'[i]
  <2>1. Cardinality(Posting(i)') = IF posted[s] = i THEN Cardinality(Posting(i)) - 1
                                   ELSE Cardinality(Posting(i))
    <3>1. NoRow # i
      BY RetryAssumption DEF NoRow
    <3>2. /\ TypeOK /\ NoRow \in Deliveries \cup {NoRow} /\ NoRow # posted[s]
          /\ posted' = [posted EXCEPT ![s] = NoRow]
      BY <1>2, <1>7
    <3>3. Cardinality(Posting(i)') = IF NoRow = i THEN Cardinality(Posting(i)) + 1
                                     ELSE IF posted[s] = i THEN Cardinality(Posting(i)) - 1
                                     ELSE Cardinality(Posting(i))
      BY <3>2, PostingMoves
    <3>4. QED
      BY <3>1, <3>3
  <2>2. retries'[i] + Cardinality(Posting(i)') <= posts'[i] + bumps'[i]
    BY <1>1, <1>2, <1>7, <2>1 DEF TypeOK
  <2>3. ASSUME NEW t \in Sweepers
        PROVE  /\ batch'[t][i] <= posts'[i] + bumps'[i]
               /\ posted'[t] = i => batch'[t][i] < posts'[i] + bumps'[i]
    <3>1. posted'[t] = i => posted[t] = i
      BY <1>2, <1>7, RetryAssumption DEF TypeOK, NoRow
    <3>2. /\ posts'[i] \in Nat /\ bumps'[i] \in Nat /\ posts'[i] = posts[i]
          /\ bumps'[i] = bumps[i]
      BY <1>2, <1>7 DEF TypeOK
    <3>3. CASE batch'[t][i] = batch[t][i]
      BY <1>1, <3>1, <3>2, <3>3
    <3>4. CASE batch'[t][i] = Absent
      BY <3>2, <3>4 DEF Absent
    <3>5. QED
      BY <1>7, <3>3, <3>4
  <2>4. QED
    BY <2>2, <2>3
<1>8. ASSUME NEW s \in Sweepers, NextRow(s), posted[s] # NoRow
      PROVE  /\ posted' = [posted EXCEPT ![s] = NoRow]
             /\ \A t \in Sweepers : batch'[t][i] \in {batch[t][i], Absent}
  BY <1>2, <1>8 DEF NextRow, TypeOK
<1>9. ASSUME NEW s \in Sweepers, Record(s)
      PROVE  /\ retries'[i] + Cardinality(Posting(i)') <= posts'[i] + bumps'[i]
             /\ \A t \in Sweepers :
                   /\ batch'[t][i] <= posts'[i] + bumps'[i]
                   /\ posted'[t] = i => batch'[t][i] < posts'[i] + bumps'[i]
  <2>1. posted[s] # NoRow /\ NextRow(s) /\ UNCHANGED <<posts, bumps>>
    BY <1>9 DEF Record, envVars
  <2>2. retries'[i] \in {retries[i], IF posted[s] = i THEN retries[i] + 1 ELSE retries[i]}
    BY <1>2, <1>9 DEF Record, TypeOK
  <2>3. QED
    BY <1>7, <1>8, <2>1, <2>2
<1>10. ASSUME NEW s \in Sweepers, RecordFails(s)
      PROVE  /\ retries'[i] + Cardinality(Posting(i)') <= posts'[i] + bumps'[i]
             /\ \A t \in Sweepers :
                   /\ batch'[t][i] <= posts'[i] + bumps'[i]
                   /\ posted'[t] = i => batch'[t][i] < posts'[i] + bumps'[i]
  BY <1>7, <1>8, <1>10 DEF RecordFails, rowVars
<1>11. ASSUME NEW s \in Sweepers, SweepDies(s)
      PROVE  /\ retries'[i] + Cardinality(Posting(i)') <= posts'[i] + bumps'[i]
             /\ \A t \in Sweepers :
                   /\ batch'[t][i] <= posts'[i] + bumps'[i]
                   /\ posted'[t] = i => batch'[t][i] < posts'[i] + bumps'[i]
  <2>1. /\ posted' = [posted EXCEPT ![s] = NoRow]
        /\ UNCHANGED <<retries, posts, bumps>>
    BY <1>11 DEF SweepDies, rowVars
  <2>2. \A t \in Sweepers : batch'[t][i] \in {batch[t][i], Absent}
    BY <1>2, <1>11 DEF SweepDies, EmptyBatch, TypeOK
  <2>3. CASE posted[s] # NoRow
    BY <1>7, <2>1, <2>2, <2>3
  <2>4. CASE posted[s] = NoRow
    <3>1. posted' = posted /\ Posting(i)' = Posting(i)
      BY <1>2, <2>1, <2>4 DEF TypeOK, Posting
    <3>2. QED
      BY <1>1, <1>2, <2>1, <2>2, <3>1 DEF TypeOK, Absent
  <2>5. QED
    BY <2>3, <2>4
<1>12. CASE UNCHANGED vars
  <2>1. Posting(i)' = Posting(i)
    BY <1>12 DEF vars, Posting
  <2>2. QED
    BY <1>1, <1>12, <2>1 DEF vars
<1>13. QED
  BY <1>3, <1>4, <1>5, <1>6, <1>9, <1>10, <1>11, <1>12 DEF Next, SweepStep, IInv

\* A dead letter is only written by a sweep that posted the row and remembered
\* a count of at least MaxRetries.
LEMMA DeadStep ==
    ASSUME IInv, [Next]_vars
    PROVE  DeadLetterEarned'
<1> SUFFICES ASSUME NEW i \in Deliveries, dead'[i]
             PROVE  posts'[i] + bumps'[i] > MaxRetries
  BY DEF DeadLetterEarned
<1>1. TypeOK /\ (dead[i] => posts[i] + bumps[i] > MaxRetries) /\ MaxRetries \in Nat
  BY RetryAssumption DEF IInv, DeadLetterEarned
<1>2. posts'[i] + bumps'[i] >= posts[i] + bumps[i]
  <2>1. ASSUME NEW j \in Deliveries,
               RecordDelivery(j) \/ BecomesDue(j) \/ ManualRetry(j) \/ Revive(j)
        PROVE  posts'[i] >= posts[i] /\ bumps'[i] >= bumps[i]
    BY <1>1, <2>1 DEF RecordDelivery, BecomesDue, ManualRetry, Revive, envVars, TypeOK
  <2>2. ASSUME NEW s \in Sweepers, NEW j \in Deliveries, Post(s, j)
        PROVE  posts'[i] >= posts[i] /\ bumps'[i] >= bumps[i]
    BY <1>1, <2>2 DEF Post, envVars, TypeOK
  <2>3. ASSUME NEW s \in Sweepers,
               Select(s) \/ Record(s) \/ RecordFails(s) \/ SweepDies(s) \/ UNCHANGED vars
        PROVE  UNCHANGED <<posts, bumps>>
    BY <2>3 DEF Select, Record, RecordFails, SweepDies, envVars, vars
  <2>4. posts[i] \in Nat /\ bumps[i] \in Nat /\ posts'[i] \in Nat /\ bumps'[i] \in Nat
    BY TypeStep DEF IInv, TypeOK
  <2>5. CASE UNCHANGED vars
    BY <2>4, <2>5 DEF vars
  <2>6. QED
    BY <2>1, <2>2, <2>3, <2>4, <2>5 DEF Next, SweepStep
<1>3. CASE dead[i]
  <2>1. posts[i] \in Nat /\ bumps[i] \in Nat /\ posts'[i] \in Nat /\ bumps'[i] \in Nat
    BY TypeStep DEF IInv, TypeOK
  <2>2. QED
    BY <1>1, <1>2, <1>3, <2>1
<1>4. CASE ~dead[i]
  <2>1. PICK s \in Sweepers : Record(s)
    BY <1>1, <1>4, Zenon DEF Next, SweepStep, RecordDelivery, BecomesDue, ManualRetry, Revive,
       Select, Post, RecordFails, SweepDies, rowVars, vars, TypeOK
  <2>2. posted[s] = i /\ Exhausted(batch[s][i])
    BY <1>1, <1>4, <2>1 DEF Record, TypeOK
  <2>3. batch[s][i] >= MaxRetries /\ batch[s][i] < posts[i] + bumps[i]
    BY <2>2 DEF Exhausted, IInv, SnapshotsCounted
  <2>4. /\ batch[s][i] \in Int /\ posts[i] \in Nat /\ bumps[i] \in Nat
        /\ posts'[i] = posts[i] /\ bumps'[i] = bumps[i]
    BY <1>1, <2>1 DEF Record, envVars, TypeOK, Absent
  <2>5. QED
    BY <1>1, <2>3, <2>4
<1>5. QED
  BY <1>3, <1>4

-----------------------------------------------------------------------------
\* The invariant holds in every reachable state.
LEMMA Invariant == Spec => []IInv
<1>1. Init => IInv
  <2> SUFFICES ASSUME Init
               PROVE  IInv
    OBVIOUS
  <2>1. TypeOK
    BY DEF Init, TypeOK, EmptyBatch
  <2>2. \A i \in Deliveries : Posting(i) = {}
    BY RetryAssumption DEF Init, Posting, NoRow
  <2>3. RetriesCounted
    BY <2>2, FS_EmptySet DEF Init, RetriesCounted
  <2>4. SnapshotsCounted
    <3>1. \A s \in Sweepers, i \in Deliveries : batch[s][i] = -1 /\ posted[s] # i
      BY RetryAssumption DEF Init, EmptyBatch, Absent, NoRow
    <3>2. \A i \in Deliveries : posts[i] = 0 /\ bumps[i] = 0
      BY DEF Init
    <3>3. QED
      BY <3>1, <3>2 DEF SnapshotsCounted
  <2>5. DeadLetterEarned
    BY DEF Init, DeadLetterEarned
  <2>6. QED
    BY <2>1, <2>3, <2>4, <2>5 DEF IInv
<1>2. IInv /\ [Next]_vars => IInv'
  BY TypeStep, CountStep, DeadStep DEF IInv
<1>3. QED
  BY <1>1, <1>2, PTL DEF Spec

\* Every variable keeps its type.
THEOREM RetryTypes == Spec => []TypeOK
<1>1. IInv => TypeOK
  BY DEF IInv
<1>2. QED
  BY <1>1, Invariant, PTL

\* No delivery becomes a dead letter before it was posted or counted by hand
\* more than MaxRetries times, however many sweeps overlap and fail.
THEOREM DeadLettersEarned == Spec => []DeadLetterEarned
<1>1. IInv => DeadLetterEarned
  BY DEF IInv
<1>2. QED
  BY <1>1, Invariant, PTL

-----------------------------------------------------------------------------
(* The bound on the posts.                                                 *)

\* Sweeps that have still to post row i, and those that remember a retry_count below
\* the limit: the UPDATE of these does not make it a dead letter.
Waiting(i) == {s \in Sweepers : batch[s][i] # Absent /\ posted[s] # i}
Early(i)   == {s \in Sweepers : batch[s][i] \in 0..(MaxRetries - 1)}

\* The posts that can follow before a revival and without a fault.  A dead letter is
\* selected no more.  Below the limit an attempt can be recorded as many times as are
\* left, and then every sweep can post once by a count below the limit and once by one
\* that has reached it; a post under way is not to come any more.
Allowance(i) ==
    IF dead[i] THEN Cardinality(Waiting(i))
    ELSE IF retries[i] < MaxRetries
    THEN MaxRetries - 1 - retries[i] + 2 * Cardinality(Sweepers) - Cardinality(Posting(i))
    ELSE Cardinality(Sweepers) - Cardinality(Posting(i)) + Cardinality(Early(i))

PostsCharged ==
    \A i \in Deliveries :
        posts[i] + Allowance(i)
            <= (revives[i] + 1) * (MaxRetries - 1 + 2 * Cardinality(Sweepers)) + faults

\* A row under way is in its sweep's batch.
PostedHeld == \A s \in Sweepers, i \in Deliveries : posted[s] = i => batch[s][i] # Absent

ChargeInv == IInv /\ PostedHeld /\ PostsCharged

LEMMA Sizes ==
    ASSUME NEW i \in Deliveries
    PROVE  /\ IsFiniteSet(Posting(i)) /\ IsFiniteSet(Early(i)) /\ IsFiniteSet(Waiting(i))
           /\ Cardinality(Posting(i)) \in Nat /\ Cardinality(Early(i)) \in Nat
           /\ Cardinality(Waiting(i)) \in Nat /\ Cardinality(Sweepers) \in Nat
           /\ Cardinality(Early(i)) <= Cardinality(Sweepers)
           /\ Cardinality(Waiting(i)) <= Cardinality(Sweepers) - Cardinality(Posting(i))
<1>1. /\ Posting(i) \in SUBSET Sweepers /\ Early(i) \in SUBSET Sweepers
      /\ Waiting(i) \in SUBSET (Sweepers \ Posting(i))
  BY DEF Posting, Early, Waiting
<1>2. IsFiniteSet(Sweepers) /\ IsFiniteSet(Sweepers \ Posting(i))
  BY RetryAssumption, FS_Difference
<1>3. /\ IsFiniteSet(Posting(i)) /\ IsFiniteSet(Early(i)) /\ IsFiniteSet(Waiting(i))
      /\ Cardinality(Early(i)) <= Cardinality(Sweepers)
      /\ Cardinality(Waiting(i)) <= Cardinality(Sweepers \ Posting(i))
  BY <1>1, <1>2, FS_Subset
<1>4. Cardinality(Sweepers \ Posting(i)) = Cardinality(Sweepers) - Cardinality(Posting(i))
  <2>1. Sweepers \cap Posting(i) = Posting(i)
    BY <1>1
  <2> QED
    BY <1>2, <2>1, FS_Difference
<1> QED
  BY <1>2, <1>3, <1>4, FS_CardinalityType

\* A sweep lets go of row i.
LEMMA Leaves ==
    ASSUME TypeOK, NEW i \in Deliveries, NEW s \in Sweepers,
           batch'[s][i] = Absent, posted'[s] # i,
           \A t \in Sweepers : t # s => /\ batch'[t][i] = batch[t][i]
                                        /\ posted'[t] = i <=> posted[t] = i
    PROVE  /\ Cardinality(Posting(i))' = IF s \in Posting(i) THEN Cardinality(Posting(i)) - 1
                                         ELSE Cardinality(Posting(i))
           /\ Cardinality(Early(i))' = IF s \in Early(i) THEN Cardinality(Early(i)) - 1
                                       ELSE Cardinality(Early(i))
           /\ Cardinality(Waiting(i))' = IF s \in Waiting(i) THEN Cardinality(Waiting(i)) - 1
                                         ELSE Cardinality(Waiting(i))
<1>1. Posting(i)' = Posting(i) \ {s}
  BY DEF Posting
<1>2. Early(i)' = Early(i) \ {s}
  <2>0. MaxRetries \in Nat
    BY RetryAssumption
  <2>1. \A n \in 0..(MaxRetries - 1) : n # Absent
    BY <2>0 DEF Absent
  <2> QED
    BY <2>1 DEF Early
<1>3. Waiting(i)' = Waiting(i) \ {s}
  BY DEF Waiting
<1>4. IsFiniteSet(Posting(i)) /\ IsFiniteSet(Early(i)) /\ IsFiniteSet(Waiting(i))
  BY Sizes
<1> QED
  BY <1>1, <1>2, <1>3, <1>4, FS_RemoveElement

\* The bound, in a step that leaves row i and its place in the sweeps alone.
LEMMA ChargeElsewhere ==
    ASSUME ChargeInv, NEW i \in Deliveries,
           UNCHANGED <<dead[i], retries[i], posts[i], revives[i]>>,
           faults' = faults \/ faults' = faults + 1,
           \A s \in Sweepers : batch'[s][i] = batch[s][i] /\ (posted'[s] = i <=> posted[s] = i)
    PROVE  posts'[i] + Allowance(i)'
              <= (revives'[i] + 1) * (MaxRetries - 1 + 2 * Cardinality(Sweepers)) + faults'
<1>1. Posting(i)' = Posting(i) /\ Early(i)' = Early(i) /\ Waiting(i)' = Waiting(i)
  BY DEF Posting, Early, Waiting
<1>2. Allowance(i)' = Allowance(i)
  BY <1>1 DEF Allowance
<1> DEFINE cap == (revives[i] + 1) * (MaxRetries - 1 + 2 * Cardinality(Sweepers))
<1>3. posts[i] + Allowance(i) <= cap + faults
  BY DEF ChargeInv, PostsCharged
<1>4. /\ faults \in Nat /\ posts[i] \in Nat /\ revives[i] \in Nat
      /\ retries[i] \in Nat /\ Cardinality(Sweepers) \in Nat
      /\ MaxRetries \in Nat \ {0}
  BY Sizes, RetryAssumption DEF ChargeInv, IInv, TypeOK
<1>5. cap \in Int
  BY <1>4
<1>6. Allowance(i) \in Int
  BY <1>4, Sizes DEF Allowance
<1>7. (revives'[i] + 1) * (MaxRetries - 1 + 2 * Cardinality(Sweepers)) = cap
  OBVIOUS
<1> HIDE DEF cap
<1>8. posts[i] + Allowance(i) <= cap + faults'
  BY <1>3, <1>4, <1>5, <1>6
<1> QED
  BY <1>2, <1>7, <1>8

LEMMA HeldStep ==
    ASSUME TypeOK, PostedHeld, [Next]_vars
    PROVE  PostedHeld'
<1> SUFFICES ASSUME NEW s \in Sweepers, NEW i \in Deliveries, posted'[s] = i
             PROVE  batch'[s][i] # Absent
  BY DEF PostedHeld
<1>0. posted[s] = i => batch[s][i] # Absent
  BY DEF PostedHeld
<1>1. i # NoRow
  BY RetryAssumption DEF NoRow
<1>2. CASE UNCHANGED <<batch, posted>>
  BY <1>0, <1>2
<1>3. ASSUME NEW t \in Sweepers, Select(t)
      PROVE  batch'[s][i] # Absent
  <2>1. posted[s] = i /\ s # t
    BY <1>1, <1>3 DEF Select
  <2> QED
    BY <1>0, <1>3, <2>1 DEF Select, TypeOK
<1>4. ASSUME NEW t \in Sweepers, NEW j \in Deliveries, Post(t, j)
      PROVE  batch'[s][i] # Absent
  BY <1>0, <1>4 DEF Post, TypeOK
<1>5. ASSUME NEW t \in Sweepers, NextRow(t)
      PROVE  batch'[s][i] # Absent
  <2>1. posted[s] = i /\ s # t
    BY <1>1, <1>5 DEF NextRow, TypeOK
  <2> QED
    BY <1>0, <1>5, <2>1 DEF NextRow, TypeOK
<1>6. ASSUME NEW t \in Sweepers, SweepDies(t)
      PROVE  batch'[s][i] # Absent
  <2>1. posted[s] = i /\ s # t
    BY <1>1, <1>6 DEF SweepDies, TypeOK
  <2> QED
    BY <1>0, <1>6, <2>1 DEF SweepDies, TypeOK
<1>7. ASSUME NEW j \in Deliveries, RecordDelivery(j) \/ BecomesDue(j) \/ ManualRetry(j) \/ Revive(j)
      PROVE  UNCHANGED <<batch, posted>>
  BY <1>7 DEF RecordDelivery, BecomesDue, ManualRetry, Revive
<1> QED
  BY <1>2, <1>3, <1>4, <1>5, <1>6, <1>7 DEF Next, SweepStep, Record, RecordFails, vars

\* A write of the outcome, or its failure, at a row other than i.
LEMMA NextRowElsewhere ==
    ASSUME TypeOK, NEW i \in Deliveries, NEW s \in Sweepers, posted[s] # NoRow, posted[s] # i,
           NextRow(s)
    PROVE  \A t \in Sweepers : batch'[t][i] = batch[t][i] /\ (posted'[t] = i <=> posted[t] = i)
<1>1. i # NoRow /\ posted[s] \in Deliveries
  BY RetryAssumption DEF NoRow, TypeOK
<1>2. \A t \in Sweepers : posted'[t] = i <=> posted[t] = i
  BY <1>1 DEF NextRow, TypeOK
<1>3. \A t \in Sweepers : batch'[t][i] = batch[t][i]
  BY <1>1 DEF NextRow, TypeOK
<1> QED
  BY <1>2, <1>3

\* The numbers of a delivery's bound.
LEMMA ChargeNumbers ==
    ASSUME ChargeInv, NEW i \in Deliveries
    PROVE  /\ MaxRetries \in Nat /\ MaxRetries > 0
           /\ Cardinality(Sweepers) \in Nat /\ Cardinality(Posting(i)) \in Nat
           /\ Cardinality(Early(i)) \in Nat /\ Cardinality(Waiting(i)) \in Nat
           /\ faults \in Nat /\ posts[i] \in Nat /\ revives[i] \in Nat /\ retries[i] \in Nat
           /\ dead[i] \in BOOLEAN
           /\ (revives[i] + 1) * (MaxRetries - 1 + 2 * Cardinality(Sweepers)) \in Int
<1>1. MaxRetries \in Nat /\ MaxRetries > 0
  <2>1. MaxRetries \in Nat /\ MaxRetries # 0
    BY RetryAssumption
  <2> QED
    BY <2>1
<1>2. revives[i] \in Nat /\ Cardinality(Sweepers) \in Nat
  BY Sizes DEF ChargeInv, IInv, TypeOK
<1>3. (revives[i] + 1) * (MaxRetries - 1 + 2 * Cardinality(Sweepers)) \in Int
  BY <1>1, <1>2
<1> QED
  BY <1>1, <1>2, <1>3, Sizes DEF ChargeInv, IInv, TypeOK

\* The bound is kept: a revival brings a new life with a full allowance, a post uses one
\* up, a record uses up an attempt or makes the row a dead letter, and what a sweep can
\* do once more after a fault is charged to the fault.
LEMMA ChargeStep ==
    ASSUME ChargeInv, [Next]_vars
    PROVE  PostsCharged'
<1> SUFFICES ASSUME NEW i \in Deliveries
             PROVE  posts'[i] + Allowance(i)'
                       <= (revives'[i] + 1) * (MaxRetries - 1 + 2 * Cardinality(Sweepers)) + faults'
  BY DEF PostsCharged
<1> DEFINE Goal == posts'[i] + Allowance(i)'
                      <= (revives'[i] + 1) * (MaxRetries - 1 + 2 * Cardinality(Sweepers)) + faults'
           cap == (revives[i] + 1) * (MaxRetries - 1 + 2 * Cardinality(Sweepers))
           p == Cardinality(Posting(i))
           f == Cardinality(Early(i))
           w == Cardinality(Waiting(i))
           N == Cardinality(Sweepers)
<1>1. /\ MaxRetries \in Nat /\ MaxRetries > 0
      /\ p \in Nat /\ f \in Nat /\ w \in Nat /\ N \in Nat
      /\ f <= N /\ w <= N - p
      /\ faults \in Nat /\ posts[i] \in Nat /\ revives[i] \in Nat /\ retries[i] \in Nat
      /\ dead[i] \in BOOLEAN
      /\ cap \in Int
  BY Sizes, ChargeNumbers
<1>2. TypeOK /\ PostedHeld
  BY DEF ChargeInv, IInv
<1>3. posts[i] + (IF dead[i] THEN w
                  ELSE IF retries[i] < MaxRetries THEN MaxRetries - 1 - retries[i] + 2 * N - p
                  ELSE N - p + f) <= cap + faults
  BY DEF ChargeInv, PostsCharged, Allowance
<1>4. Goal <=> posts'[i] + (IF dead'[i] THEN w'
                            ELSE IF retries'[i] < MaxRetries
                            THEN MaxRetries - 1 - retries'[i] + 2 * N - p'
                            ELSE N - p' + f')
                  <= (revives'[i] + 1) * (MaxRetries - 1 + 2 * N) + faults'
  BY DEF Allowance
<1>5. i # NoRow
  BY RetryAssumption DEF NoRow
<1>6. ASSUME UNCHANGED <<batch, posted>>
      PROVE  p' = p /\ f' = f /\ w' = w
  BY <1>6 DEF Posting, Early, Waiting
<1>7. revives'[i] = revives[i] => (revives'[i] + 1) * (MaxRetries - 1 + 2 * N) = cap
  OBVIOUS
<1>8. revives'[i] = revives[i] + 1
         => (revives'[i] + 1) * (MaxRetries - 1 + 2 * N) = cap + (MaxRetries - 1 + 2 * N)
  <2>1. \A a \in Nat, b \in Int : (a + 1 + 1) * b = (a + 1) * b + b
    OBVIOUS
  <2>2. MaxRetries - 1 + 2 * N \in Int
    BY <1>1
  <2> QED
    BY <1>1, <2>1, <2>2
<1> DEFINE cap2 == (revives'[i] + 1) * (MaxRetries - 1 + 2 * N)
<1>9. Goal <=> posts'[i] + (IF dead'[i] THEN w'
                            ELSE IF retries'[i] < MaxRetries
                            THEN MaxRetries - 1 - retries'[i] + 2 * N - p'
                            ELSE N - p' + f') <= cap2 + faults'
  BY <1>4
<1>10. /\ revives'[i] = revives[i] => cap2 = cap
       /\ revives'[i] = revives[i] + 1 => cap2 = cap + (MaxRetries - 1 + 2 * N)
  BY <1>7, <1>8
<1>11. ASSUME UNCHANGED <<dead[i], retries[i], posts[i], revives[i]>>,
              faults' = faults \/ faults' = faults + 1,
              \A s \in Sweepers : batch'[s][i] = batch[s][i] /\ (posted'[s] = i <=> posted[s] = i)
       PROVE  Goal
  BY <1>11, ChargeElsewhere
<1> HIDE DEF Goal, cap, cap2, p, f, w, N
<1>12. ASSUME NEW j \in Deliveries, RecordDelivery(j) \/ BecomesDue(j)
       PROVE  Goal
  BY <1>11, <1>12 DEF RecordDelivery, BecomesDue, envVars
<1>13. ASSUME NEW j \in Deliveries, ManualRetry(j)
       PROVE  Goal
  <2>1. CASE j # i
    BY <1>2, <1>11, <1>13, <2>1 DEF ManualRetry, TypeOK
  <2>2. CASE j = i
    <3>1. /\ retries'[i] = retries[i] + 1 /\ dead'[i] = dead[i] /\ posts'[i] = posts[i]
          /\ faults' = faults /\ revives'[i] = revives[i]
          /\ UNCHANGED <<batch, posted>>
      BY <1>2, <1>13, <2>2 DEF ManualRetry, TypeOK
    <3>2. p' = p /\ f' = f /\ w' = w /\ cap2 = cap
      BY <1>6, <1>10, <3>1
    <3> QED
      BY <1>1, <1>3, <1>9, <3>1, <3>2
  <2> QED
    BY <2>1, <2>2
<1>14. ASSUME NEW j \in Deliveries, Revive(j)
       PROVE  Goal
  <2>1. CASE j # i
    BY <1>2, <1>11, <1>14, <2>1 DEF Revive, TypeOK
  <2>2. CASE j = i
    <3>1. /\ retries'[i] = 0 /\ dead'[i] = FALSE /\ posts'[i] = posts[i]
          /\ faults' = faults /\ revives'[i] = revives[i] + 1
          /\ UNCHANGED <<batch, posted>>
      BY <1>2, <1>14, <2>2 DEF Revive, TypeOK
    <3>2. p' = p /\ f' = f /\ w' = w /\ cap2 = cap + (MaxRetries - 1 + 2 * N)
      BY <1>6, <1>10, <3>1
    <3>3. posts[i] <= cap + faults
      BY <1>1, <1>3
    <3> QED
      BY <1>1, <1>9, <3>1, <3>2, <3>3
  <2> QED
    BY <2>1, <2>2
<1>15. ASSUME NEW s \in Sweepers, Select(s)
       PROVE  Goal
  <2>1. PICK rows \in SUBSET {j \in Deliveries : Due(j)} :
           batch' = [batch EXCEPT ![s] =
                        [j \in Deliveries |-> IF j \in rows THEN retries[j] ELSE Absent]]
    BY <1>15 DEF Select
  <2>2. /\ batch[s] = EmptyBatch /\ posted[s] = NoRow
        /\ UNCHANGED <<next, retries, dead, posted, posts, revives, bumps, faults>>
    BY <1>15 DEF Select, rowVars, envVars
  <2>3. \A t \in Sweepers : t # s => batch'[t][i] = batch[t][i]
    BY <1>2, <2>1 DEF TypeOK
  <2>4. batch[s][i] = Absent /\ batch'[s][i] = IF i \in rows THEN retries[i] ELSE Absent
    BY <1>2, <2>1, <2>2 DEF EmptyBatch, TypeOK
  <2>5. CASE i \notin rows
    BY <1>11, <2>2, <2>3, <2>4, <2>5
  <2>6. CASE i \in rows
    <3>1. ~dead[i] /\ dead'[i] = dead[i]
      BY <2>1, <2>2, <2>6 DEF Due
    <3>2. p' = p
      BY <2>2 DEF p, Posting
    <3>3. CASE retries[i] < MaxRetries
      BY <1>1, <1>3, <1>9, <1>10, <2>2, <3>1, <3>2, <3>3
    <3>4. CASE ~(retries[i] < MaxRetries)
      <4>1. batch'[s][i] \notin 0..(MaxRetries - 1) /\ batch[s][i] \notin 0..(MaxRetries - 1)
        <5>1. batch'[s][i] = retries[i] /\ batch[s][i] = -1
          BY <2>4, <2>6 DEF Absent
        <5>2. retries[i] \notin 0..(MaxRetries - 1) /\ -1 \notin 0..(MaxRetries - 1)
          BY <1>1, <3>4
        <5> QED
          BY <5>1, <5>2
      <4>2. Early(i)' = Early(i)
        BY <2>3, <4>1 DEF Early
      <4>3. f' = f
        BY <4>2 DEF f
      <4> QED
        BY <1>1, <1>3, <1>9, <1>10, <2>2, <3>1, <3>2, <3>4, <4>3
    <3> QED
      BY <3>3, <3>4
  <2> QED
    BY <2>5, <2>6
<1>16. ASSUME NEW s \in Sweepers, NEW j \in Deliveries, Post(s, j)
       PROVE  Goal
  <2>1. /\ posted[s] = NoRow /\ batch[s][j] # Absent /\ posted' = [posted EXCEPT ![s] = j]
        /\ posts' = [posts EXCEPT ![j] = @ + 1]
        /\ UNCHANGED <<next, retries, dead, batch, revives, bumps, faults>>
    BY <1>16 DEF Post, rowVars, envVars
  <2>2. CASE j # i
    <3>1. posts'[i] = posts[i] /\ \A t \in Sweepers : posted'[t] = i <=> posted[t] = i
      BY <1>2, <1>5, <2>1, <2>2 DEF TypeOK
    <3> QED
      BY <1>11, <2>1, <3>1
  <2>3. CASE j = i
    <3>1. posts'[i] = posts[i] + 1
      BY <1>2, <2>1, <2>3 DEF TypeOK
    <3>2. p' = p + 1
      <4>1. j \in Deliveries \cup {NoRow} /\ j # posted[s]
        BY <1>5, <2>1, <2>3
      <4> QED
        BY <1>2, <2>1, <2>3, <4>1, PostingMoves DEF p
    <3>3. w' = w - 1
      <4>1. Waiting(i)' = Waiting(i) \ {s} /\ s \in Waiting(i)
        BY <1>2, <1>5, <2>1, <2>3 DEF Waiting, TypeOK
      <4>2. IsFiniteSet(Waiting(i))
        BY Sizes
      <4> QED
        BY <4>1, <4>2, FS_RemoveElement DEF w
    <3>4. f' = f
      BY <2>1 DEF f, Early
    <3>5. cap2 = cap /\ retries'[i] = retries[i] /\ dead'[i] = dead[i] /\ faults' = faults
      BY <1>10, <2>1
    <3> QED
      BY <1>1, <1>3, <1>9, <3>1, <3>2, <3>3, <3>4, <3>5
  <2> QED
    BY <2>2, <2>3
\* What a sweep leaves behind that has written, or failed to write, the outcome for row i.
<1>17. ASSUME NEW s \in Sweepers, posted[s] = i, NextRow(s)
       PROVE  /\ p' = p - 1 /\ w' = w
              /\ f' = IF s \in Early(i) THEN f - 1 ELSE f
  <2>1. batch'[s][i] = Absent /\ posted'[s] # i
    BY <1>2, <1>5, <1>17 DEF NextRow, TypeOK
  <2>2. \A t \in Sweepers : t # s => batch'[t][i] = batch[t][i] /\ (posted'[t] = i <=> posted[t] = i)
    BY <1>2, <1>17 DEF NextRow, TypeOK
  <2>3. s \in Posting(i) /\ s \notin Waiting(i)
    BY <1>17 DEF Posting, Waiting
  <2> QED
    BY <1>2, <2>1, <2>2, <2>3, Leaves DEF p, f, w
<1>18. ASSUME NEW s \in Sweepers, Record(s)
       PROVE  Goal
  <2>1. /\ posted[s] # NoRow /\ posted[s] \in Deliveries /\ NextRow(s)
        /\ UNCHANGED <<posts, revives, bumps, faults>>
    BY <1>2, <1>18 DEF Record, envVars, TypeOK
  <2>2. CASE posted[s] # i
    <3>1. retries'[i] = retries[i] /\ dead'[i] = dead[i]
      BY <1>2, <1>18, <2>1, <2>2 DEF Record, TypeOK
    <3> QED
      BY <1>2, <1>11, <2>1, <2>2, <3>1, NextRowElsewhere
  <2>3. CASE posted[s] = i
    <3>1. /\ retries'[i] = retries[i] + 1
          /\ dead'[i] = (dead[i] \/ batch[s][i] >= MaxRetries)
      <4>1. retries'[i] = retries[i] + 1
        BY <1>2, <1>18, <2>3 DEF Record, TypeOK
      <4>2. dead'[i] = (dead[i] \/ batch[s][i] >= MaxRetries)
        BY <1>2, <1>18, <2>3, Zenon DEF Record, TypeOK, Exhausted
      <4> QED
        BY <4>1, <4>2
    <3>2. batch[s][i] \in Nat
      BY <1>2, <2>3 DEF PostedHeld, TypeOK
    <3>3. p' = p - 1 /\ w' = w /\ f' = IF s \in Early(i) THEN f - 1 ELSE f
      BY <1>17, <2>1, <2>3
    <3>4. p >= 1 /\ p' \in Nat
      <4>1. s \in Posting(i)
        BY <2>3 DEF Posting
      <4>2. p # 0
        BY <4>1, Sizes, FS_EmptySet DEF p
      <4> QED
        BY <1>1, <3>3, <4>2
    <3>5. cap2 = cap /\ posts'[i] = posts[i] /\ faults' = faults
      BY <1>10, <2>1
    <3>6. CASE dead'[i]
      BY <1>1, <1>3, <1>9, <3>3, <3>5, <3>6
    <3>7. CASE ~dead'[i]
      <4>1. ~dead[i] /\ ~(batch[s][i] >= MaxRetries)
        BY <3>1, <3>7, Zenon
      <4>2. s \in Early(i)
        BY <1>1, <3>2, <4>1 DEF Early
      <4>3. f' = f - 1
        BY <3>3, <4>2
      <4> QED
        BY <1>1, <1>3, <1>9, <3>1, <3>3, <3>4, <3>5, <3>7, <4>1, <4>3
    <3> QED
      BY <3>6, <3>7
  <2> QED
    BY <2>2, <2>3
<1>19. ASSUME NEW s \in Sweepers, RecordFails(s)
       PROVE  Goal
  <2>1. /\ posted[s] # NoRow /\ posted[s] \in Deliveries /\ NextRow(s)
        /\ faults' = faults + 1
        /\ UNCHANGED <<next, retries, dead, posts, revives, bumps>>
    BY <1>2, <1>19 DEF RecordFails, rowVars, TypeOK
  <2>2. CASE posted[s] # i
    BY <1>2, <1>11, <2>1, <2>2, NextRowElsewhere
  <2>3. CASE posted[s] = i
    <3>1. p' = p - 1 /\ w' = w /\ (f' = f \/ f' = f - 1)
      BY <1>17, <2>1, <2>3
    <3>2. cap2 = cap /\ posts'[i] = posts[i] /\ retries'[i] = retries[i] /\ dead'[i] = dead[i]
      BY <1>10, <2>1
    <3> QED
      BY <1>1, <1>3, <1>9, <2>1, <3>1, <3>2
  <2> QED
    BY <2>2, <2>3
<1>20. ASSUME NEW s \in Sweepers, SweepDies(s)
       PROVE  Goal
  <2>1. /\ faults' = faults + 1
        /\ UNCHANGED <<next, retries, dead, posts, revives, bumps>>
        /\ batch' = [batch EXCEPT ![s] = EmptyBatch] /\ posted' = [posted EXCEPT ![s] = NoRow]
    BY <1>20 DEF SweepDies, rowVars
  <2>2. batch'[s][i] = Absent /\ posted'[s] # i
    BY <1>2, <1>5, <2>1 DEF EmptyBatch, TypeOK
  <2>3. \A t \in Sweepers : t # s => batch'[t][i] = batch[t][i] /\ (posted'[t] = i <=> posted[t] = i)
    BY <1>2, <2>1 DEF TypeOK
  <2>4. /\ p' = p \/ p' = p - 1
        /\ f' = f \/ f' = f - 1
        /\ w' = w \/ w' = w - 1
    BY <1>2, <2>2, <2>3, Leaves DEF p, f, w
  <2>5. cap2 = cap /\ posts'[i] = posts[i] /\ retries'[i] = retries[i] /\ dead'[i] = dead[i]
    BY <1>10, <2>1
  <2> QED
    BY <1>1, <1>3, <1>9, <2>1, <2>4, <2>5
<1>21. ASSUME UNCHANGED vars
       PROVE  Goal
  <2>1. UNCHANGED <<dead, retries, posts, revives, faults, batch, posted>>
    BY <1>21 DEF vars
  <2> QED
    BY <1>11, <2>1
<1>22. ASSUME Next
       PROVE  Goal
  <2>1. CASE \E j \in Deliveries :
                RecordDelivery(j) \/ BecomesDue(j) \/ ManualRetry(j) \/ Revive(j)
    BY <1>12, <1>13, <1>14, <2>1
  <2>2. CASE \E s \in Sweepers : Select(s) \/ SweepStep(s) \/ RecordFails(s) \/ SweepDies(s)
    BY <1>15, <1>16, <1>18, <1>19, <1>20, <2>2 DEF SweepStep
  <2> QED
    BY <1>22, <2>1, <2>2 DEF Next
<1>23. Goal
  BY <1>21, <1>22
<1> QED
  BY <1>23 DEF Goal

\* The destination is not flooded: in one life of a delivery, with n sweeps at once, at
\* most MaxRetries - 1 + 2n posts are made, plus one for each fault.
THEOREM PostsAreBounded == Spec => []PostsBounded
<1>1. Init => PostedHeld /\ PostsCharged
  <2> SUFFICES ASSUME Init
               PROVE  PostedHeld /\ PostsCharged
    OBVIOUS
  <2>1. \A s \in Sweepers, i \in Deliveries : batch[s][i] = Absent /\ posted[s] # i
    BY RetryAssumption DEF Init, EmptyBatch, NoRow
  <2>2. PostedHeld
    BY <2>1 DEF PostedHeld
  <2>3. ASSUME NEW i \in Deliveries
        PROVE  posts[i] + Allowance(i)
                  <= (revives[i] + 1) * (MaxRetries - 1 + 2 * Cardinality(Sweepers)) + faults
    <3>1. Posting(i) = {}
      BY <2>1 DEF Posting
    <3>2. Cardinality(Posting(i)) = 0
      BY <3>1, FS_EmptySet
    <3>3. MaxRetries \in Nat /\ MaxRetries # 0
      BY RetryAssumption
    <3>4. Cardinality(Sweepers) \in Nat
      BY Sizes
    <3>5. posts[i] = 0 /\ ~dead[i] /\ retries[i] = 0 /\ revives[i] = 0 /\ faults = 0
      BY DEF Init
    <3> QED
      BY <3>2, <3>3, <3>4, <3>5 DEF Allowance
  <2> QED
    BY <2>2, <2>3 DEF PostsCharged
<1>2. IInv /\ IInv' /\ PostedHeld /\ PostsCharged /\ [Next]_vars => (PostedHeld /\ PostsCharged)'
  <2>1. IInv => TypeOK
    BY DEF IInv
  <2> QED
    BY <2>1, HeldStep, ChargeStep DEF ChargeInv
<1>3. ChargeInv => PostsBounded
  <2> SUFFICES ASSUME ChargeInv, NEW i \in Deliveries
               PROVE  posts[i] <= (revives[i] + 1) * (MaxRetries - 1 + 2 * Cardinality(Sweepers))
                                     + faults
    BY DEF PostsBounded
  <2>1. posts[i] + Allowance(i)
           <= (revives[i] + 1) * (MaxRetries - 1 + 2 * Cardinality(Sweepers)) + faults
    BY DEF ChargeInv, PostsCharged
  <2>2. Allowance(i) \in Int /\ Allowance(i) >= 0
    BY Sizes, ChargeNumbers DEF Allowance
  <2> QED
    BY <2>1, <2>2, ChargeNumbers
<1>4. ChargeInv <=> IInv /\ PostedHeld /\ PostsCharged
  BY DEF ChargeInv
<1> QED
  BY <1>1, <1>2, <1>3, <1>4, Invariant, PTL DEF Spec
=============================================================================
