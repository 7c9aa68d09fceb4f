---------------------------- MODULE WebhookRetry ----------------------------
(***************************************************************************)
(* The retries of failed alert deliveries: recordDelivery                  *)
(* (webhooks/alerting.ts), the sweep retryWebhookDeliveries and the revive *)
(* route (features/f13-f20-features.ts), the manual retry route            *)
(* (features/future-features.ts).                                          *)
(*                                                                         *)
(* The sweep runs every 60 s without a lock, in every gateway process, so  *)
(* sweeps overlap; each works on the rows its SELECT returned.             *)
(* Deliveries that succeed at once are inert rows and left out.  A retry   *)
(* never succeeds: recordDelivery stores no destination_url, and           *)
(* axios.post(null) throws; the success branch of the sweep is dead code.  *)
(***************************************************************************)
EXTENDS Integers, FiniteSets

CONSTANTS
    Deliveries,  \* failed deliveries
    Sweepers,    \* sweeps that may be under way at once
    MaxRetries,  \* length of RETRY_DELAYS_MS (5)
    BatchLimit,  \* LIMIT of the sweep's SELECT (50)
    MaxRevives,  \* bound: no revival once a delivery was revived so often
    MaxBumps,    \* bound: no manual retry once a delivery was retried so often
    MaxFaults    \* bound: UPDATEs of the sweep that fail, sweeps that die

ASSUME RetryAssumption ==
    /\ MaxRetries \in Nat \ {0} /\ BatchLimit \in Nat \ {0}
    /\ MaxRevives \in Nat /\ MaxBumps \in Nat /\ MaxFaults \in Nat
    /\ IsFiniteSet(Sweepers) /\ "no row" \notin Deliveries

VARIABLES
    next,    \* next_retry_at: "none" without a row, "null", "future" or "past"
    retries, \* retry_count
    dead,    \* dead_lettered
    batch,   \* per sweep: retry_count of the rows still to post, Absent for others
    posted,  \* per sweep: the row whose post was just tried, NoRow between rows
    posts,   \* history: posts of a delivery
    revives, bumps, faults \* bounded environment

vars == <<next, retries, dead, batch, posted, posts, revives, bumps, faults>>
rowVars == <<next, retries, dead>>
envVars == <<revives, bumps, faults>>

Absent == -1
NoRow  == "no row"

-----------------------------------------------------------------------------
Exists(i) == next[i] # "none"
Due(i)    == next[i] = "past" /\ ~dead[i]
EmptyBatch == [i \in Deliveries |-> Absent]

Init ==
    /\ next = [i \in Deliveries |-> "none"]
    /\ retries = [i \in Deliveries |-> 0]
    /\ dead = [i \in Deliveries |-> FALSE]
    /\ batch = [s \in Sweepers |-> EmptyBatch]
    /\ posted = [s \in Sweepers |-> NoRow]
    /\ posts = [i \in Deliveries |-> 0]
    /\ revives = [i \in Deliveries |-> 0]
    /\ bumps = [i \in Deliveries |-> 0]
    /\ faults = 0

\* recordDelivery of a dispatch or a channel test that failed: the first retry
\* is five minutes away.
RecordDelivery(i) ==
    /\ ~Exists(i)
    /\ next' = [next EXCEPT ![i] = "future"]
    /\ UNCHANGED <<retries, dead, batch, posted, posts, envVars>>

\* next_retry_at passes.
BecomesDue(i) ==
    /\ next[i] = "future"
    /\ next' = [next EXCEPT ![i] = "past"]
    /\ UNCHANGED <<retries, dead, batch, posted, posts, envVars>>

\* The SELECT of a sweep.  ORDER BY and LIMIT take some of the due rows, all
\* of them when they fit.
Select(s) ==
    /\ batch[s] = EmptyBatch /\ posted[s] = NoRow
    /\ \E rows \in SUBSET {i \in Deliveries : Due(i)} :
          /\ rows # {} /\ Cardinality(rows) <= BatchLimit
          /\ Cardinality(rows) < BatchLimit => \A i \in Deliveries : Due(i) => i \in rows
          /\ batch' = [batch EXCEPT ![s] =
                          [i \in Deliveries |-> IF i \in rows THEN retries[i] ELSE Absent]]
    /\ UNCHANGED <<rowVars, posted, posts, envVars>>

\* axios.post for the next row of the batch, whatever happened to the row since.
Post(s, i) ==
    /\ posted[s] = NoRow /\ batch[s][i] # Absent
    /\ posted' = [posted EXCEPT ![s] = i]
    /\ posts' = [posts EXCEPT ![i] = @ + 1]
    /\ UNCHANGED <<rowVars, batch, envVars>>

\* Mutants of Exhausted: one retry too few, one too many
ExhaustedEarly(n) == n >= MaxRetries - 1
ExhaustedLate(n) == n > MaxRetries

\* nextRetryIdx >= RETRY_DELAYS_MS.length, for the count the SELECT returned.
Exhausted(n) == n >= MaxRetries

NextRow(s) ==
    /\ batch' = [batch EXCEPT ![s][posted[s]] = Absent]
    /\ posted' = [posted EXCEPT ![s] = NoRow]

\* Mutant of Record: a retry is not scheduled again
RecordUnscheduled(s) ==
    /\ posted[s] # NoRow
    /\ retries' = [retries EXCEPT ![posted[s]] = @ + 1]
    /\ next' = [next EXCEPT ![posted[s]] = "null"]
    /\ dead' = [dead EXCEPT ![posted[s]] = @ \/ Exhausted(batch[s][posted[s]])]
    /\ NextRow(s)
    /\ UNCHANGED <<posts, envVars>>

\* The UPDATE after a failed post: dead letter or next attempt.  It adds to the
\* row's present count but decides by the selected one, and it never clears
\* dead_lettered.
Record(s) ==
    /\ posted[s] # NoRow
    /\ LET i == posted[s]
           exhausted == Exhausted(batch[s][i])
       IN  /\ retries' = [retries EXCEPT ![i] = @ + 1]
           /\ dead' = [dead EXCEPT ![i] = @ \/ exhausted]
           /\ next' = [next EXCEPT ![i] = IF exhausted THEN "null" ELSE "future"]
    /\ NextRow(s)
    /\ UNCHANGED <<posts, envVars>>

\* The UPDATE throws; it is caught and the sweep goes on.
RecordFails(s) ==
    /\ posted[s] # NoRow /\ faults < MaxFaults
    /\ faults' = faults + 1
    /\ NextRow(s)
    /\ UNCHANGED <<rowVars, posts, revives, bumps>>

\* The process dies in the middle of a sweep.
SweepDies(s) ==
    /\ batch[s] # EmptyBatch /\ faults < MaxFaults
    /\ faults' = faults + 1
    /\ batch' = [batch EXCEPT ![s] = EmptyBatch]
    /\ posted' = [posted EXCEPT ![s] = NoRow]
    /\ UNCHANGED <<rowVars, posts, revives, bumps>>

\* POST /api/webhooks/retry/:deliveryId only counts.
ManualRetry(i) ==
    /\ Exists(i) /\ \A j \in Deliveries : bumps[j] < MaxBumps
    /\ retries' = [retries EXCEPT ![i] = @ + 1]
    /\ bumps' = [bumps EXCEPT ![i] = @ + 1]
    /\ UNCHANGED <<next, dead, batch, posted, posts, revives, faults>>

\* Mutant of Revive: gives MaxRetries retries back instead of starting at zero
ReviveBySubtracting(i) ==
    /\ Exists(i) /\ \A j \in Deliveries : revives[j] < MaxRevives
    /\ dead' = [dead EXCEPT ![i] = FALSE]
    /\ retries' = [retries EXCEPT ![i] = @ - MaxRetries]
    /\ next' = [next EXCEPT ![i] = "future"]
    /\ revives' = [revives EXCEPT ![i] = @ + 1]
    /\ UNCHANGED <<batch, posted, posts, bumps, faults>>

\* POST /api/webhooks/dead-letter/:id/revive, on any row, dead or not.
Revive(i) ==
    /\ Exists(i) /\ \A j \in Deliveries : revives[j] < MaxRevives
    /\ dead' = [dead EXCEPT ![i] = FALSE]
    /\ retries' = [retries EXCEPT ![i] = 0]
    /\ next' = [next EXCEPT ![i] = "future"]
    /\ revives' = [revives EXCEPT ![i] = @ + 1]
    /\ UNCHANGED <<batch, posted, posts, bumps, faults>>

SweepStep(s) == (\E i \in Deliveries : Post(s, i)) \/ Record(s)

Next ==
    \/ \E i \in Deliveries :
          RecordDelivery(i) \/ BecomesDue(i) \/ ManualRetry(i) \/ Revive(i)
    \/ \E s \in Sweepers : Select(s) \/ SweepStep(s) \/ RecordFails(s) \/ SweepDies(s)

Spec == Init /\ [][Next]_vars

\* Time passes, setInterval starts sweeps and a sweep works through its batch.
FairSpec ==
    /\ Spec
    /\ \A i \in Deliveries : WF_vars(BecomesDue(i))
    /\ \A s \in Sweepers : WF_vars(Select(s)) /\ WF_vars(SweepStep(s))

-----------------------------------------------------------------------------
(* Properties.                                                             *)

TypeOK ==
    /\ next \in [Deliveries -> {"none", "null", "future", "past"}]
    /\ retries \in [Deliveries -> Nat]
    /\ dead \in [Deliveries -> BOOLEAN]
    /\ batch \in [Sweepers -> [Deliveries -> Nat \cup {Absent}]]
    /\ posted \in [Sweepers -> Deliveries \cup {NoRow}]
    /\ posts \in [Deliveries -> Nat]
    /\ revives \in [Deliveries -> Nat]
    /\ bumps \in [Deliveries -> Nat]
    /\ faults \in Nat

\* No delivery is given up early: whatever sweeps overlap and whatever stale
\* counts they write, a dead letter was posted or counted by hand more than
\* MaxRetries times, over all its lives: a sweep with a count of before its revival
\* may give it up again at once.
DeadLetterEarned ==
    \A i \in Deliveries : dead[i] => posts[i] + bumps[i] > MaxRetries

\* The destination is not flooded: a delivery gets, with n sweeps at once, at most
\* MaxRetries - 1 + 2n posts for each of its lives, plus one for each fault.
PostsBounded ==
    \A i \in Deliveries :
        posts[i] <= (revives[i] + 1) * (MaxRetries - 1 + 2 * Cardinality(Sweepers)) + faults

\* A failed delivery does not wait for ever: it ends as a dead letter.
EventuallyDeadLettered ==
    \A i \in Deliveries : Exists(i) ~> dead[i]
=============================================================================
