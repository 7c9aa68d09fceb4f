---------------------------- MODULE OverageBilling ----------------------------
(***************************************************************************)
(* Overage billing of one tenant: the meter writes what a month went over  *)
(* the limit to usage_overage (tenant/tenant.ts), and a daily job of every *)
(* gateway process (cron/scheduler.ts, billing/overage.ts) invoices last   *)
(* month's row through Stripe and then records it in billing_invoices.     *)
(*                                                                         *)
(* usage_overage is taken to have the column recorded_at the meter names:  *)
(* without it, as the repository's migrations create the table, nothing is *)
(* ever recorded (see GatewayPipeline!Meter).  Calls are counted in units, *)
(* MinCalls of which cost Stripe's minimum of 0.50 USD.                    *)
(***************************************************************************)
EXTENDS Integers, Sequences

CONSTANTS
    Processes,  \* gateway processes, each with its daily job
    Meters,     \* requests in checkAndMeterUsage
    LastMonth,  \* bound on the calendar
    DaysIn,     \* days of the months 0 .. LastMonth
    MinCalls,   \* overage below it is not invoiced
    MaxOver     \* bound on the overage of a month

ASSUME BillingAssumption ==
    /\ LastMonth \in Nat \ {0} /\ DaysIn \in [0..LastMonth -> Nat \ {0}]
    /\ MinCalls \in Nat \ {0} /\ MaxOver \in Nat

Months == 0..LastMonth
Dates  == {d \in Months \X (1..31) : d[2] <= DaysIn[d[1]]}
NoJob  == [step |-> "idle"]

VARIABLES
    today,     \* <<month, day>>
    used,      \* per month: calls over the limit, from Redis usage:<tenant>:<month>
    metering,  \* per request: the overage it is about to write, 0 for none
    overage,   \* per month: usage_overage.overage_calls
    job,       \* per process: the run of processOverageBilling
    ran,       \* per process: whether today's run was started
    invoices,  \* Stripe's invoices: [date, by, month, calls, state]
    billed,    \* billing_invoices: ids <<"overage", <<month>>, <<process, date>>>>
    straddled  \* history: months whose row got the count of the month before

billVars == <<today, used, metering, overage, job, ran, invoices, billed, straddled>>

BillInit ==
    /\ today = <<1, 1>>
    /\ used = [m \in Months |-> 0]
    /\ metering = [h \in Meters |-> 0]
    /\ overage = [m \in Months |-> 0]
    /\ job = [p \in Processes |-> NoJob]
    /\ ran = [p \in Processes |-> FALSE]
    /\ invoices = {} /\ billed = {} /\ straddled = {}

-----------------------------------------------------------------------------
(* The meter.                                                              *)

\* INCR of the counter of the month the request began in.
Incr(h) ==
    /\ metering[h] = 0
    /\ used[today[1]] < MaxOver
    /\ used' = [used EXCEPT ![today[1]] = @ + 1]
    /\ metering' = [metering EXCEPT ![h] = used[today[1]] + 1]
    /\ UNCHANGED <<today, overage, job, ran, invoices, billed, straddled>>

\* The upsert names the month of a second new Date(), and sets the value rather
\* than the larger one.  It may also fail, or the process end before it.
Upsert(h) ==
    /\ metering[h] # 0
    /\ metering' = [metering EXCEPT ![h] = 0]
    /\ \/ /\ overage' = [overage EXCEPT ![today[1]] = metering[h]]
          /\ straddled' = IF metering[h] > used[today[1]]
                          THEN straddled \cup {today[1]} ELSE straddled
       \/ UNCHANGED <<overage, straddled>>
    /\ UNCHANGED <<today, used, job, ran, invoices, billed>>

-----------------------------------------------------------------------------
(* The daily job.                                                          *)

\* new Date() with setMonth(getMonth() - 1): on a day the month before does not
\* have, the date overflows into the running month.
BillingMonth ==
    IF today[2] > DaysIn[today[1] - 1] THEN today[1] ELSE today[1] - 1

\* Mutant of Due: months without overage are invoiced too
DueUnbilled(m) == ~\E id \in billed : id[Len(id)] = <<m>>
\* The rows to invoice: NOT EXISTS an id LIKE 'overage_%' || month, that is, one
\* that ends with the month; overage of less than the minimum is skipped.
Due(m) ==
    /\ overage[m] >= MinCalls
    /\ ~\E id \in billed : id[Len(id)] = <<m>>

\* The SELECT at midnight.
Select(p) ==
    /\ ~ran[p]
    /\ ran' = [ran EXCEPT ![p] = TRUE]
    /\ job' = [job EXCEPT ![p] =
                  IF Due(BillingMonth)
                  THEN [step |-> "invoice", month |-> BillingMonth, calls |-> overage[BillingMonth]]
                  ELSE NoJob]
    /\ UNCHANGED <<today, used, metering, overage, invoices, billed, straddled>>

Goto(p, step) == job' = [job EXCEPT ![p].step = step]
SetState(i, s) == invoices' = (invoices \ {i}) \cup {[i EXCEPT !.state = s]}

\* The invoice of a run: a run makes no second one.
InvoiceOf(p) == {i \in invoices : i.by = p /\ i.date = today}

\* invoices.create and invoiceItems.create
Invoice(p) ==
    /\ job[p].step = "invoice"
    /\ invoices' = invoices \cup
          {[date |-> today, by |-> p, month |-> job[p].month, calls |-> job[p].calls,
            state |-> "draft"]}
    /\ Goto(p, "finalize")
    /\ UNCHANGED <<today, used, metering, overage, ran, billed, straddled>>

Finalize(p) ==
    /\ job[p].step = "finalize"
    /\ \E i \in InvoiceOf(p) : SetState(i, "open")
    /\ Goto(p, "pay")
    /\ UNCHANGED <<today, used, metering, overage, ran, billed, straddled>>

\* Mutant of Pay: a declined payment does not end the run
PayUnchecked(p) ==
    /\ job[p].step = "pay"
    /\ Goto(p, "record")
    /\ UNCHANGED <<today, used, metering, overage, ran, invoices, billed, straddled>>

\* invoices.pay; a payment whose answer is lost ends the run as an error does.
Pay(p) ==
    /\ job[p].step = "pay"
    /\ \E i \in InvoiceOf(p) : SetState(i, "paid")
    /\ \/ Goto(p, "record")
       \/ job' = [job EXCEPT ![p] = NoJob]
    /\ UNCHANGED <<today, used, metering, overage, ran, billed, straddled>>

\* INSERT INTO billing_invoices
Record(p) ==
    /\ job[p].step = "record"
    /\ \E i \in InvoiceOf(p) : billed' = billed \cup {<<"overage", <<i.month>>, <<p, i.date>>>>}
    /\ job' = [job EXCEPT ![p] = NoJob]
    /\ UNCHANGED <<today, used, metering, overage, ran, invoices, straddled>>

\* An await throws (the catch only logs), or the process ends; a restarted one
\* waits for the next midnight.
JobEnds(p) ==
    /\ job[p] # NoJob
    /\ job' = [job EXCEPT ![p] = NoJob]
    /\ UNCHANGED <<today, used, metering, overage, ran, invoices, billed, straddled>>

\* The customer pays an open invoice after the run that made it failed.
CollectLater ==
    /\ \E i \in invoices : i.state = "open" /\ SetState(i, "paid")
    /\ UNCHANGED <<today, used, metering, overage, job, ran, billed, straddled>>

\* Midnight.  Runs take far less than a day; a process that was down has not run.
Midnight ==
    LET tomorrow == IF today[2] < DaysIn[today[1]] THEN <<today[1], today[2] + 1>>
                    ELSE <<today[1] + 1, 1>> IN
    /\ \A p \in Processes : job[p] = NoJob
    /\ tomorrow \in Dates
    /\ today' = tomorrow
    /\ ran' = [p \in Processes |-> FALSE]
    /\ UNCHANGED <<used, metering, overage, job, invoices, billed, straddled>>

JobStep(p) ==
    Select(p) \/ Invoice(p) \/ Finalize(p) \/ Pay(p) \/ Record(p) \/ JobEnds(p)

BillNext ==
    \/ \E h \in Meters : Incr(h) \/ Upsert(h)
    \/ \E p \in Processes : JobStep(p)
    \/ CollectLater
    \/ Midnight

BillSpec == BillInit /\ [][BillNext]_billVars

-----------------------------------------------------------------------------
(* Properties.                                                             *)

Invoices ==
    [date : Dates, by : Processes, month : Months, calls : 1..MaxOver,
     state : {"draft", "open", "paid"}]

BillTypes ==
    /\ today \in Dates
    /\ used \in [Months -> 0..MaxOver] /\ overage \in [Months -> 0..MaxOver]
    /\ metering \in [Meters -> 0..MaxOver]
    /\ job \in [Processes -> {NoJob} \cup
                  [step : {"invoice", "finalize", "pay", "record"}, month : Months,
                   calls : 1..MaxOver]]
    /\ ran \in [Processes -> BOOLEAN]
    /\ invoices \subseteq Invoices
    /\ billed \subseteq {"overage"} \X {<<m>> : m \in Months} \X (Processes \X Dates)
    /\ straddled \subseteq Months

\* What the books say was paid was collected, and a run collects once: whatever
\* crashes, is declined or answered too late between Stripe and the INSERT.
BooksAreBacked ==
    \A id \in billed : \E i \in invoices :
        <<i.by, i.date>> = id[3] /\ <<i.month>> = id[2] /\ i.state = "paid"
OncePerRun ==
    \A i, j \in invoices : i.by = j.by /\ i.date = j.date => i = j

\* A month is invoiced for no more calls than went over its limit, unless a meter
\* that straddled the end of the month wrote the old month's count into it.
NotOvercharged ==
    \A i \in invoices : i.month \notin straddled =>
        i.calls >= MinCalls /\ i.calls <= used[i.month]

\* Every charge is accounted for by a run, every row of the books by a charge,
\* and every amount by the meter.  (That a month is billed only once does not hold:
\* the guard of Due never matches an id, which ends with the invoice.)
ChargesAccounted == BooksAreBacked /\ OncePerRun /\ NotOvercharged
=============================================================================
