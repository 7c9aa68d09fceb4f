------------------------------ MODULE SpendShield ------------------------------
(***************************************************************************)
(* The UCP spending shield (security/ucp_shield.ts) for one agent: its     *)
(* checkouts are compared with the saved cart and with the agent's row of  *)
(* ucp_spending_limits, whose daily spend is read, compared and written    *)
(* back as a value, while administrators set and delete the row and        *)
(* midnight passes.  Amounts and limits are what parseFloat makes of what  *)
(* the agent and the administrator send: NaN, which the columns accept, or *)
(* a number, also a negative one, here in whole units of the column's two  *)
(* decimals.  Infinities and numbers too large for the columns fail the    *)
(* write (Block), unless the comparisons leave them to a human.            *)
(***************************************************************************)
EXTENDS Integers

CONSTANTS
    Checkouts,  \* concurrent checkout calls of the agent
    NaN,        \* not a number
    Amounts,    \* what a checkout may ask for
    Totals,     \* what the items of a cart may add up to
    Limits,     \* [tx, daily] an administrator may set
    Default,    \* the limits when there is no row
    MaxSpend,   \* bound on the spend of the row and on what is counted and credited
    LastDay     \* bound on the calendar

Money == Int \cup {NaN}

ASSUME SpendAssumption ==
    /\ NaN \notin Int
    /\ Amounts \subseteq Money /\ Totals \subseteq Money
    /\ Limits \subseteq [tx : Money, daily : Money]
    /\ Default \in [tx : Nat, daily : Nat]
    /\ MaxSpend \in Nat
    /\ LastDay \in Nat \ {0}

\* IEEE: a sum with NaN is NaN, and a comparison with it is false.
Plus(a, b)    == IF NaN \in {a, b} THEN NaN ELSE a + b
Exceeds(a, b) == NaN \notin {a, b} /\ a > b

NoRow     == [tx |-> Default.tx, daily |-> Default.daily, spend |-> 0, reset |-> 0]
NoBuy     == [step |-> "idle"]
EmptyCart == [items |-> FALSE, total |-> 0]

VARIABLES
    spendDay,  \* today; days begin at 1
    limitRow,  \* the row; reset is the day of last_reset_at, 0 when there is no row
    cart,      \* the saved cart: [items, total], items telling whether it has any
    buying,    \* per checkout: [step, amount, and what it read of the row]
    counted,   \* history: the positive amounts that checkouts that did not race
               \* were allowed today
    credited,  \* history: what negative amounts took off the row's spend
    raced,     \* history: checkouts in flight with another, a deletion or midnight
    topLimit   \* history: the largest daily limit in force today, NaN if one was

spendVars == <<spendDay, limitRow, cart, buying, counted, credited, raced, topLimit>>

HasRow   == limitRow.reset # 0
InFlight == {c \in Checkouts : buying[c].step \in {"reset", "write"}}

SpendInit ==
    /\ spendDay = 1
    /\ limitRow = NoRow
    /\ cart = EmptyCart
    /\ buying = [c \in Checkouts |-> NoBuy]
    /\ counted = 0 /\ credited = 0 /\ raced = {}
    /\ topLimit = Default.daily

-----------------------------------------------------------------------------
(* validateUcpCall.                                                        *)

\* cart/add, cart/update: the items in place of the saved ones, or none of them.
SaveCart ==
    /\ \/ cart' = EmptyCart
       \/ \E t \in Totals : cart' = [items |-> TRUE, total |-> t]
    /\ UNCHANGED <<spendDay, limitRow, buying, counted, credited, raced, topLimit>>

WithinBound ==
    /\ counted <= MaxSpend /\ credited <= MaxSpend
    /\ \A spend \in {limitRow.spend} \cup {buying[c].spend : c \in InFlight} :
          ~Exceeds(spend, MaxSpend)

\* The checkout's amount must be the total of the cart, if that has items; the
\* distance to or from NaN is not above a cent.
CheckCart(c, a) ==
    /\ buying[c] = NoBuy
    /\ WithinBound
    /\ cart.items => NaN \in {cart.total, a} \/ cart.total = a
    /\ buying' = [buying EXCEPT ![c] = [step |-> "limits", amount |-> a]]
    /\ UNCHANGED <<spendDay, limitRow, cart, counted, credited, raced, topLimit>>

\* A purchase above either limit is left to a human; its spend is not recorded.
NeedsHuman(amount, row) ==
    Exceeds(amount, row.tx) \/ Exceeds(Plus(row.spend, amount), row.daily)

JudgedBuy(buy) ==
    IF NeedsHuman(buy.amount, buy) THEN NoBuy ELSE [buy EXCEPT !.step = "write"]

\* SELECT: the row or the defaults; a row last reset before today counts as 0.
ReadLimits(c) ==
    LET stale == HasRow /\ limitRow.reset < spendDay
        read  == [limitRow EXCEPT !.spend = IF stale THEN 0 ELSE @]
        buy   == [step |-> "reset", amount |-> buying[c].amount, hasRow |-> HasRow,
                  tx |-> read.tx, daily |-> read.daily, spend |-> read.spend]
        next  == IF stale THEN buy ELSE JudgedBuy(buy) IN
    /\ buying[c].step = "limits"
    /\ buying' = [buying EXCEPT ![c] = next]
    /\ raced' = IF next = NoBuy \/ InFlight = {} THEN raced \ {c}
                ELSE raced \cup InFlight \cup {c}
    /\ UNCHANGED <<spendDay, limitRow, cart, counted, credited, topLimit>>

\* Mutant of Reset: last_reset_at is left as it is
ResetSpendOnly(c) ==
    /\ buying[c].step = "reset"
    /\ limitRow' = [limitRow EXCEPT !.spend = 0]
    /\ buying' = [buying EXCEPT ![c] = JudgedBuy(buying[c])]
    /\ raced' = IF buying'[c] = NoBuy THEN raced \ {c} ELSE raced
    /\ UNCHANGED <<spendDay, cart, counted, credited, topLimit>>

\* UPDATE ... SET current_daily_spend = 0, last_reset_at = NOW()
Reset(c) ==
    /\ buying[c].step = "reset"
    /\ limitRow' = IF HasRow THEN [limitRow EXCEPT !.spend = 0, !.reset = spendDay]
                   ELSE limitRow
    /\ buying' = [buying EXCEPT ![c] = JudgedBuy(buying[c])]
    /\ raced' = IF buying'[c] = NoBuy THEN raced \ {c} ELSE raced
    /\ UNCHANGED <<spendDay, cart, counted, credited, topLimit>>

\* The row after the UPDATE, if it is still there, or after the INSERT of one with
\* the default limits, which fails if there is one by now.
Written(buy) ==
    IF buy.hasRow # HasRow THEN limitRow
    ELSE [limitRow EXCEPT !.spend = Plus(buy.spend, buy.amount),
                          !.reset = IF HasRow THEN @ ELSE spendDay]

\* The row is written, and a negative amount taken off its spend.
WriteSpend(buy) ==
    /\ limitRow' = Written(buy)
    /\ credited' = IF Exceeds(0, buy.amount) THEN credited - buy.amount ELSE credited

Allow(c) ==
    /\ buying[c].step = "write"
    /\ HasRow => buying[c].hasRow
    /\ WriteSpend(buying[c])
    /\ buying' = [buying EXCEPT ![c] = NoBuy]
    /\ counted' = IF c \notin raced /\ Exceeds(buying[c].amount, 0)
                  THEN counted + buying[c].amount ELSE counted
    /\ raced' = raced \ {c}
    /\ UNCHANGED <<spendDay, cart, topLimit>>

\* A query rejects, as the INSERT of a row that is there does, or its answer is
\* lost after it was carried out: the purchase is blocked.
Block(c) ==
    /\ buying[c] # NoBuy
    /\ buying' = [buying EXCEPT ![c] = NoBuy]
    /\ raced' = raced \ {c}
    /\ UNCHANGED <<spendDay, cart, counted, topLimit>>
    /\ \/ UNCHANGED <<limitRow, credited>>
       \/ buying[c].step = "write" /\ WriteSpend(buying[c])

-----------------------------------------------------------------------------
(* Administration and the clock.                                           *)

Larger(a, b) == IF NaN \in {a, b} THEN NaN ELSE IF a > b THEN a ELSE b

\* POST /api/ucp/limits: an existing row keeps its spend, also yesterday's, and
\* counts as reset today.
SetLimits(l) ==
    /\ limitRow' = [tx |-> l.tx, daily |-> l.daily, spend |-> limitRow.spend, reset |-> spendDay]
    /\ topLimit' = Larger(l.daily, topLimit)
    /\ UNCHANGED <<spendDay, cart, buying, counted, credited, raced>>

\* DELETE /api/ucp/limits/:agentId forgets the day's spend.
DeleteLimits ==
    /\ HasRow
    /\ limitRow' = NoRow
    /\ topLimit' = Larger(Default.daily, topLimit)
    /\ counted' = 0
    /\ raced' = raced \cup InFlight
    /\ UNCHANGED <<spendDay, cart, buying, credited>>

DayEnds ==
    /\ spendDay < LastDay
    /\ spendDay' = spendDay + 1
    /\ counted' = 0
    /\ raced' = raced \cup InFlight
    /\ topLimit' = limitRow.daily
    /\ UNCHANGED <<limitRow, cart, buying, credited>>

CheckoutStep(c) ==
    \/ \E a \in Amounts : CheckCart(c, a)
    \/ ReadLimits(c) \/ Reset(c) \/ Allow(c) \/ Block(c)

SpendNext ==
    \/ SaveCart
    \/ \E c \in Checkouts : CheckoutStep(c)
    \/ \E l \in Limits : SetLimits(l)
    \/ DeleteLimits
    \/ DayEnds

SpendSpec == SpendInit /\ [][SpendNext]_spendVars

-----------------------------------------------------------------------------
(* Properties.                                                             *)

Buys ==
    {NoBuy} \cup [step : {"limits"}, amount : Amounts]
    \cup [step : {"reset", "write"}, amount : Amounts, hasRow : BOOLEAN,
          tx : Money, daily : Money, spend : Money]

SpendTypes ==
    /\ spendDay \in 1..LastDay
    /\ limitRow \in [tx : Money, daily : Money, spend : Money, reset : 0..spendDay]
    /\ cart \in {EmptyCart} \cup [items : {TRUE}, total : Totals]
    /\ buying \in [Checkouts -> Buys]
    /\ counted \in Nat /\ credited \in Nat /\ topLimit \in Money
    /\ raced \subseteq Checkouts

\* What is allowed in a day without asking a human stays within the largest daily
\* limit in force that day, over stale rows, resets, edits, lost answers and the
\* races of other checkouts, but for what the amounts themselves undo: a negative
\* one re-opens the limit by its size, and there is no limit once NaN is the spend
\* of the row (until the day's reset) or a limit.  Checkouts in flight together are
\* not counted: the spend of all but one of them is overwritten, and the limit does
\* not hold.  Nor is what was allowed before the row was deleted.
DailySpendBounded ==
    counted = 0 \/ NaN \in {limitRow.spend, topLimit} \/ counted <= topLimit + credited
=============================================================================
