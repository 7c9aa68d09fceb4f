------------------------------ MODULE IpAllowlist ------------------------------
(***************************************************************************)
(* The IP allowlist of a tenant (security/ip-allowlist.ts): a request's    *)
(* address is compared with the tenant's entries, which are read through a *)
(* cache in Redis that every change deletes afterwards.  Addresses have    *)
(* Width bits, 32 in the code.                                             *)
(***************************************************************************)
EXTENDS Integers

CONSTANTS
    Lookups,   \* concurrent checkIpAllowlist
    Admins,    \* concurrent POST and DELETE of entries
    Entries,   \* the entries administrators use: [range, bits]
    Width,     \* bits of an address
    CacheTTL,  \* ticks a cached list lives
    MaxDelay   \* ticks from a lookup's SELECT to its SETEX

ASSUME AllowlistAssumption ==
    /\ Width \in Nat \ {0}
    /\ Entries \subseteq [range : 0..(2^Width - 1), bits : 0..Width]
    /\ CacheTTL \in Nat \ {0} /\ MaxDelay \in Nat

Addresses == 0..(2^Width - 1)
NoList    == [ttl |-> 0]
NoLookup  == [step |-> "idle"]
Stalest   == CacheTTL + MaxDelay

VARIABLES
    entry,     \* per entry: "new", "active" or "removed" (active = FALSE)
    listCache, \* the cached list: [ttl, list, late]; late is a history
    lookup,    \* per lookup: [step, list, age]
    changing,  \* admins between their statement and redis.del
    dropped,   \* history: a change whose del has not happened
    opened,    \* history, per address: ticks since the entries last let it in
    closed     \* history, per address: ticks since they last kept it out

ipVars == <<entry, listCache, lookup, changing, dropped, opened, closed>>

Listed == {e \in Entries : entry[e] = "active"}

-----------------------------------------------------------------------------
(* Matching.                                                               *)

\* ipInCidr: ~((1 << (32 - bits)) - 1) keeps the bits above the shift, which
\* JavaScript takes modulo 32: the mask of /0 is that of /32.
Shift(bits) == (Width - bits) % Width
\* a & mask
Masked(a, bits) == a - (a % (2^Shift(bits)))

\* Mutant of InCidr: the range is taken to have no bits below the mask
InCidrAligned(a, e) == Masked(a, e.bits) = e.range
InCidr(a, e) == Masked(a, e.bits) = Masked(e.range, e.bits)

\* An empty list lets everything in.
Passes(a, list) == list = {} \/ \E e \in list : InCidr(a, e)

\* What CIDR notation means: the first bits agree.
Covers(e, a) == a \div 2^(Width - e.bits) = e.range \div 2^(Width - e.bits)

-----------------------------------------------------------------------------
(* checkIpAllowlist.                                                       *)

\* The histories after a step that leaves the entries E active, and one tick.
Opens(E, a)  == E = {} \/ \E e \in E : Covers(e, a)
Closes(E, a) == E # {} /\ \A e \in E : e.bits = 0 \/ ~Covers(e, a)
Older(n)     == IF n <= Stalest THEN n + 1 ELSE n

IpInit ==
    /\ entry = [e \in Entries |-> "new"]
    /\ listCache = NoList
    /\ lookup = [h \in Lookups |-> NoLookup]
    /\ changing = {} /\ dropped = FALSE
    /\ opened = [a \in Addresses |-> 0]
    /\ closed = [a \in Addresses |-> Stalest + 1]

\* GET: a hit, which may be the empty list, is answered by Passes and changes
\* nothing; a miss goes on to the SELECT.
Miss(h) ==
    /\ lookup[h] = NoLookup
    /\ listCache = NoList
    /\ lookup' = [lookup EXCEPT ![h] = [step |-> "select"]]
    /\ UNCHANGED <<entry, listCache, changing, dropped, opened, closed>>

SelectList(h) ==
    /\ lookup[h].step = "select"
    /\ lookup' = [lookup EXCEPT ![h] = [step |-> "cache", list |-> Listed, age |-> 0]]
    /\ UNCHANGED <<entry, listCache, changing, dropped, opened, closed>>

\* SETEX 60; the answer is Passes of the list read.
Fill(h) ==
    /\ lookup[h].step = "cache"
    /\ listCache' = [ttl |-> CacheTTL, list |-> lookup[h].list, late |-> lookup[h].list # Listed]
    /\ lookup' = [lookup EXCEPT ![h] = NoLookup]
    /\ UNCHANGED <<entry, changing, dropped, opened, closed>>

LookupFails(h) ==
    /\ lookup[h] # NoLookup
    /\ lookup' = [lookup EXCEPT ![h] = NoLookup]
    /\ UNCHANGED <<entry, listCache, changing, dropped, opened, closed>>

-----------------------------------------------------------------------------
(* Administration and time.                                                *)

SetEntry(e, s) ==
    LET E == {d \in Entries : IF d = e THEN s = "active" ELSE entry[d] = "active"} IN
    /\ entry' = [entry EXCEPT ![e] = s]
    /\ opened' = [a \in Addresses |-> IF Opens(E, a) THEN 0 ELSE opened[a]]
    /\ closed' = [a \in Addresses |-> IF Closes(E, a) THEN 0 ELSE closed[a]]

\* INSERT: the row of a removed entry stays, and its UNIQUE key with it, so an
\* entry cannot be added again.
AddEntry(m, e) ==
    /\ m \notin changing
    /\ entry[e] = "new"
    /\ SetEntry(e, "active")
    /\ changing' = changing \cup {m}
    /\ UNCHANGED <<listCache, lookup, dropped>>

RemoveEntry(m, e) ==
    /\ m \notin changing
    /\ entry[e] = "active"
    /\ SetEntry(e, "removed")
    /\ changing' = changing \cup {m}
    /\ UNCHANGED <<listCache, lookup, dropped>>

\* redis.del
ClearList(m) ==
    /\ m \in changing
    /\ changing' = changing \ {m}
    /\ listCache' = NoList
    /\ dropped' = FALSE
    /\ UNCHANGED <<entry, lookup, opened, closed>>

\* The del fails or the process ends before it.
ClearLost(m) ==
    /\ m \in changing
    /\ changing' = changing \ {m}
    /\ dropped' = (listCache # NoList)
    /\ UNCHANGED <<entry, listCache, lookup, opened, closed>>

\* A tick.  A lookup has at most MaxDelay of them between SELECT and SETEX.
IpTick ==
    /\ \A h \in Lookups : lookup[h].step = "cache" => lookup[h].age < MaxDelay
    /\ lookup' = [h \in Lookups |->
          IF lookup[h].step = "cache" THEN [lookup[h] EXCEPT !.age = @ + 1] ELSE lookup[h]]
    /\ listCache' = IF listCache.ttl <= 1 THEN NoList ELSE [listCache EXCEPT !.ttl = @ - 1]
    /\ dropped' = (dropped /\ listCache.ttl > 1)
    /\ opened' = [a \in Addresses |-> IF Opens(Listed, a) THEN 0 ELSE Older(opened[a])]
    /\ closed' = [a \in Addresses |-> IF Closes(Listed, a) THEN 0 ELSE Older(closed[a])]
    /\ UNCHANGED <<entry, changing>>

IpNext ==
    \/ \E h \in Lookups : Miss(h) \/ SelectList(h) \/ Fill(h) \/ LookupFails(h)
    \/ \E m \in Admins, e \in Entries : AddEntry(m, e) \/ RemoveEntry(m, e)
    \/ \E m \in Admins : ClearList(m) \/ ClearLost(m)
    \/ IpTick

IpSpec == IpInit /\ [][IpNext]_ipVars

-----------------------------------------------------------------------------
(* Properties.                                                             *)

IpTypes ==
    /\ entry \in [Entries -> {"new", "active", "removed"}]
    /\ listCache \in {NoList} \cup [ttl : 1..CacheTTL, list : SUBSET Entries, late : BOOLEAN]
    /\ lookup \in [Lookups -> {NoLookup} \cup [step : {"select"}]
          \cup [step : {"cache"}, list : SUBSET Entries, age : 0..MaxDelay]]
    /\ changing \subseteq Admins /\ dropped \in BOOLEAN
    /\ opened \in [Addresses -> 0..(Stalest + 1)]
    /\ closed \in [Addresses -> 0..(Stalest + 1)]

\* An address is admitted only if the entries let it in, and refused only if they
\* kept it out, within the last CacheTTL + MaxDelay ticks, where the entries mean
\* what CIDR notation means: a /0 entry alone may refuse (it matches one address).
Judged(list, a) ==
    IF Passes(a, list) THEN opened[a] <= Stalest ELSE closed[a] <= Stalest
AnswersFollowEntries ==
    /\ listCache # NoList => \A a \in Addresses : Judged(listCache.list, a)
    /\ \A h \in Lookups : lookup[h].step = "cache" => \A a \in Addresses : Judged(lookup[h].list, a)

\* The cache differs from the entries only while a del is due or was lost, or if
\* it was filled with a list read before the change.
CacheFollowsEntries ==
    listCache # NoList /\ listCache.list # Listed =>
        changing # {} \/ dropped \/ listCache.late

AllowlistFollowed == AnswersFollowEntries /\ CacheFollowsEntries
=============================================================================
