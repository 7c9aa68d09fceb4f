------------------------------ MODULE HashChain ------------------------------
(***************************************************************************)
(* The hash-chained audit log of enterprise tenants: audit/hash-chain.ts   *)
(* (appendHashChainedLog, verifyHashChain), the table and the SQL function *)
(* audit.verify_chain of audit/schema.sql.                                 *)
(*                                                                         *)
(* server.ts fires an append per request and does not wait for it, so      *)
(* appends of one tenant run concurrently: each reads the latest row, then *)
(* inserts.  The INSERT draws its seq from a sequence and becomes visible  *)
(* when it commits, so rows may appear out of seq order.  SHA-256 is taken *)
(* as injective: a row_hash is the list of everything hashed into it.      *)
(* The table can also be tampered with: rows changed, moved, removed or    *)
(* put in by other means than appendHashChainedLog.                        *)
(***************************************************************************)
EXTENDS Integers, Sequences, FiniteSets

CONSTANTS
    Tenants,   \* enterprise tenants
    Writers,   \* appendHashChainedLog calls in flight, reused after they end
    Contents,  \* hashed fields of an entry: agent, tool, decision, timestamp
    Limit,     \* rows that one verification reads (10000)
    MaxRows,   \* bound on the values drawn from the seq sequence
    MaxTampers \* bound on the number of rows tampered with

NONE == "none"
Seqs == 1..MaxRows

ASSUME ChainAssumption ==
    Limit \in Nat /\ MaxRows \in Nat /\ MaxTampers \in Nat /\ NONE \notin Tenants

VARIABLES
    log,        \* audit.immutable_log: seq -> row, NoRow when not (yet) visible
    nextSeq,    \* the BIGSERIAL sequence
    pc,         \* per writer: idle, compute, commit
    entry,      \* per writer: [tenant, content] to append
    prevHash,   \* per writer: row_hash it read
    drawn,      \* per writer: seq of its INSERT
    overlapped, \* history: tenants two of whose appends overlapped
    inserted,   \* history: seq -> hashed columns and hashes that an append committed
    relinked,   \* history: tenants whose rows were tampered with in tenant, prev or hash
    sealed,     \* history: seqs that an append of a tenant not relinked committed
    tampers     \* how often the table was tampered with

callVars == <<nextSeq, pc, entry, prevHash, drawn, overlapped>>
tableVars == <<log, inserted, relinked, sealed, tampers>>
vars == <<callVars, tableVars>>

-----------------------------------------------------------------------------
Genesis == <<>>
NoRow   == [tenant |-> NONE]
Entry   == [tenant : Tenants, content : Contents]
Hash    == Seq(Entry)
Hashed  == [tenant : Tenants, content : Contents, prev : Hash, hash : Hash]
\* rest: reason and args_hash, which no hash covers
Row     == [tenant : Tenants, content : Contents, rest : {"written", "changed"},
            prev : Hash, hash : Hash]

\* SHA-256(prev_hash | tenant | agent | tool | decision | created_at)
RowHash(prev, e) == Append(prev, e)

RowWith(e, rest, prev, hash) ==
    [tenant |-> e.tenant, content |-> e.content, rest |-> rest, prev |-> prev, hash |-> hash]

EntryOf(r) == [tenant |-> r.tenant, content |-> r.content]

\* A row without the columns that no hash covers
HashedPart(r) == [tenant |-> r.tenant, content |-> r.content, prev |-> r.prev, hash |-> r.hash]

RowsOf(t) == {s \in Seqs : log[s].tenant = t}

\* ORDER BY seq DESC LIMIT 1, among the rows numbered below s
IsLatestBelow(t, s, u) == u \in RowsOf(t) /\ u < s /\ \A v \in RowsOf(t) : v < s => v <= u

\* Mutants of HashBelow: the WHERE on the tenant forgotten; no default for an
\* empty log
HashBelowAnyTenant(t, s) ==
    LET below == {u \in Seqs : log[u] # NoRow /\ u < s} IN
    IF below = {} THEN Genesis
    ELSE log[CHOOSE u \in below : \A v \in below : v <= u].hash
HashBelowNoDefault(t, s) ==
    IF \E u \in RowsOf(t) : u < s
    THEN log[CHOOSE u \in Seqs : IsLatestBelow(t, s, u)].hash
    ELSE <<NoRow>>

HashBelow(t, s) ==
    IF \E u \in RowsOf(t) : u < s
    THEN log[CHOOSE u \in Seqs : IsLatestBelow(t, s, u)].hash
    ELSE Genesis

InFlight(t) == {w \in Writers : entry[w].tenant = t}

\* A call that returns or throws forgets its local variables.
End(w) ==
    /\ pc' = [pc EXCEPT ![w] = "idle"]
    /\ entry' = [entry EXCEPT ![w] = NoRow]
    /\ prevHash' = [prevHash EXCEPT ![w] = Genesis]
    /\ drawn' = [drawn EXCEPT ![w] = 0]

Init ==
    /\ log = [s \in Seqs |-> NoRow]
    /\ nextSeq = 1
    /\ pc = [w \in Writers |-> "idle"]
    /\ entry = [w \in Writers |-> NoRow]
    /\ prevHash = [w \in Writers |-> Genesis]
    /\ drawn = [w \in Writers |-> 0]
    /\ overlapped = {}
    /\ inserted = [s \in Seqs |-> NoRow]
    /\ relinked = {}
    /\ sealed = {}
    /\ tampers = 0

-----------------------------------------------------------------------------
(* appendHashChainedLog.                                                   *)

\* Mutant of ReadLatest: the row read is not used
ReadLatestUnused(w, e) ==
    /\ pc[w] = "idle"
    /\ pc' = [pc EXCEPT ![w] = "compute"]
    /\ entry' = [entry EXCEPT ![w] = e]
    /\ prevHash' = [prevHash EXCEPT ![w] = Genesis]
    /\ overlapped' = IF InFlight(e.tenant) = {} THEN overlapped ELSE overlapped \cup {e.tenant}
    /\ UNCHANGED <<nextSeq, drawn, tableVars>>

\* SELECT row_hash ... ORDER BY seq DESC LIMIT 1
ReadLatest(w, e) ==
    /\ pc[w] = "idle"
    /\ pc' = [pc EXCEPT ![w] = "compute"]
    /\ entry' = [entry EXCEPT ![w] = e]
    /\ prevHash' = [prevHash EXCEPT ![w] = HashBelow(e.tenant, MaxRows + 1)]
    /\ overlapped' = IF InFlight(e.tenant) = {} THEN overlapped ELSE overlapped \cup {e.tenant}
    /\ UNCHANGED <<nextSeq, drawn, tableVars>>

\* The INSERT runs: nextval draws the seq, nothing is visible yet.
Insert(w) ==
    /\ pc[w] = "compute"
    /\ nextSeq \in Seqs
    /\ drawn' = [drawn EXCEPT ![w] = nextSeq]
    /\ nextSeq' = nextSeq + 1
    /\ pc' = [pc EXCEPT ![w] = "commit"]
    /\ UNCHANGED <<entry, prevHash, overlapped, tableVars>>

Commit(w) ==
    LET row == RowWith(entry[w], "written", prevHash[w], RowHash(prevHash[w], entry[w])) IN
    /\ pc[w] = "commit"
    /\ log' = [log EXCEPT ![drawn[w]] = row]
    /\ inserted' = [inserted EXCEPT ![drawn[w]] = HashedPart(row)]
    /\ sealed' = IF row.tenant \in relinked THEN sealed ELSE sealed \cup {drawn[w]}
    /\ End(w)
    /\ UNCHANGED <<nextSeq, overlapped, relinked, tampers>>

\* A query throws or the gateway dies; the caller's .catch drops the entry and
\* a drawn seq is a gap for good.
Lose(w) ==
    /\ pc[w] # "idle"
    /\ End(w)
    /\ UNCHANGED <<nextSeq, overlapped, tableVars>>

-----------------------------------------------------------------------------
(* What the chain is there to reveal.  The table's rules turn UPDATE and   *)
(* DELETE into nothing; who can drop the rules, or writes to the table's   *)
(* files, gets past them, and no rule stops an INSERT.                     *)

\* Hashes to forge with: any other string is no hash that a verification
\* computes, so it is reported where it stands.
Known == {Genesis} \cup {log[s].hash : s \in {u \in Seqs : log[u] # NoRow}}

\* One column changed, moving the row to another tenant included, with row_hash as it
\* was or computed anew; or row_hash alone changed.
Changed(r) ==
    LET one == {[r EXCEPT !.tenant = t] : t \in Tenants}
                   \cup {[r EXCEPT !.content = c] : c \in Contents}
                   \cup {[r EXCEPT !.rest = "changed"]}
                   \cup {[r EXCEPT !.prev = p] : p \in Known} IN
    one \cup {[q EXCEPT !.hash = RowHash(q.prev, EntryOf(q))] : q \in one}
        \cup {[r EXCEPT !.hash = h] : h \in Known}

Added == {RowWith(e, "written", p, RowHash(p, e)) : e \in Entry, p \in Known}

\* The row numbered s afterwards: changed, removed, or put in where there is none.
Forged(s) == IF log[s] = NoRow THEN Added ELSE Changed(log[s]) \cup {NoRow}

SameLinks(r, q) ==
    \/ r = q
    \/ r # NoRow /\ q # NoRow /\ r.tenant = q.tenant /\ r.prev = q.prev /\ r.hash = q.hash

Tamper(s, r) ==
    /\ tampers < MaxTampers
    /\ s < nextSeq /\ \A w \in Writers : pc[w] = "commit" => drawn[w] # s
    /\ log[s] # r
    /\ log' = [log EXCEPT ![s] = r]
    /\ relinked' = relinked \cup IF SameLinks(log[s], r) THEN {}
                                 ELSE {log[s].tenant, r.tenant} \ {NONE}
    /\ tampers' = tampers + 1
    /\ UNCHANGED <<callVars, inserted, sealed>>

Next ==
    \/ \E w \in Writers, e \in Entry : ReadLatest(w, e)
    \/ \E w \in Writers : Insert(w) \/ Commit(w) \/ Lose(w)
    \/ \E s \in Seqs : \E r \in Forged(s) : Tamper(s, r)

Spec == Init /\ [][Next]_vars

-----------------------------------------------------------------------------
(* verifyHashChain: one SELECT, so one state, then a loop over its rows.   *)

\* ORDER BY seq ASC LIMIT $2
Checked(t) == {s \in RowsOf(t) : Cardinality({u \in RowsOf(t) : u < s}) < Limit}

LinkBroken(t, s)  == log[s].prev # HashBelow(t, s)
\* Mutant of HashMismatch: the links only, as the SQL function
HashMismatchUnchecked(s) == FALSE
HashMismatch(s) == log[s].hash # RowHash(log[s].prev, EntryOf(log[s]))

Bad(t) == {s \in Checked(t) : LinkBroken(t, s) \/ HashMismatch(s)}

VerifyHashChain(t) ==
    IF Bad(t) = {} THEN [valid |-> TRUE]
    ELSE LET s == CHOOSE u \in Bad(t) : \A v \in Bad(t) : u <= v IN
         [valid |-> FALSE, brokenAt |-> s,
          detail |-> IF LinkBroken(t, s) THEN "chain broken" ELSE "hash mismatch"]

\* audit.verify_chain(p_tenant_id, p_limit) with a tenant: the links only
SqlVerifyChain(t) == {s \in Checked(t) : LinkBroken(t, s)}

-----------------------------------------------------------------------------
(* Properties.                                                             *)

TypeOK ==
    /\ log \in [Seqs -> Row \cup {NoRow}]
    /\ nextSeq \in 1..(MaxRows + 1)
    /\ pc \in [Writers -> {"idle", "compute", "commit"}]
    /\ entry \in [Writers -> Entry \cup {NoRow}]
    /\ prevHash \in [Writers -> Hash]
    /\ drawn \in [Writers -> 0..MaxRows]
    /\ overlapped \subseteq Tenants
    /\ inserted \in [Seqs -> Hashed \cup {NoRow}]
    /\ relinked \subseteq Tenants
    /\ sealed \subseteq Seqs
    /\ tampers \in 0..MaxTampers

Unbroken(t) == \A s \in RowsOf(t) : ~LinkBroken(t, s)

\* Changed in a column that the hash covers, or in the hash
Tampered(s) == log[s] # NoRow /\ HashedPart(log[s]) # inserted[s]
TamperedRows(t) == {s \in RowsOf(t) : Tampered(s)}

\* The appends of the tenant that went into a hash
Covered(t, h) ==
    {p \in sealed : /\ inserted[p].tenant = t
                    /\ \E n \in 1..Len(h) : inserted[p].hash = SubSeq(h, 1, n)}

\* An append of the tenant wrote the hash when the tenant's links were untouched.
Vouched(t, h) == \E p \in sealed : inserted[p].tenant = t /\ inserted[p].hash = h

\* However appends interleave, commit out of order or get lost, a row links to
\* the genesis hash or to a row of its own tenant with a smaller seq: chains of
\* tenants never mix and never point to a lost or later row, unless the tenant,
\* prev_hash or row_hash of one of the tenant's rows was tampered with.
LinksToOlderRow ==
    \A s \in Seqs :
        log[s] # NoRow /\ log[s].tenant \notin relinked /\ log[s].prev # Genesis
            => \E u \in RowsOf(log[s].tenant) : u < s /\ log[u].hash = log[s].prev

\* An append that overlaps no other append of its tenant keeps the chain
\* verifiable, lost appends and gaps in seq included; so does tampering with
\* reason or args_hash alone.
SequentialChainValid ==
    \A t \in Tenants :
        t \notin overlapped \cup relinked /\ TamperedRows(t) = {} => VerifyHashChain(t).valid

\* What verifyHashChain rests on, whatever was tampered with: when it gets past a row
\* whose row_hash is one that an append wrote, the rows up to that row are just the
\* appends that went into the hash, none changed, added or missing.  It blames a row's
\* data only when that row was tampered with.  Nothing is said of the columns outside
\* the hash, of seq, and of the rows after the last such row: these can be cut off,
\* moved to another tenant or rewritten with hashes computed anew, and hash-chain.ts:8
\* "Any tampered row breaks the chain" is not true of them.
TamperingReported ==
    \A t \in Tenants :
        LET v == VerifyHashChain(t) IN
        /\ \A u \in Checked(t) :
               (v.valid \/ u < v.brokenAt) /\ Vouched(t, log[u].hash)
                   => {HashedPart(log[w]) : w \in {x \in RowsOf(t) : x <= u}}
                         = {inserted[p] : p \in Covered(t, log[u].hash)}
        /\ ~v.valid /\ v.detail = "hash mismatch" => Tampered(v.brokenAt)

\* A reported break of the links is a fork, the contents of rows tampered with or not:
\* the row it names and an earlier row of the tenant have the same predecessor.  Only
\* tampering with the tenant, prev_hash or row_hash of a row, with its removal or with
\* a row put in can break the links without one.
BreakIsAFork ==
    \A t \in Tenants \ relinked :
        LET v == VerifyHashChain(t) IN
        ~v.valid /\ v.detail = "chain broken"
            => \E u \in RowsOf(t) : u < v.brokenAt /\ log[u].prev = log[v.brokenAt].prev

\* hash-chain.ts:34 "Get the latest row_hash for this tenant (for chain
\* continuity)": every row continues the row before it.
ChainContinuous == \A t \in Tenants : Unbroken(t)
=============================================================================
