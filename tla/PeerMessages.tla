------------------------------ MODULE PeerMessages ------------------------------
(***************************************************************************)
(* Requests of a peer agent to one tenant (a2a/protocol.ts): POST /a2a     *)
(* checks that the peer is registered, takes the replay key of the request *)
(* id in Redis, checks the age of the request's timestamp and its          *)
(* signature, then the tenant's method policy, and calls /mcp.  The        *)
(* network delivers a request any number of times, and the peer's clock    *)
(* may be ahead of the gateway's or behind it.                             *)
(*                                                                         *)
(* The lookup of the peer does not name the tenant: any tenant's           *)
(* registration of the peer's URL will do.                                 *)
(***************************************************************************)
EXTENDS Integers

CONSTANTS
    Deliveries, \* concurrent POST /a2a
    Requests,   \* request ids
    Tenants,    \* tenants that may have registered the peer
    Target,     \* the tenant the requests are for
    Freshness,  \* allowed distance of the timestamp from now
    KeyTTL,     \* lifetime of the replay key
    LastTime    \* bound on the clock

ASSUME PeerAssumption ==
    /\ Target \in Tenants
    /\ Freshness \in Nat /\ KeyTTL \in Nat \ {0} /\ LastTime \in Nat \ {0}
    /\ Freshness <= KeyTTL  \* both are 300 seconds

Undated == -1  \* a timestamp that is no date

VARIABLES
    clock,      \* the gateway's clock
    stamp,      \* per request: its timestamp, 0 while it is not sent
    peerActive, \* tenants whose a2a_peers row for the peer is active
    permitted,  \* whether the target's a2a_policies row allows the method
    replayKey,  \* per request: when its key in Redis expires, 0 for none
    delivery,   \* per delivery: [step, request]
    accepted,   \* per request: how often it was passed to /mcp
    early       \* history: requests whose key was taken before their timestamp, or undated

peerVars == <<clock, stamp, peerActive, permitted, replayKey, delivery, accepted, early>>

NoDelivery == [step |-> "idle"]

PeerInit ==
    /\ clock = 1
    /\ stamp = [r \in Requests |-> 0]
    /\ peerActive = {} /\ permitted = FALSE
    /\ replayKey = [r \in Requests |-> 0]
    /\ delivery = [d \in Deliveries |-> NoDelivery]
    /\ accepted = [r \in Requests |-> 0]
    /\ early = {}

At(d, step)   == delivery[d].step = step
Move(d, step) == delivery' = [delivery EXCEPT ![d].step = step]
Refuse(d)     == delivery' = [delivery EXCEPT ![d] = NoDelivery]

-----------------------------------------------------------------------------
(* Peers and the network.                                                  *)

SendRequest(r, s) ==
    /\ stamp[r] = 0
    /\ stamp' = [stamp EXCEPT ![r] = s]
    /\ UNCHANGED <<clock, peerActive, permitted, replayKey, delivery, accepted, early>>

\* POST /api/a2a/peers: the row and, if methods are given, the policy.
RegisterPeer(t) ==
    /\ peerActive' = peerActive \cup {t}
    /\ permitted' \in IF t = Target THEN BOOLEAN ELSE {permitted}
    /\ UNCHANGED <<clock, stamp, replayKey, delivery, accepted, early>>

\* DELETE /api/a2a/peers/:id leaves the policy.
RemovePeer(t) ==
    /\ t \in peerActive
    /\ peerActive' = peerActive \ {t}
    /\ UNCHANGED <<clock, stamp, permitted, replayKey, delivery, accepted, early>>

-----------------------------------------------------------------------------
(* POST /a2a.                                                              *)

CheckPeer(d, r) ==
    /\ delivery[d] = NoDelivery
    /\ stamp[r] # 0
    /\ peerActive # {}
    /\ delivery' = [delivery EXCEPT ![d] = [step |-> "key", request |-> r]]
    /\ UNCHANGED <<clock, stamp, peerActive, permitted, replayKey, accepted, early>>

\* SET NX EX: a key lives until its expiry has passed.
TakeKey(d) ==
    LET r == delivery[d].request IN
    /\ At(d, "key")
    /\ IF replayKey[r] >= clock
       THEN Refuse(d) /\ UNCHANGED <<replayKey, early>>
       ELSE /\ replayKey' = [replayKey EXCEPT ![r] = clock + KeyTTL]
            /\ early' = IF clock < stamp[r] \/ stamp[r] = Undated THEN early \cup {r} ELSE early
            /\ Move(d, "fresh")
    /\ UNCHANGED <<clock, stamp, peerActive, permitted, accepted>>

\* Mutant of Fresh: an old timestamp passes
FreshOrOld(s) == s - clock <= Freshness
\* No comparison with NaN holds: what is no date is fresh.
Fresh(s) == s = Undated \/ (clock - s <= Freshness /\ s - clock <= Freshness)

CheckFresh(d) ==
    /\ At(d, "fresh")
    /\ IF Fresh(stamp[delivery[d].request]) THEN Move(d, "signature") ELSE Refuse(d)
    /\ UNCHANGED <<clock, stamp, peerActive, permitted, replayKey, accepted, early>>

\* The signature verifies, or there is none, or the peer has no key set: or not.
CheckSignature(d) ==
    /\ At(d, "signature")
    /\ Move(d, "policy") \/ Refuse(d)
    /\ UNCHANGED <<clock, stamp, peerActive, permitted, replayKey, accepted, early>>

\* handleA2ARequest: the target's policy; then POST /mcp, whose outcome only
\* decides between ALLOW and DENY in a2a_audit_log.
CheckMethod(d) ==
    /\ At(d, "policy")
    /\ IF permitted THEN Move(d, "mcp") ELSE Refuse(d)
    /\ UNCHANGED <<clock, stamp, peerActive, permitted, replayKey, accepted, early>>

CallMcp(d) ==
    /\ At(d, "mcp")
    /\ accepted' = [accepted EXCEPT ![delivery[d].request] = @ + 1]
    /\ Refuse(d)
    /\ UNCHANGED <<clock, stamp, peerActive, permitted, replayKey, early>>

\* A query rejects outside the try, or the process ends; Redis keeps the key.
DeliveryFails(d) ==
    /\ delivery[d] # NoDelivery
    /\ Refuse(d)
    /\ UNCHANGED <<clock, stamp, peerActive, permitted, replayKey, accepted, early>>

ClockTick ==
    /\ clock < LastTime
    /\ clock' = clock + 1
    /\ UNCHANGED <<stamp, peerActive, permitted, replayKey, delivery, accepted, early>>

DeliveryStep(d) ==
    \/ \E r \in Requests : CheckPeer(d, r)
    \/ TakeKey(d) \/ CheckFresh(d) \/ CheckSignature(d) \/ CheckMethod(d) \/ CallMcp(d)
    \/ DeliveryFails(d)

PeerNext ==
    \/ \E r \in Requests, s \in {Undated} \cup 1..LastTime : SendRequest(r, s)
    \/ \E t \in Tenants : RegisterPeer(t) \/ RemovePeer(t)
    \/ \E d \in Deliveries : DeliveryStep(d)
    \/ ClockTick

PeerSpec == PeerInit /\ [][PeerNext]_peerVars

-----------------------------------------------------------------------------
(* Properties.                                                             *)

PeerTypes ==
    /\ clock \in 1..LastTime
    /\ stamp \in [Requests -> {Undated} \cup 0..LastTime]
    /\ peerActive \subseteq Tenants /\ permitted \in BOOLEAN
    /\ replayKey \in [Requests -> 0..(LastTime + KeyTTL)]
    /\ delivery \in [Deliveries -> {NoDelivery} \cup
          [step : {"key", "fresh", "signature", "policy", "mcp"}, request : Requests]]
    /\ accepted \in [Requests -> Nat]
    /\ early \subseteq Requests

\* However often a request is delivered, it reaches /mcp once: the key outlives the
\* request's freshness.  Except for a peer whose clock is ahead or that sends no
\* date: its key expires while the request is still fresh.
AcceptedOnce == \A r \in Requests : accepted[r] > 1 => r \in early
=============================================================================
