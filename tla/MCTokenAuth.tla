---------------------------- MODULE MCTokenAuth ----------------------------
(* One agent token and two concurrent handlers; every TTL is a few ticks.   *)
EXTENDS TokenAuth

MCTokens == {"t1"}
=============================================================================
