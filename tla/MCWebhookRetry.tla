--------------------------- MODULE MCWebhookRetry ---------------------------
(* One delivery under two overlapping sweeps, with the code's five delays.   *)
(* Rows of one batch only delay each other, and a sweep may be arbitrarily   *)
(* slow between its SELECT and a post, so one row meets every interleaving.  *)
EXTENDS WebhookRetry

MCDeliveries == {"w1"}
=============================================================================
