--------------------------- MODULE MCAlertDispatch ---------------------------
(* One rule with one channel, one evaluation and one fireAlert at a time.     *)
EXTENDS AlertDispatch

MCRules == {"r1"}
MCChannels == {"slack"}
MCOwn == {"own"}
=============================================================================
