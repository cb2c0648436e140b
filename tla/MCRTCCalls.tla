----------------------------- MODULE MCRTCCalls -----------------------------
(* RTCCalls on small instances.  Users and calls are interchangeable; the   *)
(* liveness run does not use that.                                          *)
EXTENDS RTCCalls, TLC

Symmetry ==
    Permutations(Users \ Flaky) \cup Permutations(Flaky) \cup Permutations(Calls)
=============================================================================
