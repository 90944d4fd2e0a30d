------------------------ MODULE MCAttemptSupervisor -------------------------
(***************************************************************************)
(* An instance of AttemptSupervisor for TLC: a documentation child without *)
(* a limit that computes or waits, and a high-risk one with a limit whose  *)
(* processes start others, hang or get out of reach.                       *)
(***************************************************************************)
EXTENDS AttemptSupervisor

QuietAndLimited ==
    {[profile |-> "docs_only", limit |-> 0, may |-> {"block"}],
     [profile |-> "high_risk", limit |-> 2, may |-> {"fork", "hang", "leave", "hide"}]}
=============================================================================
