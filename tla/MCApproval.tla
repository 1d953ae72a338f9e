----------------------------- MODULE MCApproval -----------------------------
(* Two requests, three taps on whatever buttons there are, and a restart.  *)
EXTENDS Approval
=============================================================================
