------------------------------ MODULE MCSession ------------------------------
(* Two requests: the reader and the late answer of the first can meet the  *)
(* second. Two launches: one Close and Start beside a Send.                *)
EXTENDS Session
=============================================================================
