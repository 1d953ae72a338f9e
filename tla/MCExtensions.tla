---------------------------- MODULE MCExtensions ----------------------------
(* Two agents that share a skill, for which they have different texts; one *)
(* of them has a second skill and servers, the other has neither.          *)
EXTENDS Extensions

CONSTANTS main, helper, review, search, ours, theirs

TwoAgents == {main, helper}
SkillsOf == [a \in TwoAgents |-> IF a = main THEN <<review, search>> ELSE <<review>>]
ContentOf == [a \in TwoAgents |-> [n \in {review, search} |-> IF a = main THEN ours ELSE theirs]]
ServersOf == [a \in TwoAgents |-> IF a = main THEN "servers" ELSE "none"]
=============================================================================
