----------------------------- MODULE MCDreaming -----------------------------
(* Two files, one of which Init creates, two requests, two agents of one   *)
(* name and two dreams. Claude writes a text that quotes the protocol or   *)
(* one that does not, and in front of its answer nothing, the end marker,  *)
(* or the format that the prompt gives.                                    *)
EXTENDS Dreaming, TLC

TwoFiles == {"user", "notes"}
Default == {"user"}
Written == { <<"a">>, <<"b", "b">> }
Rewritten == { <<"c">>, <<"c", FILE, "user", CLOSE, END>> }
SomePrefaces == { <<>>, <<END>>, <<START, FILE, "user", CLOSE, "c", END>> }
Symmetry == Permutations(Requests)
=============================================================================
