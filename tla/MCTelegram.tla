----------------------------- MODULE MCTelegram -----------------------------
(* Two agents that answer into one chat, two messages, and chunks of two   *)
(* bytes.                                                                  *)
EXTENDS Telegram

CONSTANTS main, helper, nobody, none, x, newline

TwoAgents == {main, helper}
AllPrefixes == {none, helper, nobody}
(* Nothing, a whole chunk, cuts at the limit and at a newline, a newline   *)
(* that begins the text, and newlines before and behind a cut.             *)
SomeTexts ==
  { <<>>, <<x, x>>, <<x, x, x>>, <<x, newline, x>>, <<newline, x, x>>,
    <<x, x, newline, x>>, <<newline, newline, newline, x>>, <<x, newline, x, x, newline>> }
=============================================================================
