-------------------------------- MODULE MCPool --------------------------------
(* Two loops that hire and fire, beside main; the default name and one     *)
(* more; up to three agents, so that a name is hired, fired and hired      *)
(* again.                                                                  *)
EXTENDS Pool

CONSTANTS bot, tool, default, helper

TwoLoops == {bot, tool}
TwoNames == {default, helper}
=============================================================================
