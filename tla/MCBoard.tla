------------------------------- MODULE MCBoard -------------------------------
(* Three of the columns; two titles that share a slug, and two with the    *)
(* same dashes, of which one begins with them. Three calls of Add, so that *)
(* a number is given again after a deletion or a move off the board.       *)
EXTENDS Board

CONSTANTS again, fix, lead, inner

Kanban == <<"backlog", "review", "done">>
AllTitles == {again, fix, lead, inner}
SlugOf == [t \in AllTitles |-> IF t \in {again, fix} THEN "fix" ELSE "dashes"]
BadTitles == {lead}
=============================================================================
