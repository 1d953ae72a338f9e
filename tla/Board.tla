-------------------------------- MODULE Board --------------------------------
(***************************************************************************)
(* internal/kanban: tasks as files <number>-<slug>.md, in one directory    *)
(* for each column.                                                        *)
(*                                                                         *)
(* Every operation holds the lock of the board from beginning to end, so   *)
(* that the Telegram loop and the handlers of the web server take turns,   *)
(* and each operation is one action. What can come between is the file     *)
(* system: a directory cannot be read for a moment, or the process dies    *)
(* (or the disk is full) before a file that was created is written.        *)
(*                                                                         *)
(* A title is a model value. Slug says what slugify makes of it, and       *)
(* Unreadable which titles begin with the "---" that also ends the front   *)
(* matter.                                                                 *)
(***************************************************************************)
EXTENDS Naturals, Sequences, FiniteSets, FiniteSetsExt

CONSTANTS
  DefaultColumns, (* the columns in their order, the first is the backlog  *)
  Outside,        (* any other directory: "" and "." are the board's own   *)
  Titles,
  Slug,           (* Slug[t]: the part of the id that comes from title t   *)
  Unreadable,     (* the titles that begin with three dashes               *)
  MaxAdds         (* bound of the model: calls of Add                      *)

Columns == {DefaultColumns[i] : i \in 1..Len(DefaultColumns)}
Dirs == Columns \cup {Outside}
Ids == [num : 1..MaxAdds, slug : {Slug[t] : t \in Titles}]

ASSUME BoardAssumption ==
  /\ Len(DefaultColumns) \in Nat \ {0}
  /\ Outside \notin Columns
  /\ Unreadable \subseteq Titles
  /\ MaxAdds \in Nat

VARIABLES
  files,      (* the files of the board                                    *)
  adds,       (* how many times Add has begun to write                     *)
  added,      (* history: the calls of Add that returned a task            *)
  deleted,    (* history: the calls whose task Delete removed              *)
  strayed,    (* history: the calls whose task Move took off the columns   *)
  blind       (* history: Add did not see a column that had files          *)

vars == <<files, adds, added, deleted, strayed, blind>>

(* A file, with the call of Add that it comes from.                        *)
File == [dir : Dirs, id : Ids, title : Titles, whole : BOOLEAN, by : 1..MaxAdds]

TypeOK ==
  /\ files \subseteq File
  /\ \A f, g \in files : f.dir = g.dir /\ f.id = g.id => f = g
  /\ adds \in 0..MaxAdds
  /\ added \subseteq 1..adds
  /\ deleted \subseteq added
  /\ strayed \subseteq added
  /\ blind \in BOOLEAN

Init ==
  /\ files = {}
  /\ adds = 0
  /\ added = {} /\ deleted = {} /\ strayed = {}
  /\ blind = FALSE

-----------------------------------------------------------------------------
At(dir, id) == {f \in files : f.dir = dir /\ f.id = id}

(* Writing or renaming replaces what has the name.                         *)
Put(f) == (files \ At(f.dir, f.id)) \cup {f}

(* ParseTask takes the text between the first two "---" for the front      *)
(* matter. A title that begins with them is written in quotes, and half of *)
(* a quoted title is no YAML.                                              *)
Parses(f) == f.whole /\ f.title \notin Unreadable

(* findTask: the first column that has the file, of those it can read.     *)
Find(id) == {f \in files : f.id = id /\ f.dir \in Columns}

-----------------------------------------------------------------------------
(* Mutant: counts the tasks.                                               *)
CountTasks(seen) == 1 + Cardinality({f \in files : f.dir \in seen})

(* NextID, with the columns that it can read; it skips the others, as it   *)
(* skips files of the board's own directory.                               *)
NextID(seen) ==
  1 + Max({f.id.num : f \in {g \in files : g.dir \in seen}} \cup {0})

Missed(seen) == \E f \in files : f.dir \in Columns \ seen

Write(title, seen, whole) ==
  /\ adds < MaxAdds
  /\ adds' = adds + 1
  /\ files' = Put([dir |-> DefaultColumns[1],
                   id |-> [num |-> NextID(seen), slug |-> Slug[title]],
                   title |-> title, whole |-> whole, by |-> adds + 1])
  /\ blind' = (blind \/ Missed(seen))
  /\ UNCHANGED <<deleted, strayed>>

Add(title) ==
  /\ \E seen \in SUBSET Columns : Write(title, seen, TRUE)
  /\ added' = added \cup {adds'}

(* os.WriteFile creates the file and then writes it.                       *)
AddTorn(title) ==
  /\ \E seen \in SUBSET Columns : Write(title, seen, FALSE)
  /\ UNCHANGED added

(* Mutant: the old file stays.                                             *)
LeavesOld(f, to) == {}

(* os.Rename to the same directory leaves the file where it is.            *)
Renamed(f, to) == IF to = f.dir THEN {} ELSE {f}

(* Move asks only that the directory exists.                               *)
Move(id, to) ==
  \E f \in Find(id) :
    /\ Parses(f)
    /\ files' = Put([f EXCEPT !.dir = to]) \ Renamed(f, to)
    /\ strayed' = IF to \in Columns THEN strayed ELSE strayed \cup {f.by}
    /\ UNCHANGED <<adds, added, deleted, blind>>

Delete(id) ==
  \E f \in Find(id) :
    /\ Parses(f)
    /\ files' = files \ {f}
    /\ deleted' = deleted \cup {f.by}
    /\ UNCHANGED <<adds, added, strayed, blind>>

-----------------------------------------------------------------------------
(* The callers: /task, /move and /done of the Telegram loop, and the       *)
(* handlers of the web server; moves take any column, also none.           *)
BotTask(title) == Add(title)
BotMove(id) == \E to \in Dirs : Move(id, to)
BotDone(id) == Move(id, DefaultColumns[Len(DefaultColumns)])
WebCreate(title) == Add(title)
WebMove(id) == \E to \in Dirs : Move(id, to)
WebDelete(id) == Delete(id)

Next ==
  \/ \E title \in Titles : BotTask(title) \/ WebCreate(title) \/ AddTorn(title)
  \/ \E id \in Ids : BotMove(id) \/ BotDone(id) \/ WebMove(id) \/ WebDelete(id)

Spec == Init /\ [][Next]_vars

-----------------------------------------------------------------------------
(* A task that Add returned (board.go:38) stays on the board, in one       *)
(* column and under its id, until it is deleted or moved to a directory    *)
(* that is no column: no other Add or Move overwrites it, also when ids    *)
(* are given again, unless Add once could not read a column (task.go:78,   *)
(* 87 skip it without an error).                                           *)
TasksStay ==
  \A n \in added \ (deleted \cup strayed) :
    blind \/ Cardinality({f \in files : f.by = n /\ f.dir \in Columns}) = 1

(* "returns the next available ID" (task.go:69): two tasks on the board    *)
(* never have the same number, whatever was deleted, moved or torn, with   *)
(* the same exception.                                                     *)
NumbersDistinct ==
  \A f, g \in files :
    f.dir \in Columns /\ g.dir \in Columns /\ f.id.num = g.id.num => f = g \/ blind

=============================================================================
