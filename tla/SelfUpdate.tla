------------------------------ MODULE SelfUpdate ------------------------------
(***************************************************************************)
(* The self-update pipeline: the /update command, Updater.Apply with its   *)
(* git and go commands, and the restart it asks the supervisor for.        *)
(*                                                                         *)
(* The pipeline runs in the Telegram update loop, one update at a time,    *)
(* and each command it runs is one step. The agents' claude processes edit *)
(* the working tree at any time, and the process may die between any two   *)
(* steps: it is killed by the restart that an earlier update asked for, or *)
(* it crashes. Any command may fail, also because ctx is done.             *)
(*                                                                         *)
(* A tree gives each path its contents, or Absent. A path is tracked when  *)
(* the index has it.                                                       *)
(***************************************************************************)
EXTENDS Naturals, Sequences

CONSTANTS
  Paths,          (* the files of the project directory                    *)
  Protected,      (* those under SelfUpdate.ProtectedDirs                  *)
  Contents,       (* what a file may contain                               *)
  Absent,
  Origin,         (* the tree of the first HEAD                            *)
  AutoPush,       (* SelfUpdate.AutoPush, with a branch                    *)
  MaxEdits,       (* bounds of the model: edits of the tree,               *)
  MaxUpdates      (* and /update commands                                  *)

Trees == [Paths -> Contents \cup {Absent}]

ASSUME SelfUpdateAssumption ==
  /\ Protected \subseteq Paths
  /\ Absent \notin Contents
  /\ Origin \in Trees
  /\ AutoPush \in BOOLEAN
  /\ MaxEdits \in Nat /\ MaxUpdates \in Nat

VARIABLES
  head,      (* the tree of HEAD                                           *)
  index,     (* the tree of the index                                      *)
  work,      (* the working tree                                           *)
  remote,    (* the tree that was pushed last                              *)
  pc,        (* the next step of /update; "down" between two processes     *)
  restart,   (* SIGUSR1 has been sent, and this process still lives        *)
  base,      (* history: index and work when DiffFiles ran                 *)
  seen,      (* history: the trees that build, vet and test passed on      *)
  touched,   (* history: the tree was edited since this update began       *)
  broken,    (* history: since the last commit, one failed after git add   *)
  edits, updates

gitVars   == <<head, index, remote>>
histVars  == <<base, seen, touched, broken>>
countVars == <<edits, updates>>
vars == <<gitVars, work, pc, restart, histVars, countVars>>

PCs == {"idle", "build", "vet", "test", "add", "commit", "push", "signal", "down"}

TypeOK ==
  /\ head \in Trees /\ index \in Trees /\ work \in Trees /\ remote \in Trees
  /\ pc \in PCs
  /\ restart \in BOOLEAN /\ touched \in BOOLEAN /\ broken \in BOOLEAN
  /\ base \in [index : Trees, work : Trees]
  /\ seen \in Seq(Trees)
  /\ edits \in 0..MaxEdits /\ updates \in 0..MaxUpdates

Init ==
  /\ head = Origin /\ index = Origin /\ work = Origin /\ remote = Origin
  /\ pc = "idle"
  /\ restart = FALSE
  /\ base = [index |-> Origin, work |-> Origin]
  /\ seen = <<>>
  /\ touched = FALSE /\ broken = FALSE
  /\ edits = 0 /\ updates = 0

-----------------------------------------------------------------------------
(* An agent creates, changes or removes a file.                            *)
Edit(p, c) ==
  /\ edits < MaxEdits
  /\ work[p] # c
  /\ edits' = edits + 1
  /\ work' = [work EXCEPT ![p] = c]
  /\ touched' = TRUE
  /\ UNCHANGED <<gitVars, pc, restart, base, seen, broken, updates>>

-----------------------------------------------------------------------------
(* git diff --name-only: the tracked files that differ from the index.     *)
DiffFiles == {p \in Paths : index[p] # Absent /\ work[p] # index[p]}

(* Mutant: refuses only an update of nothing but protected files.          *)
AllowsMixed(files) == files = {} \/ ~(files \subseteq Protected)

CheckProtectedDirs(files) == files \cap Protected = {}

(* Apply up to the validation: no change, a protected file and a failing   *)
(* git diff all end it.                                                    *)
Update ==
  /\ pc = "idle"
  /\ updates < MaxUpdates
  /\ updates' = updates + 1
  /\ base' = [index |-> index, work |-> work]
  /\ seen' = <<>>
  /\ touched' = FALSE
  /\ \/ pc' = "idle"
     \/ DiffFiles # {} /\ CheckProtectedDirs(DiffFiles) /\ pc' = "build"
  /\ UNCHANGED <<gitVars, work, restart, broken, edits>>

(* One step of Validate, that passes on the tree of the moment or ends the *)
(* update.                                                                 *)
Validate(step, next) ==
  /\ pc = step
  /\ \/ pc' = next /\ seen' = Append(seen, work)
     \/ pc' = "idle" /\ UNCHANGED seen
  /\ UNCHANGED <<gitVars, work, restart, base, touched, broken, countVars>>

(* go build ./cmd/agent/ leaves its binary in the project directory, where *)
(* nothing looks for it: the supervisor runs child_binary.                 *)
GoBuild == Validate("build", "vet")

(* Mutant: the tests are left out.                                         *)
VetThenAdd == Validate("vet", "add")

GoVet == Validate("vet", "test")

GoTest == Validate("test", "add")

(* git add -A                                                              *)
GitAdd ==
  /\ pc = "add"
  /\ \/ pc' = "commit" /\ index' = work
     \/ pc' = "idle" /\ UNCHANGED index
  /\ UNCHANGED <<head, remote, work, restart, histVars, countVars>>

(* Mutant: new files are left out.                                         *)
CommitsTracked == [p \in Paths |-> IF head[p] = Absent THEN Absent ELSE index[p]]

Committed == index

(* git commit refuses a commit without a change, and may fail. Apply only  *)
(* reads the new HEAD then (CurrentCommit).                                *)
GitCommit ==
  /\ pc = "commit"
  /\ \/ /\ index # head
        /\ head' = Committed
        /\ broken' = FALSE
        /\ pc' = IF AutoPush THEN "push" ELSE "signal"
     \/ /\ pc' = "idle"
        /\ broken' = TRUE
        /\ UNCHANGED head
  /\ UNCHANGED <<index, remote, work, restart, base, seen, touched, countVars>>

(* A push that fails is only logged.                                       *)
Push ==
  /\ pc = "push"
  /\ pc' = "signal"
  /\ remote' \in {remote, head}
  /\ UNCHANGED <<head, index, work, restart, histVars, countVars>>

(* SIGUSR1 to the supervisor; without one there is no restart.             *)
SignalParentRestart ==
  /\ pc = "signal"
  /\ pc' = "idle"
  /\ restart' \in {restart, TRUE}
  /\ UNCHANGED <<gitVars, work, histVars, countVars>>

-----------------------------------------------------------------------------
(* The process ends: a crash, a shutdown, or the restart.                  *)
ProcessDies ==
  /\ pc # "down"
  /\ pc' = "down"
  /\ restart' = FALSE
  /\ broken' = (broken \/ pc = "commit")
  /\ UNCHANGED <<gitVars, work, base, seen, touched, countVars>>

(* The supervisor runs child_binary again.                                 *)
Relaunch ==
  /\ pc = "down"
  /\ pc' = "idle"
  /\ UNCHANGED <<gitVars, work, restart, histVars, countVars>>

-----------------------------------------------------------------------------
Pipeline ==
  \/ Update \/ GoBuild \/ GoVet \/ GoTest
  \/ GitAdd \/ GitCommit \/ Push \/ SignalParentRestart

AgentEdits == \E p \in Paths, c \in Contents \cup {Absent} : Edit(p, c)

Next == AgentEdits \/ Pipeline \/ ProcessDies \/ Relaunch

Spec == Init /\ [][Next]_vars

(* Agents that edit only while no update runs.                             *)
QuietSpec == Init /\ [][Next /\ (AgentEdits => pc = "idle")]_vars

-----------------------------------------------------------------------------
(* A protected file that is tracked, unstaged and left alone after the     *)
(* check never gets into a commit (ADR-0005:25, updater.go:65), however    *)
(* many updates fail or die before. The three exceptions are the ways in   *)
(* which one does get in: git diff lists neither untracked nor staged      *)
(* files, and the check is made once, before the validation.               *)
ProtectedChangesExplained ==
  [][\A p \in Protected : head'[p] # head[p] =>
       \/ base.index[p] = Absent
       \/ base.index[p] # head[p]
       \/ base.work[p] # index[p]]_vars

(* A commit is exactly the tree on which build, vet and test have all      *)
(* passed in this update (updater.go:70-83), what failed updates staged    *)
(* included, unless an agent edited the tree meanwhile: Apply holds no     *)
(* lock against the agents.                                                *)
CommitsWhatItValidated ==
  [][head' # head => touched \/ seen = <<head', head', head'>>]_vars

(* Only a commit that failed, or a death between add and commit, leaves    *)
(* anything staged (git.go:45-53), and an update that asks for the restart *)
(* leaves nothing. What is left staged is invisible to the next DiffFiles. *)
StagedOnlyWhenBroken ==
  /\ index # head => pc = "commit" \/ broken
  /\ pc \in {"push", "signal"} => index = head

(* "Protected directories: cmd/singugen/ and internal/supervisor/ cannot   *)
(* be modified. Checked before validation" (ADR-0005:25-26).               *)
ProtectedNeverCommitted == \A p \in Protected : head[p] = Origin[p]
=============================================================================
