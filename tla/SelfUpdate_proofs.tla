-------------------------- MODULE SelfUpdate_proofs --------------------------
(***************************************************************************)
(* Proofs about SelfUpdate, for all trees, all protected paths and every   *)
(* number of edits and updates: types, what a commit is made of, which     *)
(* protected changes can get into one, and when something staged may be    *)
(* left.                                                                   *)
(***************************************************************************)
EXTENDS SelfUpdate, SequenceTheorems, TLAPS

(* Every variable has its type in every reachable state.                   *)
THEOREM TypeCorrect == Spec => []TypeOK
<1> USE SelfUpdateAssumption DEF TypeOK, PCs
<1>1. Init => TypeOK
  <2> SUFFICES ASSUME Init PROVE TypeOK
    OBVIOUS
  <2>1. seen \in Seq(Trees)
    BY EmptySeq DEF Init
  <2>2. base \in [index : Trees, work : Trees]
    BY DEF Init
  <2>3. edits \in 0..MaxEdits /\ updates \in 0..MaxUpdates
    BY DEF Init
  <2> QED BY <2>1, <2>2, <2>3 DEF Init
<1>2. TypeOK /\ [Next]_vars => TypeOK'
  <2> SUFFICES ASSUME TypeOK, [Next]_vars PROVE TypeOK'
    OBVIOUS
  <2> USE DEF gitVars, histVars, countVars
  <2>1. ASSUME NEW p \in Paths, NEW c \in Contents \cup {Absent}, Edit(p, c)
        PROVE  TypeOK'
    <3>1. work' \in Trees
      BY <2>1 DEF Edit, Trees
    <3> QED BY <2>1, <3>1 DEF Edit
  <2>2. CASE Update
    <3>1. base' \in [index : Trees, work : Trees] /\ pc' \in PCs
      BY <2>2 DEF Update
    <3>2. seen' \in Seq(Trees)
      BY <2>2, EmptySeq DEF Update
    <3>3. updates' \in 0..MaxUpdates
      BY <2>2 DEF Update
    <3> QED BY <2>2, <3>1, <3>2, <3>3 DEF Update
  <2>3. ASSUME NEW step, NEW next \in PCs, Validate(step, next)
        PROVE  seen' \in Seq(Trees) /\ pc' \in PCs
    <3>1. Append(seen, work) \in Seq(Trees)
      BY AppendProperties
    <3> QED BY <2>3, <3>1 DEF Validate
  <2>4. CASE GoBuild
    <3>1. Validate("build", "vet")
      BY <2>4 DEF GoBuild
    <3>2. seen' \in Seq(Trees) /\ pc' \in PCs
      BY <2>3, <3>1
    <3> QED BY <3>1, <3>2 DEF Validate
  <2>5. CASE GoVet
    <3>1. Validate("vet", "test")
      BY <2>5 DEF GoVet
    <3>2. seen' \in Seq(Trees) /\ pc' \in PCs
      BY <2>3, <3>1
    <3> QED BY <3>1, <3>2 DEF Validate
  <2>6. CASE GoTest
    <3>1. Validate("test", "add")
      BY <2>6 DEF GoTest
    <3>2. seen' \in Seq(Trees) /\ pc' \in PCs
      BY <2>3, <3>1
    <3> QED BY <3>1, <3>2 DEF Validate
  <2>7. CASE GitAdd
    BY <2>7 DEF GitAdd
  <2>8. CASE GitCommit
    BY <2>8 DEF GitCommit, Committed
  <2>9. CASE Push
    BY <2>9 DEF Push
  <2>10. CASE SignalParentRestart
    BY <2>10 DEF SignalParentRestart
  <2>11. CASE ProcessDies
    BY <2>11 DEF ProcessDies
  <2>12. CASE Relaunch
    BY <2>12 DEF Relaunch
  <2>13. CASE UNCHANGED vars
    BY <2>13 DEF vars
  <2> QED BY <2>1, <2>2, <2>4, <2>5, <2>6, <2>7, <2>8, <2>9, <2>10, <2>11,
             <2>12, <2>13 DEF Next, Pipeline, AgentEdits
<1> QED BY <1>1, <1>2, PTL DEF Spec

-----------------------------------------------------------------------------
(* What the commit rests on. The check of this update found the protected  *)
(* files untracked or unchanged; and as long as nobody edits the tree, it  *)
(* is what build, vet and test have seen so far and what is then staged.   *)
InPipeline == pc \in {"build", "vet", "test", "add", "commit"}

CheckHeld ==
  InPipeline =>
    \A p \in Protected : base.index[p] = Absent \/ base.work[p] = base.index[p]

SeenSoFar ==
  /\ pc = "build" => seen = <<>>
  /\ pc = "vet" /\ ~touched => seen = <<work>>
  /\ pc = "test" /\ ~touched => seen = <<work, work>>
  /\ pc \in {"add", "commit"} /\ ~touched => seen = <<work, work, work>>
  /\ pc = "commit" /\ ~touched => index = work

CommitInv == CheckHeld /\ SeenSoFar

LEMMA CommitInit == Init => CommitInv
BY DEF Init, CommitInv, CheckHeld, SeenSoFar, InPipeline

LEMMA AppendTree ==
  ASSUME NEW t
  PROVE  /\ Append(<<t>>, t) = <<t, t>>
         /\ Append(<<t, t>>, t) = <<t, t, t>>
<1>1. <<t>> \in Seq({t}) /\ <<t, t>> \in Seq({t}) /\ <<t, t, t>> \in Seq({t})
  OBVIOUS
<1>2. Append(<<t>>, t) = <<t, t>>
  <2> DEFINE a == Append(<<t>>, t)
             b == <<t, t>>
  <2>1. a \in Seq({t}) /\ Len(a) = 2 /\ a[1] = t /\ a[2] = t
    BY <1>1, AppendProperties
  <2>2. b \in Seq({t}) /\ Len(b) = 2 /\ b[1] = t /\ b[2] = t
    BY <1>1
  <2> HIDE DEF a, b
  <2>3. Len(a) = Len(b) /\ \A i \in 1..Len(a) : a[i] = b[i]
    BY <2>1, <2>2
  <2>4. a = b
    BY <2>1, <2>2, <2>3, SeqEqual
  <2> QED BY <2>4 DEF a, b
<1>3. Append(<<t, t>>, t) = <<t, t, t>>
  <2> DEFINE a == Append(<<t, t>>, t)
             b == <<t, t, t>>
  <2>1. a \in Seq({t}) /\ Len(a) = 3 /\ a[1] = t /\ a[2] = t /\ a[3] = t
    BY <1>1, AppendProperties
  <2>2. b \in Seq({t}) /\ Len(b) = 3 /\ b[1] = t /\ b[2] = t /\ b[3] = t
    BY <1>1
  <2> HIDE DEF a, b
  <2>3. Len(a) = Len(b) /\ \A i \in 1..Len(a) : a[i] = b[i]
    BY <2>1, <2>2
  <2>4. a = b
    BY <2>1, <2>2, <2>3, SeqEqual
  <2> QED BY <2>4 DEF a, b
<1> QED BY <1>2, <1>3

LEMMA CommitStep == TypeOK /\ CommitInv /\ [Next]_vars => CommitInv'
<1> SUFFICES ASSUME TypeOK, CommitInv, [Next]_vars PROVE CommitInv'
  OBVIOUS
<1> USE DEF CommitInv, CheckHeld, SeenSoFar, InPipeline,
            gitVars, histVars, countVars
<1>1. ASSUME NEW p \in Paths, NEW c \in Contents \cup {Absent}, Edit(p, c)
      PROVE  CommitInv'
  BY <1>1 DEF Edit
<1>2. CASE Update
  <2>1. CASE pc' = "build"
    <3>1. DiffFiles # {} /\ CheckProtectedDirs(DiffFiles)
      BY <1>2, <2>1 DEF Update
    <3>2. base'.index = index /\ base'.work = work
      BY <1>2 DEF Update
    <3>3. \A p \in Protected : index[p] = Absent \/ work[p] = index[p]
      BY <3>1, SelfUpdateAssumption DEF CheckProtectedDirs, DiffFiles
    <3>4. seen' = <<>>
      BY <1>2 DEF Update
    <3> QED BY <2>1, <3>2, <3>3, <3>4
  <2>2. CASE pc' # "build"
    <3>1. pc' = "idle"
      BY <1>2, <2>2 DEF Update
    <3> QED BY <3>1
  <2> QED BY <2>1, <2>2
<1>4. CASE GoBuild
  BY <1>4 DEF GoBuild, Validate
<1>5. CASE GoVet
  BY <1>5, AppendTree DEF GoVet, Validate
<1>6. CASE GoTest
  BY <1>6, AppendTree DEF GoTest, Validate
<1>7. CASE GitAdd
  BY <1>7 DEF GitAdd
<1>8. CASE GitCommit \/ Push \/ SignalParentRestart \/ ProcessDies \/ Relaunch
  <2>1. ~InPipeline'
    BY <1>8 DEF GitCommit, Push, SignalParentRestart, ProcessDies, Relaunch
  <2> QED BY <2>1
<1>9. CASE UNCHANGED vars
  BY <1>9 DEF vars
<1> QED BY <1>1, <1>2, <1>4, <1>5, <1>6, <1>7, <1>8, <1>9 DEF Next, Pipeline, AgentEdits

(* Only a commit changes HEAD, to what is staged.                          *)
LEMMA OnlyCommits ==
  [Next]_vars /\ head' # head => pc = "commit" /\ head' = index /\ UNCHANGED <<index, touched, seen, base>>
<1> SUFFICES ASSUME [Next]_vars, head' # head
             PROVE  pc = "commit" /\ head' = index /\ UNCHANGED <<index, touched, seen, base>>
  OBVIOUS
<1>1. GitCommit
  BY DEF Next, Pipeline, AgentEdits, Edit, Update, GoBuild, GoVet, GoTest, Validate,
     GitAdd, Push, SignalParentRestart, ProcessDies, Relaunch, vars, gitVars
<1> QED BY <1>1 DEF GitCommit, Committed

(* What is committed is the tree on which build, vet and test passed,      *)
(* unless an agent edited it meanwhile.                                    *)
THEOREM CommitsValidated == Spec => CommitsWhatItValidated
<1>1. CommitInv /\ [Next]_vars =>
        [head' # head => touched \/ seen = <<head', head', head'>>]_vars
  BY OnlyCommits DEF CommitInv, SeenSoFar
<1> QED BY <1>1, CommitInit, CommitStep, TypeCorrect, PTL DEF Spec, CommitsWhatItValidated

(* A change of a protected file is committed only when the file was        *)
(* untracked or staged at the check, or edited after it.                   *)
THEOREM ProtectedExplained == Spec => ProtectedChangesExplained
<1>1. CommitInv /\ [Next]_vars =>
        [\A p \in Protected : head'[p] # head[p] =>
           \/ base.index[p] = Absent
           \/ base.index[p] # head[p]
           \/ base.work[p] # index[p]]_vars
  BY OnlyCommits DEF CommitInv, CheckHeld, InPipeline
<1> QED BY <1>1, CommitInit, CommitStep, TypeCorrect, PTL DEF Spec, ProtectedChangesExplained

-----------------------------------------------------------------------------
(* What is staged is committed by the update that staged it, or something  *)
(* broke: the property is inductive as it stands.                          *)
LEMMA StagedStep == StagedOnlyWhenBroken /\ [Next]_vars => StagedOnlyWhenBroken'
<1> SUFFICES ASSUME StagedOnlyWhenBroken, [Next]_vars PROVE StagedOnlyWhenBroken'
  OBVIOUS
<1> USE DEF StagedOnlyWhenBroken, gitVars, histVars
<1>1. ASSUME UNCHANGED <<index, head, broken>>, pc # "commit", pc' \notin {"push", "signal"}
      PROVE  StagedOnlyWhenBroken'
  BY <1>1
<1>2. CASE AgentEdits
  BY <1>2 DEF AgentEdits, Edit
<1>3. CASE Update
  BY <1>1, <1>3 DEF Update
<1>4. CASE GoBuild \/ GoVet \/ GoTest
  BY <1>1, <1>4 DEF GoBuild, GoVet, GoTest, Validate
<1>5. CASE GitAdd
  BY <1>5 DEF GitAdd
<1>6. CASE GitCommit
  BY <1>6 DEF GitCommit, Committed
<1>7. CASE Push \/ SignalParentRestart
  BY <1>7 DEF Push, SignalParentRestart
<1>8. CASE ProcessDies
  BY <1>8 DEF ProcessDies
<1>9. CASE Relaunch
  BY <1>1, <1>9 DEF Relaunch
<1>10. CASE UNCHANGED vars
  BY <1>10 DEF vars
<1> QED BY <1>2, <1>3, <1>4, <1>5, <1>6, <1>7, <1>8, <1>9, <1>10 DEF Next, Pipeline

(* Nothing stays staged but after a commit that failed or a death before   *)
(* it, and an update that signals has committed all it staged.             *)
THEOREM StagedIsCommitted == Spec => []StagedOnlyWhenBroken
<1>1. Init => StagedOnlyWhenBroken
  BY DEF Init, StagedOnlyWhenBroken
<1> QED BY <1>1, StagedStep, PTL DEF Spec
=============================================================================
