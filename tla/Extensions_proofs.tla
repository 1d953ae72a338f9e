-------------------------- MODULE Extensions_proofs --------------------------
(***************************************************************************)
(* Proofs about Extensions, for all agents, configurations and skills:     *)
(* types, that a whole SKILL.md is never lost but to a race, and that what *)
(* was applied is there.                                                   *)
(***************************************************************************)
EXTENDS Extensions, SequenceTheorems, TLAPS

LEMMA SkillAt ==
  ASSUME NEW a \in Agents, NEW i \in Nat \ {0}, i <= Len(Skills[a])
  PROVE  Skills[a][i] \in Names
<1>1. Skills[a] \in Seq(Names)
  BY ExtensionsAssumption
<1>2. Len(Skills[a]) \in Nat
  BY <1>1, LenProperties
<1>3. i \in 1..Len(Skills[a])
  BY <1>2
<1> QED BY <1>1, <1>3, ElementOfSeq

LEMMA PutSkill ==
  ASSUME skill \in [Names -> [Places -> Copies]],
         NEW n \in Names, NEW p \in Places, NEW c \in Copies
  PROVE  [skill EXCEPT ![n][p] = c] \in [Names -> [Places -> Copies]]
OBVIOUS

LEMMA RenameOK ==
  ASSUME TypeOK, NEW n \in Names, NEW from \in Places, NEW to \in Places,
         Rename(n, from, to)
  PROVE  /\ skill' \in [Names -> [Places -> Copies]]
         /\ fd' \in [Agents -> Places]
         /\ moves' \in 0..MaxMoves
<1>1. skill' \in [Names -> [Places -> Copies]]
  BY DEF Rename, TypeOK, Copies
<1>2. fd' \in [Agents -> Places]
  BY DEF Rename, TypeOK
<1>3. moves' \in 0..MaxMoves
  BY ExtensionsAssumption DEF Rename, TypeOK
<1> QED BY <1>1, <1>2, <1>3

(* Every variable has its type in every reachable state; in particular an  *)
(* Apply that installs is at one of its skills.                            *)
THEOREM TypeCorrect == Spec => []TypeOK
<1> USE ExtensionsAssumption
<1>0. \A a \in Agents : Len(Skills[a]) \in Nat
  BY LenProperties
<1>1. Init => TypeOK
  <2> SUFFICES ASSUME Init PROVE TypeOK
    OBVIOUS
  <2>1. skill \in [Names -> [Places -> Copies]]
    BY DEF Init, Copies
  <2>2. /\ pc \in [Agents -> PCs] /\ fd \in [Agents -> Places]
        /\ \A a \in Agents : pc[a] \notin Installing
    BY DEF Init, PCs, Installing, Places
  <2>3. mcp \in [Agents -> Files] /\ servers \in [Agents -> Files \ {"Empty"}]
    BY DEF Init, Files
  <2>4. at \in [Agents -> Nat \ {0}] /\ \A a \in Agents : at[a] <= Len(Skills[a]) + 1
    BY <1>0 DEF Init
  <2>5. applies \in 0..MaxApplies /\ moves \in 0..MaxMoves /\ deaths \in 0..MaxDeaths
    BY DEF Init
  <2> QED BY <2>1, <2>2, <2>3, <2>4, <2>5 DEF Init, TypeOK
<1>2. TypeOK /\ [Next]_vars => TypeOK'
  <2> SUFFICES ASSUME TypeOK, [Next]_vars PROVE TypeOK'
    OBVIOUS
  <2> USE DEF mcpVars, applyVars, countVars
  <2>0. ASSUME NEW a \in Agents, pc[a] \in Installing PROVE Current(a) \in Names
    BY <2>0, SkillAt DEF TypeOK, Current
  <2>1. ASSUME NEW a \in Agents, Apply(a) PROVE TypeOK'
    <3>1. servers' \in [Agents -> Files \ {"Empty"}]
      BY <2>1 DEF Apply, TypeOK, Files
    <3>2. at' \in [Agents -> Nat \ {0}] /\ \A b \in Agents : at'[b] <= Len(Skills[b]) + 1
      BY <1>0, <2>1 DEF Apply, TypeOK
    <3>3. pc' \in [Agents -> PCs] /\ excused' \in [Agents -> SUBSET Names]
      BY <2>1 DEF Apply, Goto, TypeOK, PCs
    <3>4. \A b \in Agents : pc'[b] \in Installing => at'[b] <= Len(Skills[b])
      BY <2>1 DEF Apply, Goto, TypeOK, Installing
    <3>5. applies' \in 0..MaxApplies
      BY <2>1 DEF Apply, TypeOK
    <3> QED BY <2>1, <3>1, <3>2, <3>3, <3>4, <3>5 DEF Apply, TypeOK
  <2>2. ASSUME NEW a \in Agents, TruncateMCP(a) \/ WriteMCP(a) PROVE TypeOK'
    <3>1. mcp' \in [Agents -> Files]
      BY <2>2 DEF TruncateMCP, WriteMCP, TypeOK, Files
    <3>2. /\ pc' \in [Agents -> PCs]
          /\ \A b \in Agents : pc'[b] \in Installing => pc[b] \in Installing
      BY <2>2, ZenonT(60) DEF TruncateMCP, WriteMCP, Goto, TypeOK, PCs, Installing
    <3> QED BY <2>2, <3>1, <3>2 DEF TruncateMCP, WriteMCP, TypeOK
  <2>3. ASSUME NEW a \in Agents, pc[a] \in {"check"} \cup Installing,
               at[a] <= Len(Skills[a]), Continue(a)
        PROVE  /\ pc' \in [Agents -> PCs] /\ at' \in [Agents -> Nat \ {0}]
               /\ \A b \in Agents : /\ at'[b] <= Len(Skills[b]) + 1
                                    /\ pc'[b] \in Installing => at'[b] <= Len(Skills[b])
    <3>1. pc' \in [Agents -> PCs] /\ \A b \in Agents : pc'[b] = IF b = a THEN "check" ELSE pc[b]
      BY <2>3 DEF Continue, Goto, TypeOK, PCs
    <3>2. at' \in [Agents -> Nat \ {0}] /\ \A b \in Agents : at'[b] = IF b = a THEN at[a] + 1 ELSE at[b]
      BY <2>3 DEF Continue, TypeOK
    <3>3. ASSUME NEW b \in Agents PROVE at'[b] <= Len(Skills[b]) + 1
      <4>1. /\ at[b] \in Nat /\ Len(Skills[b]) \in Nat
            /\ at[b] <= Len(Skills[b]) + 1 /\ at'[b] = IF b = a THEN at[b] + 1 ELSE at[b]
        BY <1>0, <3>2 DEF TypeOK
      <4>2. b = a => at[b] <= Len(Skills[b])
        BY <2>3
      <4> QED BY <4>1, <4>2
    <3>4. \A b \in Agents : pc'[b] \in Installing => at'[b] <= Len(Skills[b])
      BY <3>1, <3>2 DEF TypeOK, Installing
    <3> QED BY <3>1, <3>2, <3>3, <3>4
  <2>4. ASSUME NEW a \in Agents, CheckSkill(a) PROVE TypeOK'
    <3>1. existed' \in [Agents -> BOOLEAN]
      BY <2>4 DEF CheckSkill, HasFile, TypeOK
    <3>2. CASE Continue(a)
      BY <2>3, <2>4, <3>1, <3>2 DEF CheckSkill, TypeOK
    <3>3. CASE Goto(a, "mkdir") /\ UNCHANGED at
      <4>1. /\ pc' \in [Agents -> PCs]
            /\ \A b \in Agents : pc'[b] \in Installing => b = a \/ pc[b] \in Installing
        BY <3>3 DEF Goto, TypeOK, PCs, Installing
      <4> QED BY <2>4, <3>1, <3>3, <4>1 DEF CheckSkill, TypeOK
    <3> QED BY <2>4, <3>2, <3>3 DEF CheckSkill
  <2>5. ASSUME NEW a \in Agents, ApplyReturns(a) PROVE TypeOK'
    <3>1. /\ pc' \in [Agents -> PCs]
          /\ \A b \in Agents : pc'[b] \in Installing => pc[b] \in Installing
      BY <2>5 DEF ApplyReturns, Goto, TypeOK, PCs, Installing
    <3> QED BY <2>5, <3>1 DEF ApplyReturns, TypeOK
  <2>6. ASSUME NEW a \in Agents, Mkdir(a) \/ Create(a) PROVE TypeOK'
    <3>1. Current(a) \in Names
      BY <2>0, <2>6 DEF Mkdir, Create, Installing
    <3>2. skill' \in [Names -> [Places -> Copies]]
      <4>1. skill' = skill \/ \E c \in {"Bare", "Empty"} :
                               skill' = [skill EXCEPT ![Current(a)]["active"] = c]
        BY <2>6 DEF Mkdir, Create
      <4>2. "active" \in Places /\ {"Bare", "Empty"} \subseteq Copies
        BY DEF Places, Copies
      <4>3. skill \in [Names -> [Places -> Copies]]
        BY DEF TypeOK
      <4> QED BY <3>1, <4>1, <4>2, <4>3, PutSkill
    <3>3. /\ pc' \in [Agents -> PCs]
          /\ \A b \in Agents : pc'[b] \in Installing => pc[b] \in Installing
      BY <2>6 DEF Mkdir, Create, Goto, TypeOK, PCs, Installing
    <3>4. fd' \in [Agents -> Places]
      BY <2>6 DEF Mkdir, Create, TypeOK, Places
    <3> QED BY <2>6, <3>2, <3>3, <3>4 DEF Mkdir, Create, TypeOK
  <2>7. ASSUME NEW a \in Agents, Write(a) PROVE TypeOK'
    <3>1. Current(a) \in Names /\ fd[a] \in Places /\ at[a] <= Len(Skills[a])
      BY <2>0, <2>7 DEF Write, Installing, TypeOK
    <3>2. \E c \in Copies : skill' = [skill EXCEPT ![Current(a)][fd[a]] = c]
      <4>1. {Content[a][Current(a)], "Mixed"} \subseteq Copies
        BY <3>1 DEF Copies, Whole
      <4>2. \E c \in {Content[a][Current(a)], "Mixed"} :
               skill' = [skill EXCEPT ![Current(a)][fd[a]] = c]
        BY <2>7 DEF Write
      <4> QED BY <4>1, <4>2
    <3>3. skill' \in [Names -> [Places -> Copies]]
      BY <3>1, <3>2, PutSkill DEF TypeOK
    <3> QED BY <2>3, <2>7, <3>1, <3>3 DEF Write, Installing, TypeOK
  <2>8. ASSUME NEW a \in Agents, InstallFails(a) PROVE TypeOK'
    <3>1. Current(a) \in Names /\ at[a] <= Len(Skills[a])
      BY <2>0, <2>8 DEF InstallFails, TypeOK
    <3>2. cut' \subseteq Names /\ excused' \in [Agents -> SUBSET Names]
      BY <2>8, <3>1 DEF InstallFails, TypeOK
    <3> QED BY <2>3, <2>8, <3>1, <3>2 DEF InstallFails, TypeOK
  <2>9. CASE Die
    <3>1. /\ pc' \in [Agents -> PCs] /\ servers' \in [Agents -> Files \ {"Empty"}]
          /\ \A b \in Agents : pc'[b] \notin Installing
      BY <2>9 DEF Die, PCs, Files, Installing
    <3>2. cut' \subseteq Names
      BY <2>0, <2>9 DEF Die, TypeOK, Installing
    <3>3. deaths' \in 0..MaxDeaths
      BY <2>9 DEF Die, TypeOK
    <3> QED BY <2>9, <3>1, <3>2, <3>3 DEF Die, TypeOK
  <2>10. ASSUME NEW n \in Names, Disable(n) \/ Enable(n) \/ Archive(n) PROVE TypeOK'
    <3>1. \E from, to \in Places : Rename(n, from, to)
      BY <2>10 DEF Disable, Enable, Archive, Places
    <3>2. PICK from \in Places, to \in Places : Rename(n, from, to)
      BY <3>1
    <3>3. excused' \in [Agents -> SUBSET Names]
      BY <2>10 DEF Disable, Enable, Archive, MovedAway, TypeOK
    <3>4. UNCHANGED <<applyVars, cut, applies, deaths>>
      BY <3>2 DEF Rename
    <3> QED BY <3>2, <3>3, <3>4, RenameOK DEF TypeOK
  <2>11. CASE UNCHANGED vars
    BY <2>11 DEF vars, TypeOK
  <2> QED BY <2>1, <2>2, <2>4, <2>5, <2>6, <2>7, <2>8, <2>9, <2>10, <2>11 DEF Next
<1> QED BY <1>1, <1>2, PTL DEF Spec
-----------------------------------------------------------------------------
(* The invariant behind CopiesKept: who installs has seen no SKILL.md.     *)
SawNone == \A a \in Agents : pc[a] \in Installing => ~existed[a]

LEMMA SawNoneInvariant == Spec => []SawNone
<1>1. Init => SawNone
  BY DEF Init, SawNone, Installing
<1>2. TypeOK /\ SawNone /\ [Next]_vars => SawNone'
  <2> SUFFICES ASSUME TypeOK, SawNone, [Next]_vars PROVE SawNone'
    OBVIOUS
  <2> USE DEF mcpVars, applyVars, countVars
  <2>1. ASSUME NEW a \in Agents, CheckSkill(a) PROVE SawNone'
    <3>1. existed' = [existed EXCEPT ![a] = HasFile(Current(a))]
      BY <2>1 DEF CheckSkill
    <3>2. CASE IsInstalled(Current(a))
      <4>1. pc' = [pc EXCEPT ![a] = "check"]
        BY <2>1, <3>2 DEF CheckSkill, Continue, Goto
      <4> QED BY <3>1, <4>1 DEF SawNone, TypeOK, Installing
    <3>3. CASE ~IsInstalled(Current(a))
      <4>1. pc' = [pc EXCEPT ![a] = "mkdir"]
        BY <2>1, <3>3 DEF CheckSkill, Goto
      <4>2. ~HasFile(Current(a))
        BY <3>3 DEF IsInstalled
      <4> QED BY <3>1, <4>1, <4>2 DEF SawNone, TypeOK
    <3> QED BY <3>2, <3>3
  <2>2. ASSUME NEW a \in Agents,
               Apply(a) \/ TruncateMCP(a) \/ WriteMCP(a) \/ ApplyReturns(a)
        PROVE  SawNone'
    <3>1. existed' = existed /\ \A b \in Agents : pc'[b] \in Installing => pc[b] \in Installing
      BY <2>2 DEF Apply, TruncateMCP, WriteMCP, ApplyReturns, Goto, TypeOK, Installing
    <3> QED BY <3>1 DEF SawNone
  <2>3. ASSUME NEW a \in Agents, Mkdir(a) \/ Create(a) \/ Write(a) \/ InstallFails(a)
        PROVE  SawNone'
    <3>1. existed' = existed /\ \A b \in Agents : pc'[b] \in Installing => pc[b] \in Installing
      BY <2>3 DEF Mkdir, Create, Write, InstallFails, Continue, Goto, TypeOK, Installing
    <3> QED BY <3>1 DEF SawNone
  <2>4. CASE Die
    BY <2>4 DEF Die, SawNone, Installing
  <2>5. ASSUME NEW n \in Names, Disable(n) \/ Enable(n) \/ Archive(n) PROVE SawNone'
    <3>1. UNCHANGED <<pc, existed>>
      BY <2>5 DEF Disable, Enable, Archive, Rename
    <3> QED BY <3>1 DEF SawNone
  <2>6. CASE UNCHANGED vars
    BY <2>6 DEF vars, SawNone
  <2> QED BY <2>1, <2>2, <2>3, <2>4, <2>5, <2>6 DEF Next
<1> QED BY <1>1, <1>2, TypeCorrect, PTL DEF Spec

(* A SKILL.md that is rewritten in place p of skill n is only lost there.  *)
LEMMA OverwriteExcused ==
  ASSUME TypeOK, SawNone, NEW a \in Agents, pc[a] \in {"create", "write"},
         pc'[a] # pc[a], NEW m \in Names, m = Current(a), NEW r \in Places, NEW c,
         skill' = [skill EXCEPT ![m][r] = c],
         NEW n \in Names, NEW p \in Places
  PROVE  \/ \E q \in Places : skill'[n][q] = skill[n][p]
         \/ \E b \in Agents : /\ pc[b] \in {"create", "write"} /\ pc'[b] # pc[b]
                              /\ Current(b) = n /\ ~existed[b]
<1>1. CASE n = m
  <2>1. ~existed[a]
    BY DEF SawNone, Installing
  <2> QED BY <1>1, <2>1
<1>2. CASE n # m
  BY <1>2 DEF TypeOK
<1> QED BY <1>1, <1>2

(* A whole SKILL.md is never lost: it changes its place, unless an Apply   *)
(* that saw none writes over it (CopiesKept).                              *)
THEOREM CopiesRemain == Spec => CopiesKept
<1> DEFINE Lost(n, p) == /\ skill[n][p] \in Whole
                         /\ \A q \in Places : skill'[n][q] # skill[n][p]
           Raced(n) == \E a \in Agents : /\ pc[a] \in {"create", "write"} /\ pc'[a] # pc[a]
                                         /\ Current(a) = n /\ ~existed[a]
<1>1. ASSUME TypeOK, SawNone, [Next]_vars, NEW n \in Names, NEW p \in Places, Lost(n, p)
      PROVE  Raced(n)
  <2> USE <1>1 DEF mcpVars, applyVars, countVars
  <2>1. skill' # skill
    OBVIOUS
  <2>2. ASSUME NEW a \in Agents, Mkdir(a) PROVE FALSE
    <3>1. PICK m : m = Current(a)
      OBVIOUS
    <3>2. /\ skill[m]["active"] = "Absent"
          /\ skill' = [skill EXCEPT ![m]["active"] = "Bare"]
      BY <2>1, <2>2, <3>1 DEF Mkdir
    <3>3. n # m \/ p # "active"
      BY <3>2, ExtensionsAssumption
    <3>4. skill'[n][p] = skill[n][p]
      BY <3>2, <3>3 DEF TypeOK
    <3> QED BY <3>4
  <2>3. ASSUME NEW a \in Agents, Create(a) PROVE Raced(n)
    <3>1. Current(a) \in Names
      BY <2>3, SkillAt DEF Create, Current, TypeOK, Installing
    <3>2. pc[a] = "create" /\ pc'[a] = "write"
      BY <2>3 DEF Create, Goto, TypeOK
    <3>3. skill' = [skill EXCEPT ![Current(a)]["active"] = "Empty"] /\ "active" \in Places
      BY <2>3 DEF Create, Places
    <3> QED BY <3>1, <3>2, <3>3, OverwriteExcused
  <2>4. ASSUME NEW a \in Agents, Write(a) PROVE Raced(n)
    <3>1. Current(a) \in Names /\ fd[a] \in Places
      BY <2>4, SkillAt DEF Write, Current, TypeOK, Installing
    <3>2. pc[a] = "write" /\ pc'[a] = "check"
      BY <2>4 DEF Write, Continue, Goto, TypeOK
    <3>3. \E c : skill' = [skill EXCEPT ![Current(a)][fd[a]] = c]
      BY <2>4 DEF Write
    <3> QED BY <3>1, <3>2, <3>3, OverwriteExcused, ZenonT(60)
  <2>5. ASSUME NEW m \in Names, NEW from \in Places, NEW to \in Places, Rename(m, from, to)
        PROVE  FALSE
    <3>1. /\ skill[m][from] # "Absent" /\ skill[m][to] = "Absent"
          /\ skill' = [skill EXCEPT ![m][to] = skill[m][from], ![m][from] = "Absent"]
      BY <2>5 DEF Rename
    <3>2. skill[n][p] # "Absent"
      BY ExtensionsAssumption
    <3>3. CASE n = m /\ p = from
      <4>1. skill'[n][to] = skill[n][p]
        BY <3>1, <3>3 DEF TypeOK
      <4> QED BY <4>1
    <3>4. CASE ~(n = m /\ p = from)
      <4>1. skill'[n][p] = skill[n][p]
        BY <3>1, <3>2, <3>4 DEF TypeOK
      <4> QED BY <4>1
    <3> QED BY <3>3, <3>4
  <2>6. ASSUME NEW m \in Names, Disable(m) \/ Enable(m) \/ Archive(m) PROVE FALSE
    <3>1. \E from, to \in Places : Rename(m, from, to)
      BY <2>6 DEF Disable, Enable, Archive, Places
    <3> QED BY <2>5, <3>1
  <2>7. ASSUME NEW a \in Agents,
               \/ Apply(a) \/ TruncateMCP(a) \/ WriteMCP(a) \/ CheckSkill(a)
               \/ ApplyReturns(a) \/ InstallFails(a)
        PROVE  FALSE
    BY <2>1, <2>7 DEF Apply, TruncateMCP, WriteMCP, CheckSkill, ApplyReturns, InstallFails
  <2>8. CASE Die \/ UNCHANGED vars
    BY <2>1, <2>8 DEF Die, vars
  <2> QED BY <2>2, <2>3, <2>4, <2>6, <2>7, <2>8 DEF Next
<1>2. TypeOK /\ SawNone /\ [Next]_vars
        => [\A n \in Names, p \in Places :
              skill[n][p] \in Whole =>
                \/ \E q \in Places : skill'[n][q] = skill[n][p]
                \/ \E a \in Agents : /\ pc[a] \in {"create", "write"} /\ pc'[a] # pc[a]
                                     /\ Current(a) = n /\ ~existed[a]]_vars
  BY <1>1
<1> QED BY <1>2, TypeCorrect, SawNoneInvariant, PTL DEF Spec, CopiesKept

-----------------------------------------------------------------------------
(* Why what was applied is there. An empty SKILL.md, wherever it has been  *)
(* moved, is one that a writer still has open there or that was cut off;   *)
(* a writer whose file has been moved away is excused; and a SKILL.md that *)
(* was passed once stays one, unless it is moved away.                     *)
Writes(b, n, p) == pc[b] = "write" /\ Current(b) = n /\ fd[b] = p

EmptyExplained ==
  \A n \in Names, p \in Places :
    skill[n][p] = "Empty" => n \in cut \/ \E b \in Agents : Writes(b, n, p)

WritesActive ==
  \A a \in Agents : pc[a] = "write" => fd[a] = "active" \/ Current(a) \in excused[a]

StartsAtFirst == \A a \in Agents : pc[a] \in {"mcp", "mcpWrite"} => at[a] = 1

PassedIsThere ==
  \A a \in Agents :
    pc[a] \in {"check"} \cup Installing =>
      /\ mcp[a] = servers[a]
      /\ \A i \in 1..(at[a] - 1) : HasFile(Skills[a][i]) \/ Skills[a][i] \in excused[a]

(* The steps of an Apply that touch no skill.                              *)
Reads(a) ==
  \/ Apply(a) \/ TruncateMCP(a) \/ WriteMCP(a) \/ CheckSkill(a) \/ ApplyReturns(a)

Moves(n) == Disable(n) \/ Enable(n) \/ Archive(n)

LEMMA MovesRename ==
  ASSUME NEW n \in Names, Moves(n)
  PROVE  \E from, to \in Places :
           /\ Rename(n, from, to)
           /\ IF from = "active" THEN MovedAway(n) ELSE to = "active" /\ UNCHANGED excused
BY DEF Moves, Disable, Enable, Archive, Places

(* A step of one Apply leaves the writer of another where it is.           *)
LEMMA OthersWrite ==
  ASSUME TypeOK, NEW a \in Agents, NEW b \in Agents, pc[b] = "write",
         \/ Reads(a) \/ Mkdir(a) \/ Create(a)
         \/ a # b /\ (Write(a) \/ InstallFails(a))
  PROVE  a # b /\ pc'[b] = "write" /\ Current(b)' = Current(b) /\ fd'[b] = fd[b]
<1> USE DEF mcpVars, applyVars, countVars, Goto, Current, TypeOK
<1>1. CASE Reads(a)
  BY <1>1 DEF Reads, Apply, TruncateMCP, WriteMCP, CheckSkill, Continue, ApplyReturns
<1>2. CASE Mkdir(a) \/ Create(a)
  BY <1>2, SMTT(60) DEF Mkdir, Create
<1>3. CASE a # b /\ (Write(a) \/ InstallFails(a))
  BY <1>3 DEF Write, InstallFails, Continue
<1> QED BY <1>1, <1>2, <1>3

LEMMA CurrentIsName ==
  ASSUME TypeOK, NEW a \in Agents, pc[a] \in Installing PROVE Current(a) \in Names
BY SkillAt DEF TypeOK, Current

LEMMA EmptyStep ==
  ASSUME TypeOK, EmptyExplained, [Next]_vars,
         NEW n \in Names, NEW p \in Places, skill'[n][p] = "Empty"
  PROVE  n \in cut' \/ \E b \in Agents : Writes(b, n, p)'
<1> DEFINE Goal == n \in cut' \/ \E b \in Agents : Writes(b, n, p)'
<1>1. skill[n][p] = "Empty" => n \in cut \/ \E b \in Agents : Writes(b, n, p)
  BY DEF EmptyExplained
(* What was empty and whose writer, if any, goes on.                       *)
<1>2. ASSUME skill[n][p] = "Empty", cut \subseteq cut',
             \A b \in Agents : Writes(b, n, p) => Writes(b, n, p)' \/ n \in cut'
      PROVE  Goal
  BY <1>1, <1>2
<1>3. ASSUME NEW a \in Agents, Reads(a) PROVE Goal
  <2>1. skill' = skill /\ cut' = cut
    BY <1>3 DEF Reads, Apply, TruncateMCP, WriteMCP, CheckSkill, ApplyReturns
  <2> QED BY <1>2, <1>3, <2>1, OthersWrite DEF Writes
<1>4. ASSUME NEW a \in Agents, Mkdir(a) PROVE Goal
  <2>1. Current(a) \in Names /\ cut' = cut
    BY <1>4, CurrentIsName DEF Mkdir, Installing
  <2>2. skill[n][p] = "Empty"
    BY <1>4, <2>1 DEF Mkdir, TypeOK
  <2> QED BY <1>2, <1>4, <2>1, <2>2, OthersWrite DEF Writes
<1>5. ASSUME NEW a \in Agents, Create(a) PROVE Goal
  <2>1. Current(a) \in Names /\ cut' = cut
    BY <1>5, CurrentIsName DEF Create, Installing
  <2>2. CASE n = Current(a) /\ p = "active"
    BY <1>5, <2>2 DEF Create, Goto, Writes, Current, TypeOK
  <2>3. CASE ~(n = Current(a) /\ p = "active")
    <3>1. skill[n][p] = "Empty"
      BY <1>5, <2>1, <2>3 DEF Create, TypeOK
    <3> QED BY <1>2, <1>5, <2>1, <3>1, OthersWrite DEF Writes
  <2> QED BY <2>2, <2>3
<1>6. ASSUME NEW a \in Agents, Write(a) PROVE Goal
  <2>1. Current(a) \in Names /\ fd[a] \in Places /\ cut' = cut
    BY <1>6, CurrentIsName DEF Write, Installing, TypeOK
  <2>2. PICK c : c # "Empty" /\ skill' = [skill EXCEPT ![Current(a)][fd[a]] = c]
    <3>1. Content[a][Current(a)] # "Empty"
      BY <2>1, ExtensionsAssumption DEF Whole
    <3> QED BY <1>6, <3>1 DEF Write
  <2>3. ~(n = Current(a) /\ p = fd[a])
    BY <2>1, <2>2 DEF TypeOK
  <2>4. skill[n][p] = "Empty"
    BY <2>1, <2>2, <2>3 DEF TypeOK
  <2>5. ~Writes(a, n, p)
    BY <2>3 DEF Writes
  <2> QED BY <1>2, <1>6, <2>1, <2>4, <2>5, OthersWrite DEF Writes
<1>7. ASSUME NEW a \in Agents, InstallFails(a) PROVE Goal
  <2>1. skill' = skill /\ cut \subseteq cut'
    BY <1>7 DEF InstallFails
  <2>2. Writes(a, n, p) => n \in cut'
    BY <1>7 DEF InstallFails, Writes
  <2> QED BY <1>2, <1>7, <2>1, <2>2, OthersWrite DEF Writes
<1>8. CASE Die
  <2>1. skill' = skill /\ cut \subseteq cut' /\ \A b \in Agents : Writes(b, n, p) => n \in cut'
    BY <1>8 DEF Die, Writes
  <2> QED BY <1>2, <2>1
<1>9. ASSUME NEW m \in Names, NEW from \in Places, NEW to \in Places, Rename(m, from, to)
      PROVE  Goal
  <2>1. /\ skill[m][from] # "Absent" /\ skill[m][to] = "Absent"
        /\ skill' = [skill EXCEPT ![m][to] = skill[m][from], ![m][from] = "Absent"]
        /\ UNCHANGED <<pc, at, cut>>
        /\ \A b \in Agents : fd'[b] = IF pc[b] = "write" /\ Current(b) = m /\ fd[b] = from
                                      THEN to ELSE fd[b]
    BY <1>9 DEF Rename, applyVars
  <2>2. \A b \in Agents : Current(b)' = Current(b)
    BY <2>1 DEF Current
  <2>3. CASE n = m /\ p = to
    <3>1. skill[m][from] = "Empty"
      BY <2>1, <2>3 DEF TypeOK
    <3>2. m \in cut \/ \E b \in Agents : Writes(b, m, from)
      BY <3>1 DEF EmptyExplained
    <3> QED BY <2>1, <2>2, <2>3, <3>2 DEF Writes
  <2>4. CASE ~(n = m /\ p = to)
    <3>1. skill[n][p] = "Empty" /\ ~(n = m /\ p = from)
      BY <2>1, <2>4 DEF TypeOK
    <3> QED BY <1>2, <2>1, <2>2, <3>1 DEF Writes
  <2> QED BY <2>3, <2>4
<1>10. ASSUME NEW m \in Names, Moves(m) PROVE Goal
  BY <1>9, <1>10, MovesRename
<1>11. CASE UNCHANGED vars
  BY <1>2, <1>11 DEF vars, applyVars, Writes, Current
<1> QED BY <1>3, <1>4, <1>5, <1>6, <1>7, <1>8, <1>10, <1>11 DEF Next, Reads, Moves

LEMMA WritesActiveStep ==
  ASSUME TypeOK, WritesActive, [Next]_vars, NEW a \in Agents, pc'[a] = "write"
  PROVE  fd'[a] = "active" \/ Current(a)' \in excused'[a]
<1> DEFINE Goal == fd'[a] = "active" \/ Current(a)' \in excused'[a]
<1> USE DEF mcpVars, applyVars, countVars
<1>1. ASSUME pc[a] = "write", fd'[a] = fd[a], Current(a)' = Current(a),
             excused[a] \subseteq excused'[a]
      PROVE  Goal
  BY <1>1 DEF WritesActive
<1>2. ASSUME NEW b \in Agents, b # a,
             Reads(b) \/ Mkdir(b) \/ Create(b) \/ Write(b) \/ InstallFails(b)
      PROVE  Goal
  <2>1. pc[a] = "write"
    BY <1>2 DEF Reads, Apply, TruncateMCP, WriteMCP, CheckSkill, Continue, ApplyReturns,
       Mkdir, Create, Write, InstallFails, Goto, TypeOK
  <2>2. excused'[a] = excused[a]
    BY <1>2 DEF Reads, Apply, TruncateMCP, WriteMCP, CheckSkill, Continue, ApplyReturns,
       Mkdir, Create, Write, InstallFails, TypeOK
  <2> QED BY <1>1, <1>2, <2>1, <2>2, OthersWrite
<1>3. CASE Reads(a) \/ Mkdir(a) \/ Write(a) \/ InstallFails(a)
  BY <1>3 DEF Reads, Apply, TruncateMCP, WriteMCP, CheckSkill, Continue, ApplyReturns,
     Mkdir, Write, InstallFails, Goto, TypeOK
<1>4. CASE Create(a)
  BY <1>4 DEF Create, TypeOK
<1>5. CASE Die
  BY <1>5 DEF Die
<1>6. ASSUME NEW n \in Names, Moves(n) PROVE Goal
  <2>1. PICK from \in Places, to \in Places :
          /\ Rename(n, from, to)
          /\ IF from = "active" THEN MovedAway(n) ELSE to = "active" /\ UNCHANGED excused
    BY <1>6, MovesRename
  <2>2. /\ pc[a] = "write" /\ Current(a)' = Current(a)
        /\ fd'[a] = IF Current(a) = n /\ fd[a] = from THEN to ELSE fd[a]
    BY <2>1 DEF Rename, Current
  <2>3. excused[a] \subseteq excused'[a] /\ (from = "active" => n \in excused'[a])
    BY <2>1 DEF MovedAway
  <2> QED BY <1>1, <2>1, <2>2, <2>3
<1>7. CASE UNCHANGED vars
  BY <1>1, <1>7 DEF vars, Current
<1> QED BY <1>2, <1>3, <1>4, <1>5, <1>6, <1>7 DEF Next, Reads, Moves

(* A SKILL.md in its place stays there, unless it is moved away.           *)
LEMMA FileStays ==
  ASSUME TypeOK, [Next]_vars, NEW n \in Names, HasFile(n)
  PROVE  HasFile(n)' \/ \A a \in Agents : n \in excused'[a]
<1> USE DEF HasFile
<1>0. "active" \in Places
  BY DEF Places
<1>1. ASSUME skill' = skill PROVE HasFile(n)'
  BY <1>1
<1>2. ASSUME NEW a \in Agents, Reads(a) \/ InstallFails(a) PROVE HasFile(n)'
  BY <1>1, <1>2
     DEF Reads, Apply, TruncateMCP, WriteMCP, CheckSkill, ApplyReturns, InstallFails
<1>3. ASSUME NEW a \in Agents, Mkdir(a) \/ Create(a) PROVE HasFile(n)'
  <2>1. Current(a) \in Names
    BY <1>3, CurrentIsName DEF Mkdir, Create, Installing
  <2>2. CASE Mkdir(a)
    BY <1>0, <2>1, <2>2 DEF Mkdir, TypeOK
  <2>3. CASE Create(a)
    <3>1. skill'[n]["active"] \in {skill[n]["active"], "Empty"}
      BY <1>0, <2>1, <2>3 DEF Create, TypeOK
    <3> QED BY <3>1
  <2> QED BY <1>3, <2>2, <2>3
<1>4. ASSUME NEW a \in Agents, Write(a) PROVE HasFile(n)'
  <2>1. Current(a) \in Names /\ fd[a] \in Places
    BY <1>4, CurrentIsName DEF Write, Installing, TypeOK
  <2>2. Content[a][Current(a)] \notin {"Absent", "Bare"}
    BY <2>1, ExtensionsAssumption DEF Whole
  <2>3. PICK c : c \notin {"Absent", "Bare"} /\ skill' = [skill EXCEPT ![Current(a)][fd[a]] = c]
    BY <1>4, <2>2 DEF Write
  <2> QED BY <1>0, <2>1, <2>3 DEF TypeOK
<1>5. ASSUME NEW m \in Names, Moves(m)
      PROVE  HasFile(n)' \/ \A a \in Agents : n \in excused'[a]
  <2>1. PICK from \in Places, to \in Places :
          /\ Rename(m, from, to)
          /\ IF from = "active" THEN MovedAway(m) ELSE to = "active" /\ UNCHANGED excused
    BY <1>5, MovesRename
  <2>2. /\ skill[m][from] # "Absent" /\ skill[m][to] = "Absent"
        /\ skill' = [skill EXCEPT ![m][to] = skill[m][from], ![m][from] = "Absent"]
    BY <2>1 DEF Rename
  <2>3. CASE n = m /\ from = "active"
    BY <2>1, <2>3 DEF MovedAway
  <2>4. CASE ~(n = m /\ from = "active")
    <3>1. skill'[n]["active"] = skill[n]["active"]
      BY <1>0, <2>2, <2>4 DEF TypeOK
    <3> QED BY <3>1
  <2> QED BY <2>3, <2>4
<1>6. CASE Die \/ UNCHANGED vars
  BY <1>1, <1>6 DEF Die, vars
<1> QED BY <1>2, <1>3, <1>4, <1>5, <1>6 DEF Next, Reads, Moves

LEMMA StartStep == TypeOK /\ StartsAtFirst /\ [Next]_vars => StartsAtFirst'
<1> SUFFICES ASSUME TypeOK, StartsAtFirst, [Next]_vars,
                    NEW a \in Agents, pc'[a] \in {"mcp", "mcpWrite"}
             PROVE  at'[a] = 1
  BY DEF StartsAtFirst
<1> USE DEF applyVars, mcpVars, Goto, TypeOK, StartsAtFirst
<1>1. ASSUME NEW b \in Agents, Apply(b) \/ TruncateMCP(b) PROVE at'[a] = 1
  BY <1>1 DEF Apply, TruncateMCP
<1>2. ASSUME NEW b \in Agents, WriteMCP(b) \/ CheckSkill(b) \/ ApplyReturns(b) PROVE at'[a] = 1
  BY <1>2 DEF WriteMCP, CheckSkill, Continue, ApplyReturns
<1>3. ASSUME NEW b \in Agents, Mkdir(b) \/ Create(b) \/ Write(b) \/ InstallFails(b)
      PROVE  at'[a] = 1
  BY <1>3 DEF Mkdir, Create, Write, InstallFails, Continue
<1>4. CASE Die
  BY <1>4 DEF Die
<1>5. ASSUME NEW n \in Names, Moves(n) PROVE at'[a] = 1
  BY <1>5, MovesRename DEF Rename
<1>6. CASE UNCHANGED vars
  BY <1>6 DEF vars
<1> QED BY <1>1, <1>2, <1>3, <1>4, <1>5, <1>6 DEF Next, Moves

LEMMA PassedStep ==
  /\ TypeOK /\ TypeOK' /\ WritesActive /\ StartsAtFirst /\ PassedIsThere /\ [Next]_vars
  => PassedIsThere'
<1> SUFFICES ASSUME TypeOK, TypeOK', WritesActive, StartsAtFirst, PassedIsThere, [Next]_vars,
                    NEW a \in Agents, pc'[a] \in {"check"} \cup Installing
             PROVE  /\ mcp'[a] = servers'[a]
                    /\ \A i \in 1..(at'[a] - 1) :
                         HasFile(Skills[a][i])' \/ Skills[a][i] \in excused'[a]
  BY DEF PassedIsThere
<1> DEFINE There(i) == HasFile(Skills[a][i])' \/ Skills[a][i] \in excused'[a]
           Goal == mcp'[a] = servers'[a] /\ \A i \in 1..(at'[a] - 1) : There(i)
<1> USE DEF applyVars, mcpVars, Goto
<1>0. at[a] \in Nat \ {0} /\ at'[a] \in Nat \ {0} /\ Len(Skills[a]) \in Nat
      /\ at[a] <= Len(Skills[a]) + 1
  BY ExtensionsAssumption, LenProperties DEF TypeOK
<1>k. PICK k \in Nat : k = at[a]
  BY <1>0
(* What was passed before the step.                                        *)
<1>1. ASSUME pc[a] \in {"check"} \cup Installing, excused[a] \subseteq excused'[a],
             NEW i \in 1..(at[a] - 1)
      PROVE  There(i)
  <2>1. Skills[a][i] \in Names
    BY <1>0, SkillAt
  <2>2. HasFile(Skills[a][i]) \/ Skills[a][i] \in excused[a]
    BY <1>1 DEF PassedIsThere
  <2> QED BY <1>1, <2>1, <2>2, FileStays
<1>2. ASSUME pc[a] \in {"check"} \cup Installing, excused[a] \subseteq excused'[a],
             UNCHANGED <<at[a], mcp[a], servers[a]>>
      PROVE  Goal
  BY <1>1, <1>2 DEF PassedIsThere
<1>3. ASSUME pc[a] \in {"check"} \cup Installing, excused[a] \subseteq excused'[a],
             UNCHANGED <<mcp[a], servers[a]>>, at'[a] = at[a] + 1,
             NEW m \in Nat, m = at[a], There(m)
      PROVE  Goal
  <2>1. \A i \in 1..(at'[a] - 1) : i \in 1..(at[a] - 1) \/ i = m
    BY <1>0, <1>3
  <2> QED BY <1>1, <1>3, <2>1 DEF PassedIsThere
<1>4. ASSUME NEW b \in Agents, b # a,
             Reads(b) \/ Mkdir(b) \/ Create(b) \/ Write(b) \/ InstallFails(b)
      PROVE  Goal
  <2>1. UNCHANGED <<pc[a], at[a], mcp[a], servers[a], excused[a]>>
    BY <1>4, SMTT(60) DEF Reads, Apply, TruncateMCP, WriteMCP, CheckSkill, Continue, ApplyReturns,
       Mkdir, Create, Write, InstallFails, TypeOK
  <2> QED BY <1>2, <2>1
<1>5. CASE Apply(a) \/ TruncateMCP(a) \/ ApplyReturns(a)
  BY <1>5 DEF Apply, TruncateMCP, ApplyReturns, TypeOK, Installing
<1>6. CASE WriteMCP(a)
  <2>1. at'[a] = 1 /\ mcp'[a] = servers'[a]
    BY <1>6 DEF WriteMCP, StartsAtFirst, TypeOK, Installing
  <2> QED BY <2>1
<1>7. CASE CheckSkill(a)
  <2>1. /\ pc[a] = "check" /\ UNCHANGED <<skill, mcp, servers, excused>>
    BY <1>7 DEF CheckSkill
  <2>2. CASE IsInstalled(Current(a))
    <3>1. at'[a] = at[a] + 1
      BY <1>7, <2>2 DEF CheckSkill, Continue, TypeOK
    <3>2. There(k)
      BY <1>k, <2>1, <2>2 DEF IsInstalled, HasFile, Current
    <3> QED BY <1>3, <1>k, <2>1, <3>1, <3>2
  <2>3. CASE ~IsInstalled(Current(a))
    <3>1. at' = at
      BY <1>7, <2>3 DEF CheckSkill
    <3> QED BY <1>2, <2>1, <3>1
  <2> QED BY <2>2, <2>3
<1>8. CASE Mkdir(a) \/ Create(a)
  BY <1>2, <1>8 DEF Mkdir, Create, Installing
<1>9. CASE Write(a)
  <2>1. /\ pc[a] = "write" /\ UNCHANGED <<mcp, servers, excused>> /\ at'[a] = at[a] + 1
    BY <1>9 DEF Write, Continue, TypeOK
  <2>2. Current(a) \in Names
    BY <2>1, CurrentIsName DEF Installing
  <2>3. fd[a] = "active" \/ Current(a) \in excused[a]
    BY <2>1 DEF WritesActive
  <2>4. CASE fd[a] = "active"
    <3>1. Content[a][Current(a)] \notin {"Absent", "Bare"} /\ "active" \in Places
      BY <2>2, ExtensionsAssumption DEF Whole, Places
    <3>2. PICK c : c \notin {"Absent", "Bare"} /\ skill' = [skill EXCEPT ![Current(a)]["active"] = c]
      BY <1>9, <2>4, <3>1 DEF Write
    <3>3. skill'[Skills[a][k]]["active"] = c
      BY <1>k, <2>2, <3>1, <3>2 DEF Current, TypeOK
    <3>4. There(k)
      BY <3>2, <3>3 DEF HasFile
    <3> QED BY <1>3, <1>k, <2>1, <3>4 DEF Installing
  <2>5. CASE Current(a) \in excused[a]
    <3>1. There(k)
      BY <1>k, <2>1, <2>5 DEF Current
    <3> QED BY <1>3, <1>k, <2>1, <3>1 DEF Installing
  <2> QED BY <2>3, <2>4, <2>5
<1>10. CASE InstallFails(a)
  <2>1. /\ pc[a] \in Installing /\ UNCHANGED <<mcp, servers>> /\ at'[a] = at[a] + 1
        /\ excused'[a] = excused[a] \cup {Current(a)}
    BY <1>10 DEF InstallFails, Continue, TypeOK
  <2>2. There(k)
    BY <1>k, <2>1 DEF Current
  <2> QED BY <1>3, <1>k, <2>1, <2>2
<1>11. CASE Die
  BY <1>11 DEF Die, Installing
<1>12. ASSUME NEW n \in Names, Moves(n) PROVE Goal
  <2>1. UNCHANGED <<pc, at, mcp, servers>>
    BY <1>12, MovesRename DEF Rename
  <2>2. excused[a] \subseteq excused'[a]
    BY <1>12, MovesRename DEF MovedAway
  <2> QED BY <1>2, <2>1, <2>2
<1>13. CASE UNCHANGED vars
  BY <1>2, <1>13 DEF vars
<1> QED BY <1>4, <1>5, <1>6, <1>7, <1>8, <1>9, <1>10, <1>11, <1>12, <1>13
        DEF Next, Reads, Moves

AppliedInv == EmptyExplained /\ WritesActive /\ StartsAtFirst /\ PassedIsThere

LEMMA AppliedInvariant == Spec => []AppliedInv
<1>1. Init => AppliedInv
  BY DEF Init, AppliedInv, EmptyExplained, WritesActive, StartsAtFirst, PassedIsThere, Installing
<1>2. TypeOK /\ TypeOK' /\ AppliedInv /\ [Next]_vars => AppliedInv'
  <2> SUFFICES ASSUME TypeOK, TypeOK', AppliedInv, [Next]_vars PROVE AppliedInv'
    OBVIOUS
  <2>0. EmptyExplained /\ WritesActive /\ StartsAtFirst /\ PassedIsThere
    BY DEF AppliedInv
  <2>1. EmptyExplained'
    BY <2>0, EmptyStep DEF EmptyExplained
  <2>2. WritesActive'
    BY <2>0, WritesActiveStep DEF WritesActive
  <2>3. StartsAtFirst' /\ PassedIsThere'
    BY <2>0, StartStep, PassedStep
  <2> QED BY <2>1, <2>2, <2>3 DEF AppliedInv
<1> QED BY <1>1, <1>2, TypeCorrect, PTL DEF Spec

(* The skill n as AppliedIsThere has it for the agent a.                   *)
Explained(a, n) ==
  \/ Listed(n)
  \/ n \in excused[a]
  \/ /\ skill[n]["active"] = "Empty"
     /\ n \in cut \/ \E b \in Agents : pc[b] = "write" /\ Current(b) = n

(* What Apply has passed is there: the servers in the MCP file, and every  *)
(* skill, unless it was moved away, warned of, or cut off half-written.    *)
THEOREM AppliedStays == Spec => []AppliedIsThere
<1>1. TypeOK /\ AppliedInv => AppliedIsThere
  <2> SUFFICES ASSUME TypeOK, AppliedInv, NEW a \in Agents,
                      pc[a] \in {"check"} \cup Installing
               PROVE  /\ mcp[a] = servers[a]
                      /\ \A i \in 1..(at[a] - 1) : Explained(a, Skills[a][i])
    BY DEF AppliedIsThere, Explained
  <2>0. /\ mcp[a] = servers[a]
        /\ \A i \in 1..(at[a] - 1) : HasFile(Skills[a][i]) \/ Skills[a][i] \in excused[a]
    BY DEF AppliedInv, PassedIsThere
  <2> SUFFICES ASSUME NEW i \in 1..(at[a] - 1) PROVE Explained(a, Skills[a][i])
    BY <2>0
  <2>1. PICK n : n = Skills[a][i]
    OBVIOUS
  <2>2. n \in Names
    <3>1. at[a] \in Nat /\ at[a] <= Len(Skills[a]) + 1 /\ Len(Skills[a]) \in Nat
      BY ExtensionsAssumption, LenProperties DEF TypeOK
    <3> QED BY <2>1, <3>1, SkillAt
  <2>3. HasFile(n) \/ n \in excused[a]
    BY <2>0, <2>1
  <2>4. skill[n]["active"] \in Copies
    BY <2>2 DEF TypeOK, Places
  <2>5. skill[n]["active"] = "Empty" => n \in cut \/ \E b \in Agents : Writes(b, n, "active")
    BY <2>2 DEF AppliedInv, EmptyExplained, Places
  <2> QED BY <2>1, <2>3, <2>4, <2>5 DEF HasFile, Listed, Copies, Writes, Explained
<1> QED BY <1>1, AppliedInvariant, TypeCorrect, PTL
=============================================================================
