----------------------------- MODULE Extensions -----------------------------
(***************************************************************************)
(* internal/extensions: the MCP file of each agent, and the skills in one  *)
(* directory (~/.claude/skills) that all agents share.                     *)
(*                                                                         *)
(* Every agent applies its own configuration when it is spawned            *)
(* (ADR-0009), and anyone may disable, enable or archive a skill. Nothing  *)
(* is locked: each call of the file system is a step, it may fail, and the *)
(* process may die between two of them.                                    *)
(*                                                                         *)
(* A skill may be in three places, <name>, .disabled-<name> and            *)
(* .archived/<name>. In each of them there is no directory (Absent), one   *)
(* without SKILL.md (Bare), or one with a SKILL.md that is Empty, whole,   *)
(* or Mixed: written over a longer one.                                    *)
(***************************************************************************)
EXTENDS Naturals, Sequences

CONSTANTS
  Agents,
  Skills,       (* Skills[a]: the names in cfg.Skills of agent a, in order *)
  Content,      (* Content[a][n]: what agent a has for the skill n         *)
  Servers,      (* Servers[a]: cfg.MCPServers, or None                     *)
  None,
  MaxApplies, MaxMoves, MaxDeaths    (* bounds of the model                *)

Names == UNION {{Skills[a][i] : i \in 1..Len(Skills[a])} : a \in Agents}
Whole == UNION {{Content[a][n] : n \in Names} : a \in Agents}
Places == {"active", "disabled", "archived"}
Copies == Whole \cup {"Absent", "Bare", "Empty", "Mixed"}
Files == {"Empty"} \cup {None} \cup {Servers[a] : a \in Agents}

ASSUME ExtensionsAssumption ==
  /\ \A a \in Agents : Skills[a] \in Seq(Names)
  /\ Whole \cap {"Absent", "Bare", "Empty", "Mixed"} = {}
  /\ "Empty" \notin {None} \cup {Servers[a] : a \in Agents}
  /\ MaxApplies \in Nat /\ MaxMoves \in Nat /\ MaxDeaths \in Nat

VARIABLES
  skill,     (* skill[n][p]: what is in place p of skill n                 *)
  mcp,       (* mcp[a]: the file at mcpConfigPath; None has no servers     *)
  servers,   (* servers[a]: Manager.servers, None while it is empty        *)
  pc,        (* pc[a]: the next step of Apply                              *)
  at,        (* at[a]: its position in cfg.Skills                          *)
  fd,        (* fd[a]: the place of the SKILL.md that it has open          *)
  existed,   (* history: existed[a]: the SKILL.md was there at the check   *)
  excused,   (* history: excused[a]: the skills that this Apply warned of, *)
             (* or that were moved away since it began                     *)
  cut,       (* history: the skills with a SKILL.md that was not completed *)
  applies, moves, deaths

mcpVars == <<mcp, servers>>
applyVars == <<mcpVars, pc, at, existed>>
countVars == <<applies, moves, deaths>>
vars == <<skill, applyVars, fd, excused, cut, countVars>>

Installing == {"mkdir", "create", "write"}
PCs == {"idle", "mcp", "mcpWrite", "check"} \cup Installing

TypeOK ==
  /\ skill \in [Names -> [Places -> Copies]]
  /\ mcp \in [Agents -> Files] /\ servers \in [Agents -> Files \ {"Empty"}]
  /\ pc \in [Agents -> PCs]
  /\ at \in [Agents -> Nat \ {0}]
  /\ \A a \in Agents : /\ at[a] <= Len(Skills[a]) + 1
                       /\ pc[a] \in Installing => at[a] <= Len(Skills[a])
  /\ fd \in [Agents -> Places]
  /\ existed \in [Agents -> BOOLEAN]
  /\ excused \in [Agents -> SUBSET Names] /\ cut \subseteq Names
  /\ applies \in 0..MaxApplies /\ moves \in 0..MaxMoves /\ deaths \in 0..MaxDeaths

Init ==
  /\ skill = [n \in Names |-> [p \in Places |-> "Absent"]]
  /\ mcp = [a \in Agents |-> None] /\ servers = [a \in Agents |-> None]
  /\ pc = [a \in Agents |-> "idle"]
  /\ at = [a \in Agents |-> 1]
  /\ fd = [a \in Agents |-> "active"]
  /\ existed = [a \in Agents |-> FALSE]
  /\ excused = [a \in Agents |-> {}] /\ cut = {}
  /\ applies = 0 /\ moves = 0 /\ deaths = 0

-----------------------------------------------------------------------------
Goto(a, p) == pc' = [pc EXCEPT ![a] = p]
Current(a) == Skills[a][at[a]]

(* Apply begins; the servers of an earlier configuration are kept when     *)
(* this one names none.                                                    *)
Apply(a) ==
  /\ pc[a] = "idle"
  /\ applies < MaxApplies
  /\ applies' = applies + 1
  /\ servers' = IF Servers[a] = None THEN servers ELSE [servers EXCEPT ![a] = Servers[a]]
  /\ at' = [at EXCEPT ![a] = 1]
  /\ excused' = [excused EXCEPT ![a] = {}]
  /\ Goto(a, "mcp")
  /\ UNCHANGED <<skill, mcp, fd, existed, cut, moves, deaths>>

(* WriteMCPConfig: os.WriteFile truncates the file and then writes it; its *)
(* error ends Apply.                                                       *)
TruncateMCP(a) ==
  /\ pc[a] = "mcp"
  /\ \/ Goto(a, "mcpWrite") /\ mcp' = [mcp EXCEPT ![a] = "Empty"]
     \/ Goto(a, "idle") /\ UNCHANGED mcp
  /\ UNCHANGED <<skill, servers, at, fd, existed, excused, cut, countVars>>

WriteMCP(a) ==
  /\ pc[a] = "mcpWrite"
  /\ \/ Goto(a, "check") /\ mcp' = [mcp EXCEPT ![a] = servers[a]]
     \/ Goto(a, "idle") /\ UNCHANGED mcp
  /\ UNCHANGED <<skill, servers, at, fd, existed, excused, cut, countVars>>

HasFile(n) == skill[n]["active"] \notin {"Absent", "Bare"}

(* Mutant: asks for the directory.                                         *)
HasDirectory(n) == skill[n]["active"] # "Absent"

(* Mutant: installs again what is there.                                   *)
NeverInstalled(n) == FALSE

IsInstalled(n) == HasFile(n)

Continue(a) == at' = [at EXCEPT ![a] = @ + 1] /\ Goto(a, "check")

(* The loop over cfg.Skills.                                               *)
CheckSkill(a) ==
  /\ pc[a] = "check"
  /\ at[a] <= Len(Skills[a])
  /\ existed' = [existed EXCEPT ![a] = HasFile(Current(a))]
  /\ IF IsInstalled(Current(a)) THEN Continue(a) ELSE Goto(a, "mkdir") /\ UNCHANGED at
  /\ UNCHANGED <<skill, mcpVars, fd, excused, cut, countVars>>

ApplyReturns(a) ==
  /\ pc[a] = "check"
  /\ at[a] > Len(Skills[a])
  /\ Goto(a, "idle")
  /\ UNCHANGED <<skill, mcpVars, at, fd, existed, excused, cut, countVars>>

-----------------------------------------------------------------------------
(* Install.                                                                *)
Mkdir(a) ==
  LET n == Current(a) IN
  /\ pc[a] = "mkdir"
  /\ skill' = IF skill[n]["active"] = "Absent"
              THEN [skill EXCEPT ![n]["active"] = "Bare"] ELSE skill
  /\ Goto(a, "create")
  /\ UNCHANGED <<mcpVars, at, fd, existed, excused, cut, countVars>>

(* os.WriteFile, which needs the directory. The open file moves with it.   *)
Create(a) ==
  LET n == Current(a) IN
  /\ pc[a] = "create"
  /\ skill[n]["active"] # "Absent"
  /\ skill' = [skill EXCEPT ![n]["active"] = "Empty"]
  /\ fd' = [fd EXCEPT ![a] = "active"]
  /\ Goto(a, "write")
  /\ UNCHANGED <<mcpVars, at, existed, excused, cut, countVars>>

Write(a) ==
  LET n == Current(a) IN
  /\ pc[a] = "write"
  /\ \E c \in {Content[a][n]} \cup (IF skill[n][fd[a]] = "Empty" THEN {} ELSE {"Mixed"}) :
       skill' = [skill EXCEPT ![n][fd[a]] = c]
  /\ Continue(a)
  /\ UNCHANGED <<mcpVars, fd, existed, excused, cut, countVars>>

(* Any of the three may fail: Apply warns and goes on.                     *)
InstallFails(a) ==
  /\ pc[a] \in Installing
  /\ cut' = IF pc[a] = "write" THEN cut \cup {Current(a)} ELSE cut
  /\ excused' = [excused EXCEPT ![a] = @ \cup {Current(a)}]
  /\ Continue(a)
  /\ UNCHANGED <<skill, mcpVars, fd, existed, countVars>>

Die ==
  /\ deaths < MaxDeaths
  /\ deaths' = deaths + 1
  /\ pc' = [a \in Agents |-> "idle"]
  /\ servers' = [a \in Agents |-> None]
  /\ cut' = cut \cup {Current(a) : a \in {b \in Agents : pc[b] = "write"}}
  /\ UNCHANGED <<skill, mcp, at, fd, existed, excused, applies, moves>>

-----------------------------------------------------------------------------
(* os.Rename wants a directory to move, and none where it goes.            *)
Rename(n, from, to) ==
  /\ moves < MaxMoves
  /\ moves' = moves + 1
  /\ skill[n][from] # "Absent" /\ skill[n][to] = "Absent"
  /\ skill' = [skill EXCEPT ![n][to] = skill[n][from], ![n][from] = "Absent"]
  /\ fd' = [a \in Agents |->
              IF pc[a] = "write" /\ Current(a) = n /\ fd[a] = from THEN to ELSE fd[a]]
  /\ UNCHANGED <<applyVars, cut, applies, deaths>>

MovedAway(n) == excused' = [a \in Agents |-> excused[a] \cup {n}]

Disable(n) == Rename(n, "active", "disabled") /\ MovedAway(n)
Enable(n)  == Rename(n, "disabled", "active") /\ UNCHANGED excused
Archive(n) == Rename(n, "active", "archived") /\ MovedAway(n)

-----------------------------------------------------------------------------
Next ==
  \/ \E a \in Agents :
       \/ Apply(a) \/ TruncateMCP(a) \/ WriteMCP(a) \/ CheckSkill(a)
       \/ ApplyReturns(a) \/ Mkdir(a) \/ Create(a) \/ Write(a) \/ InstallFails(a)
  \/ Die
  \/ \E n \in Names : Disable(n) \/ Enable(n) \/ Archive(n)

Spec == Init /\ [][Next]_vars

-----------------------------------------------------------------------------
(* "Disable/archive without uninstalling (reversible)" (ADR-0009:48), and  *)
(* Apply leaves what is installed alone (manager.go:43): a whole SKILL.md  *)
(* only ever changes its place, unless an Apply that saw none at its check *)
(* writes over one that another agent or Enable put there meanwhile.       *)
CopiesKept ==
  [][\A n \in Names, p \in Places :
       skill[n][p] \in Whole =>
         \/ \E q \in Places : skill'[n][q] = skill[n][p]
         \/ \E a \in Agents : /\ pc[a] \in {"create", "write"} /\ pc'[a] # pc[a]
                              /\ Current(a) = n /\ ~existed[a]]_vars

(* List shows a skill whose header it can read.                            *)
Listed(n) == skill[n]["active"] \in Whole \cup {"Mixed"}

(* "Apply installs MCP servers and skills from config" (manager.go:32):    *)
(* past the MCP file and past each skill, also after an Apply that died    *)
(* half-way, the file has the servers and the skill can be listed, unless  *)
(* it was moved away or Apply warned. The exception: an Install that ended *)
(* between the creation and the text leaves an empty SKILL.md, which every *)
(* later Apply takes for installed (skills.go:120).                        *)
AppliedIsThere ==
  \A a \in Agents :
    pc[a] \in {"check"} \cup Installing =>
      /\ mcp[a] = servers[a]
      /\ \A i \in 1..(at[a] - 1) :
           LET n == Skills[a][i] IN
           \/ Listed(n)
           \/ n \in excused[a]
           \/ /\ skill[n]["active"] = "Empty"
              /\ n \in cut \/ \E b \in Agents : pc[b] = "write" /\ Current(b) = n
=============================================================================
