----------------------------- MODULE Pool_proofs -----------------------------
(***************************************************************************)
(* Proofs about Pool, for all names, any number of callers and of agents:  *)
(* types, and the five invariants about who holds which agent and inbox,   *)
(* from PoolInv. Most of its parts concern pairs of threads, so that the   *)
(* proofs ask which step could have caused a change (MapBefore and the     *)
(* lemmas beside it) rather than what each action does.                    *)
(***************************************************************************)
EXTENDS Pool, TLAPS

Held == StopSteps \cup UseSteps \cup {"subscribe", "insert"}

(* The part of TypeOK that says where a call is and what it holds.         *)
CallsOK ==
  /\ step \in [Threads -> Steps]
  /\ name \in [Threads -> Names]
  /\ agent \in [Threads -> Agents \cup {None}]
  /\ \A t \in Threads : agent[t] # None <=> step[t] \in Held

LEMMA Constants ==
  /\ DefaultName \in Names /\ main \in Threads /\ Callers \subseteq Threads
  /\ 1 \in Agents /\ None \notin Agents /\ Agents \subseteq Nat
BY PoolAssumption DEF Threads, Agents, None

LEMMA CallsNow == TypeOK => CallsOK
BY DEF TypeOK, CallsOK, Held

LEMMA ReturnOK ==
  ASSUME CallsOK, NEW t \in Threads, Return(t) PROVE CallsOK'
BY Constants DEF CallsOK, Return, Held, Steps, SpawnSteps, StopSteps, UseSteps

(* A call goes to a step at which it holds an agent.                       *)
LEMMA HoldOK ==
  ASSUME CallsOK, NEW t \in Threads, NEW n \in Names, NEW a \in Agents, NEW s \in Held,
         step' = [step EXCEPT ![t] = s], name' = [name EXCEPT ![t] = n],
         agent' = [agent EXCEPT ![t] = a]
  PROVE  CallsOK'
BY Constants DEF CallsOK, Held, Steps, SpawnSteps, StopSteps, UseSteps

(* A call goes from one step to another and holds what it held.            *)
LEMMA KeepOK ==
  ASSUME CallsOK, NEW t \in Threads, NEW s \in Steps, step[t] \in Held <=> s \in Held,
         step' = [step EXCEPT ![t] = s], UNCHANGED <<name, agent>>
  PROVE  CallsOK'
BY DEF CallsOK

LEMMA ClashOK ==
  ASSUME twice \subseteq Names, mixed \subseteq Names, NEW t, NEW n \in Names,
         NEW a, NEW b, Clash(t, n, a, b)
  PROVE  twice' \subseteq Names /\ mixed' \subseteq Names
BY DEF Clash

LEMMA StopDeleteOK ==
  ASSUME TypeOK, NEW t \in Threads, NEW n \in Names, StopDelete(t, n),
         UNCHANGED <<ctxDone, inFlight>>, toStop' \subseteq Names
  PROVE  TypeOK'
<1>1. agents[n] \in Agents
  BY DEF StopDelete, TypeOK
<1>2. CallsOK
  BY DEF TypeOK, CallsOK, Held
<1>3. "unsubscribe" \in Held
  BY DEF Held, StopSteps
<1>4. CallsOK'
  BY <1>1, <1>2, <1>3, HoldOK DEF StopDelete, Entry, Goto
<1>5. twice' \subseteq Names /\ mixed' \subseteq Names
  BY ClashOK DEF StopDelete, TypeOK
<1>6. agents' \in [Names -> Agents \cup {None}]
  BY DEF StopDelete, TypeOK
<1> QED BY <1>4, <1>5, <1>6 DEF TypeOK, CallsOK, Held, StopDelete, lifeVars

(* Every variable has its type in every reachable state; in particular a   *)
(* call holds an agent exactly at the steps that use one.                  *)
THEOREM TypeCorrect == Spec => []TypeOK
<1>1. Init => TypeOK
  <2> SUFFICES ASSUME Init PROVE TypeOK
    OBVIOUS
  <2>1. agents \in [Names -> Agents \cup {None}] /\ subs \in [Names -> Agents \cup {None}]
    BY Constants DEF Init
  <2>2. inbox \in [Agents -> {"none", "open", "closed"}]
    BY DEF Init
  <2>3. spawned \in 0..MaxSpawns
    BY PoolAssumption DEF Init
  <2>4. CallsOK
    BY Constants DEF Init, CallsOK, Held, Steps, SpawnSteps, StopSteps, UseSteps
  <2> QED BY <2>1, <2>2, <2>3, <2>4 DEF Init, TypeOK, CallsOK, Held
<1>2. TypeOK /\ [Next]_vars => TypeOK'
  <2> SUFFICES ASSUME TypeOK, [Next]_vars PROVE TypeOK'
    OBVIOUS
  <2>0. CallsOK
    BY DEF TypeOK, CallsOK, Held
  <2> USE DEF mapVars, lifeVars, callVars, shutVars, clashVars
  <2>1. ASSUME NEW t \in Callers, NEW n \in Names, SpawnCheck(t, n) PROVE TypeOK'
    <3>1. twice' \subseteq Names /\ mixed' \subseteq Names
      BY <2>1, ClashOK DEF SpawnCheck, TypeOK
    <3>2. CallsOK'
      BY <2>0, <2>1, Constants
         DEF SpawnCheck, Goto, CallsOK, Held, Steps, SpawnSteps, StopSteps, UseSteps
    <3> QED BY <2>1, <3>1, <3>2 DEF SpawnCheck, TypeOK, CallsOK, Held
  <2>2. ASSUME NEW t \in Callers, NEW n \in Names, Fire(t, n) PROVE TypeOK'
    BY <2>2, StopDeleteOK, Constants DEF Fire, TypeOK
  <2>3. ASSUME NEW t \in Callers, NEW n \in Names, NEW a \in Agents, NEW s \in UseSteps,
               agent' = [agent EXCEPT ![t] = a], name' = [name EXCEPT ![t] = n],
               Goto(t, s), Clash(t, n, FALSE, FALSE), UNCHANGED <<mapVars, lifeVars, shutVars>>
        PROVE  TypeOK'
    <3>1. twice' \subseteq Names /\ mixed' \subseteq Names
      BY <2>3, ClashOK DEF TypeOK
    <3>2. CallsOK'
      BY <2>0, <2>3, HoldOK, Constants DEF Goto, Held
    <3> QED BY <2>3, <3>1, <3>2 DEF TypeOK, CallsOK, Held
  <2>4. ASSUME NEW t \in Callers, NEW n \in Names, SubmitGet(t, n) PROVE TypeOK'
    <3>1. agents[n] \in Agents
      BY <2>4 DEF SubmitGet, TypeOK
    <3> QED BY <2>3, <2>4, <3>1 DEF SubmitGet, UseSteps
  <2>5. ASSUME NEW t \in Callers, NEW n \in Names, BusLookup(t, n) PROVE TypeOK'
    <3>1. subs[n] \in Agents
      BY <2>5 DEF BusLookup, TypeOK
    <3> QED BY <2>3, <2>5, <3>1 DEF BusLookup, UseSteps
  <2>6. ASSUME NEW t \in Threads, SpawnStart(t) PROVE TypeOK'
    <3>1. CASE Return(t) /\ UNCHANGED spawned
      <4>1. CallsOK'
        BY <2>0, <3>1, ReturnOK
      <4> QED BY <2>6, <3>1, <4>1 DEF SpawnStart, TypeOK, CallsOK, Held
    <3>2. CASE /\ CanStart /\ spawned' = spawned + 1 /\ Goto(t, "subscribe")
               /\ agent' = [agent EXCEPT ![t] = spawned + 1] /\ UNCHANGED name
      <4>1. spawned' \in 0..MaxSpawns /\ spawned + 1 \in Agents
        BY <3>2, PoolAssumption DEF CanStart, Agents, TypeOK
      <4>2. CallsOK'
        BY <2>0, <3>2, <4>1, Constants
           DEF Goto, CallsOK, Held, Steps, SpawnSteps, StopSteps, UseSteps
      <4> QED BY <2>6, <4>1, <4>2 DEF SpawnStart, TypeOK, CallsOK, Held
    <3> QED BY <2>6, <3>1, <3>2 DEF SpawnStart
  <2>7. ASSUME NEW t \in Threads, step[t] \in Held PROVE agent[t] \in Agents /\ name[t] \in Names
    BY <2>0, <2>7 DEF CallsOK
  <2>8. ASSUME NEW t \in Threads, Subscribe(t) PROVE TypeOK'
    <3>1. agent[t] \in Agents /\ name[t] \in Names
      BY <2>7, <2>8 DEF Subscribe, Held
    <3>2. CallsOK'
      BY <2>0, <2>8, KeepOK DEF Subscribe, Goto, Held, Steps, SpawnSteps
    <3>3. /\ subs' \in [Names -> Agents \cup {None}]
          /\ inbox' \in [Agents -> {"none", "open", "closed"}]
      BY <2>8, <3>1 DEF Subscribe, TypeOK
    <3> QED BY <2>8, <3>2, <3>3 DEF Subscribe, TypeOK, CallsOK, Held
  <2>9. ASSUME NEW t \in Threads, SpawnInsert(t) PROVE TypeOK'
    <3>1. agent[t] \in Agents /\ name[t] \in Names
      BY <2>7, <2>9 DEF SpawnInsert, Held
    <3>2. CallsOK'
      BY <2>0, <2>9, ReturnOK DEF SpawnInsert
    <3>3. agents' \in [Names -> Agents \cup {None}]
      BY <2>9, <3>1 DEF SpawnInsert, TypeOK
    <3> QED BY <2>9, <3>2, <3>3 DEF SpawnInsert, TypeOK, CallsOK, Held
  <2>10. ASSUME NEW t \in Threads, Unsubscribe(t) PROVE TypeOK'
    <3>1. name[t] \in Names
      BY <2>0 DEF CallsOK
    <3>2. CallsOK'
      BY <2>0, <2>10, KeepOK DEF Unsubscribe, Goto, Held, Steps, StopSteps
    <3>3. /\ subs' \in [Names -> Agents \cup {None}]
          /\ inbox' \in [Agents -> {"none", "open", "closed"}]
      BY <2>10, <3>1 DEF Unsubscribe, Unsubscribed, TypeOK
    <3> QED BY <2>10, <3>2, <3>3 DEF Unsubscribe, TypeOK, CallsOK, Held
  <2>11. ASSUME NEW t \in Threads, StopCancel(t) PROVE TypeOK'
    <3>1. agent[t] \in Agents
      BY <2>7, <2>11 DEF StopCancel, Held, StopSteps
    <3>2. CallsOK'
      BY <2>0, <2>11, ReturnOK DEF StopCancel
    <3> QED BY <2>11, <3>1, <3>2 DEF StopCancel, TypeOK, CallsOK, Held
  <2>12. ASSUME NEW t \in Threads, SubmitPut(t) PROVE TypeOK'
    <3>1. CallsOK'
      BY <2>0, <2>12, ReturnOK DEF SubmitPut
    <3> QED BY <2>12, <3>1 DEF SubmitPut, TypeOK, CallsOK, Held
  <2>13. ASSUME NEW t \in Threads, BusSend(t) PROVE TypeOK'
    <3>1. CallsOK' /\ panicked' \in BOOLEAN
      BY <2>0, <2>13, ReturnOK DEF BusSend, CallsOK, TypeOK
    <3> QED BY <2>13, <3>1 DEF BusSend, TypeOK, CallsOK, Held
  <2>14. CASE CancelCtx
    BY <2>14 DEF CancelCtx, TypeOK
  <2>15. CASE ShutdownAll
    <3>1. CallsOK'
      BY <2>0, <2>15, KeepOK, Constants
         DEF ShutdownAll, Goto, Held, Steps, SpawnSteps, StopSteps, UseSteps
    <3> QED BY <2>15, <3>1 DEF ShutdownAll, TypeOK, CallsOK, Held
  <2>16. CASE Exit
    <3>1. CallsOK'
      BY <2>0, <2>16, KeepOK, Constants
         DEF Exit, Goto, Held, Steps, SpawnSteps, StopSteps, UseSteps
    <3> QED BY <2>16, <3>1 DEF Exit, TypeOK, CallsOK, Held
  <2>17. ASSUME NEW n \in Names, StopNext(n) PROVE TypeOK'
    <3>1. toStop' \subseteq Names
      BY <2>17 DEF StopNext, TypeOK
    <3>2. CASE StopDelete(main, n)
      BY <2>17, <3>1, <3>2, StopDeleteOK, Constants DEF StopNext
    <3>3. CASE UNCHANGED <<mapVars, lifeVars, callVars, clashVars>>
      BY <2>17, <3>1, <3>3 DEF StopNext, TypeOK
    <3> QED BY <2>17, <3>2, <3>3 DEF StopNext
  <2>18. CASE UNCHANGED vars
    BY <2>18 DEF vars, TypeOK
  <2> QED BY <2>1, <2>2, <2>4, <2>5, <2>6, <2>8, <2>9, <2>10, <2>11, <2>12,
             <2>13, <2>14, <2>15, <2>16, <2>17, <2>18
          DEF Next, Begin, Continue, Shutdown
<1> QED BY <1>1, <1>2, PTL DEF Spec

-----------------------------------------------------------------------------
(* What a step changes, and which action changed it.                       *)

(* The call of t is where it was.                                          *)
Alike(t) == step'[t] = step[t] /\ name'[t] = name[t] /\ agent'[t] = agent[t]

(* A call begins.                                                          *)
Opens(t, n) ==
  /\ step[t] \in {"idle", "stopAll"}
  /\ SpawnCheck(t, n) \/ StopDelete(t, n) \/ SubmitGet(t, n) \/ BusLookup(t, n)

(* The steps of main between its calls of Stop, and the cancellation.      *)
Beside ==
  /\ CancelCtx \/ ShutdownAll \/ Exit \/ (\E n \in Names : StopNext(n) /\ UNCHANGED callVars)
  /\ UNCHANGED <<mapVars, lifeVars, name, agent, clashVars>>

LEMMA NextCases ==
  ASSUME [Next]_vars
  PROVE  \/ \E t \in Threads, n \in Names : Opens(t, n)
         \/ \E t \in Threads : Continue(t)
         \/ Beside
         \/ UNCHANGED vars
<1>1. ASSUME NEW t \in Callers, NEW n \in Names, Begin(t, n)
      PROVE  \E u \in Threads, m \in Names : Opens(u, m)
  BY <1>1, Constants DEF Begin, Fire, Opens, SpawnCheck, SubmitGet, BusLookup
<1>2. ASSUME NEW n \in Names, StopNext(n)
      PROVE  (\E u \in Threads, m \in Names : Opens(u, m)) \/ Beside
  <2>1. CASE StopDelete(main, n)
    BY <1>2, <2>1, Constants DEF StopNext, Opens
  <2>2. CASE UNCHANGED <<mapVars, lifeVars, callVars, clashVars>>
    BY <1>2, <2>2 DEF Beside, callVars
  <2> QED BY <1>2, <2>1, <2>2 DEF StopNext
<1>3. CASE CancelCtx \/ ShutdownAll \/ Exit
  BY <1>3 DEF Beside, CancelCtx, ShutdownAll, Exit, callVars
<1> QED BY <1>1, <1>2, <1>3 DEF Next, Shutdown

(* Nobody moves but the thread whose step it is.                           *)
LEMMA OthersStay ==
  ASSUME TypeOK, NEW t \in Threads, NEW u \in Threads, t # u,
         Continue(t) \/ \E n \in Names : Opens(t, n)
  PROVE  Alike(u)
<1>1. CallsOK
  BY DEF TypeOK, CallsOK, Held
<1>2. CASE \E n \in Names : Opens(t, n)
  BY <1>1, <1>2, ZenonT(60) DEF CallsOK, Opens, SpawnCheck, StopDelete, SubmitGet, BusLookup, Goto, Alike
<1>3. CASE Continue(t)
  BY <1>1, <1>3 DEF CallsOK, Continue, SpawnStart, Subscribe, SpawnInsert, Unsubscribe,
     StopCancel, SubmitPut, BusSend, Return, Goto, Alike, callVars
<1> QED BY <1>2, <1>3

LEMMA BesideStay ==
  ASSUME TypeOK, Beside, NEW t \in Threads
  PROVE  \/ Alike(t)
         \/ t = main /\ step[t] \in {"idle", "stopAll"} /\ step'[t] \in {"stopAll", "exited"}
<1>1. CallsOK
  BY DEF TypeOK, CallsOK, Held
<1> QED BY <1>1, Constants DEF CallsOK, Beside, CancelCtx, ShutdownAll, Exit, StopNext, Goto,
        Alike, callVars

(* A call is in a Spawn, in a Stop or in a use of n because it was, or     *)
(* because it has just begun.                                              *)
LEMMA BusyBefore ==
  ASSUME TypeOK, [Next]_vars, NEW t \in Threads, NEW n \in Names
  PROVE  /\ Busy(t, SpawnSteps, n)' =>
              Busy(t, SpawnSteps, n) \/ (Opens(t, n) /\ SpawnCheck(t, n))
         /\ Busy(t, StopSteps, n)' =>
              Busy(t, StopSteps, n) \/ (Opens(t, n) /\ StopDelete(t, n))
         /\ Busy(t, UseSteps, n)' =>
              \/ Busy(t, UseSteps, n)
              \/ Opens(t, n) /\ (SubmitGet(t, n) \/ BusLookup(t, n))
<1>1. CallsOK
  BY DEF TypeOK, CallsOK, Held
<1> USE DEF Busy, SpawnSteps, StopSteps, UseSteps
<1>2. ASSUME NEW m \in Names, Opens(t, m)
      PROVE  /\ name'[t] = m
             /\ step'[t] \in SpawnSteps => SpawnCheck(t, m)
             /\ step'[t] \in StopSteps => StopDelete(t, m)
             /\ step'[t] \in UseSteps => SubmitGet(t, m) \/ BusLookup(t, m)
  BY <1>1, <1>2, ZenonT(60) DEF CallsOK, Opens, SpawnCheck, StopDelete, SubmitGet, BusLookup, Goto
<1>3. CASE Continue(t)
  <2>1. \/ step'[t] \in {"idle", "stopAll"}
        \/ name'[t] = name[t] /\ step[t] \in SpawnSteps /\ step'[t] \in SpawnSteps
        \/ name'[t] = name[t] /\ step[t] \in StopSteps /\ step'[t] \in StopSteps
        \/ Alike(t)
    BY <1>1, <1>3 DEF CallsOK, Continue, SpawnStart, Subscribe, SpawnInsert, Unsubscribe,
       StopCancel, SubmitPut, BusSend, Return, Goto, Alike, callVars
  <2> QED BY <2>1 DEF Alike
<1>4. CASE Alike(t)
  BY <1>4 DEF Alike
<1>5. CASE Beside
  BY <1>4, <1>5, BesideStay
<1>6. CASE UNCHANGED vars
  BY <1>4, <1>6 DEF Alike, vars, callVars
<1>7. ASSUME NEW u \in Threads, u # t, Continue(u) \/ \E m \in Names : Opens(u, m)
      PROVE  Alike(t)
  BY <1>7, OthersStay
<1> QED BY <1>2, <1>3, <1>4, <1>5, <1>6, <1>7, NextCases

(* What the history has seen, it has seen for good.                        *)
LEMMA ClashGrows ==
  ASSUME [Next]_vars PROVE twice \subseteq twice' /\ mixed \subseteq mixed'
<1>1. ASSUME NEW t, NEW n, NEW a, NEW b, Clash(t, n, a, b)
      PROVE  twice \subseteq twice' /\ mixed \subseteq mixed'
  BY <1>1 DEF Clash
<1>2. ASSUME NEW t \in Threads, NEW n \in Names, Opens(t, n)
      PROVE  twice \subseteq twice' /\ mixed \subseteq mixed'
  BY <1>1, <1>2 DEF Opens, SpawnCheck, StopDelete, SubmitGet, BusLookup
<1>3. ASSUME NEW t \in Threads, Continue(t)
      PROVE  twice \subseteq twice' /\ mixed \subseteq mixed'
  BY <1>3 DEF Continue, SpawnStart, Subscribe, SpawnInsert, Unsubscribe,
     StopCancel, SubmitPut, BusSend, clashVars
<1>4. CASE Beside \/ UNCHANGED vars
  BY <1>4 DEF Beside, vars, clashVars
<1> QED BY <1>2, <1>3, <1>4, NextCases

LEMMA CancelledGrows ==
  ASSUME [Next]_vars PROVE cancelled \subseteq cancelled'
<1>1. ASSUME NEW t \in Threads, NEW n \in Names, Opens(t, n)
      PROVE  cancelled \subseteq cancelled'
  BY <1>1 DEF Opens, SpawnCheck, StopDelete, SubmitGet, BusLookup, lifeVars
<1>2. ASSUME NEW t \in Threads, Continue(t)
      PROVE  cancelled \subseteq cancelled'
  BY <1>2 DEF Continue, SpawnStart, Subscribe, SpawnInsert, Unsubscribe,
     StopCancel, SubmitPut, BusSend, lifeVars
<1>3. CASE Beside \/ UNCHANGED vars
  BY <1>3 DEF Beside, vars, lifeVars
<1> QED BY <1>1, <1>2, <1>3, NextCases

(* The map changes at the insertion of a Spawn and the deletion of a Stop. *)
LEMMA MapBefore ==
  ASSUME TypeOK, [Next]_vars, NEW n \in Names, agents'[n] # agents[n]
  PROVE  \/ \E t \in Threads :
              Continue(t) /\ SpawnInsert(t) /\ name[t] = n /\ agents'[n] = agent[t]
         \/ \E t \in Threads :
              Opens(t, n) /\ StopDelete(t, n) /\ agents'[n] = None
<1>1. ASSUME NEW t \in Threads, NEW m \in Names, Opens(t, m)
      PROVE  Opens(t, n) /\ StopDelete(t, n) /\ agents'[n] = None
  BY <1>1 DEF Opens, SpawnCheck, StopDelete, SubmitGet, BusLookup, mapVars, TypeOK
<1>2. ASSUME NEW t \in Threads, Continue(t)
      PROVE  SpawnInsert(t) /\ name[t] = n /\ agents'[n] = agent[t]
  BY <1>2 DEF Continue, SpawnStart, Subscribe, SpawnInsert, Unsubscribe,
     StopCancel, SubmitPut, BusSend, mapVars, TypeOK
<1>3. ~Beside /\ ~UNCHANGED vars
  BY DEF Beside, vars, mapVars
<1> QED BY <1>1, <1>2, <1>3, NextCases

LEMMA SubsBefore ==
  ASSUME TypeOK, [Next]_vars, NEW n \in Names, subs'[n] # subs[n]
  PROVE  \/ \E t \in Threads :
              Continue(t) /\ Subscribe(t) /\ name[t] = n /\ subs'[n] = agent[t]
         \/ \E t \in Threads :
              Continue(t) /\ Unsubscribe(t) /\ name[t] = n /\ subs'[n] = None
<1>1. ASSUME NEW t \in Threads, NEW m \in Names, Opens(t, m)
      PROVE  FALSE
  BY <1>1 DEF Opens, SpawnCheck, StopDelete, SubmitGet, BusLookup, mapVars, TypeOK
<1>2. ASSUME NEW t \in Threads, Continue(t)
      PROVE  \/ Subscribe(t) /\ name[t] = n /\ subs'[n] = agent[t]
             \/ Unsubscribe(t) /\ name[t] = n /\ subs'[n] = None
  BY <1>2 DEF Continue, SpawnStart, Subscribe, SpawnInsert, Unsubscribe, Unsubscribed,
     StopCancel, SubmitPut, BusSend, mapVars, TypeOK
<1>3. ~Beside /\ ~UNCHANGED vars
  BY DEF Beside, vars, mapVars
<1> QED BY <1>1, <1>2, <1>3, NextCases

LEMMA InboxBefore ==
  ASSUME TypeOK, [Next]_vars, NEW a \in Agents, inbox'[a] # inbox[a]
  PROVE  \/ \E t \in Threads :
              Continue(t) /\ Subscribe(t) /\ agent[t] = a /\ inbox'[a] = "open"
         \/ \E t \in Threads :
              Continue(t) /\ Unsubscribe(t) /\ subs[name[t]] = a /\ inbox'[a] = "closed"
<1>1. ASSUME NEW t \in Threads, NEW m \in Names, Opens(t, m)
      PROVE  FALSE
  BY <1>1 DEF Opens, SpawnCheck, StopDelete, SubmitGet, BusLookup, mapVars, TypeOK
<1>2. ASSUME NEW t \in Threads, Continue(t)
      PROVE  \/ Subscribe(t) /\ agent[t] = a /\ inbox'[a] = "open"
             \/ Unsubscribe(t) /\ subs[name[t]] = a /\ inbox'[a] = "closed"
  BY <1>2 DEF Continue, SpawnStart, Subscribe, SpawnInsert, Unsubscribe,
     StopCancel, SubmitPut, BusSend, mapVars, TypeOK
<1>3. ~Beside /\ ~UNCHANGED vars
  BY DEF Beside, vars, mapVars
<1> QED BY <1>1, <1>2, <1>3, NextCases

(* What a thread that continues its call does to the call.                 *)
LEMMA ContinueAt ==
  ASSUME TypeOK, NEW t \in Threads, Continue(t)
  PROVE  \/ step'[t] \in {"idle", "stopAll"} /\ agent'[t] = None
         \/ /\ step[t] = "start" /\ step'[t] = "subscribe" /\ name'[t] = name[t]
            /\ agent'[t] = spawned + 1 /\ spawned' = spawned + 1 /\ ~ctxDone
         \/ /\ step[t] = "subscribe" /\ step'[t] = "insert" /\ name'[t] = name[t]
            /\ agent'[t] = agent[t] /\ Subscribe(t)
         \/ /\ step[t] = "unsubscribe" /\ step'[t] = "cancel" /\ name'[t] = name[t]
            /\ agent'[t] = agent[t] /\ Unsubscribe(t)
         \/ Alike(t)
<1>1. CallsOK
  BY DEF TypeOK, CallsOK, Held
<1>2. CASE SpawnStart(t)
  BY <1>1, <1>2 DEF CallsOK, SpawnStart, CanStart, Return, Goto
<1>3. CASE Subscribe(t) \/ Unsubscribe(t)
  BY <1>1, <1>3 DEF CallsOK, Subscribe, Unsubscribe, Goto
<1>4. CASE SpawnInsert(t) \/ StopCancel(t) \/ SubmitPut(t) \/ BusSend(t)
  BY <1>1, <1>4 DEF CallsOK, SpawnInsert, StopCancel, SubmitPut, BusSend, Return, Alike, callVars
<1> QED BY <1>2, <1>3, <1>4 DEF Continue

LEMMA SpawnedBefore ==
  ASSUME TypeOK, [Next]_vars
  PROVE  \/ spawned' = spawned
         \/ \E t \in Threads :
              /\ Continue(t) /\ SpawnStart(t) /\ spawned' = spawned + 1
              /\ step'[t] = "subscribe" /\ agent'[t] = spawned'
<1>1. ASSUME NEW t \in Threads, NEW m \in Names, Opens(t, m)
      PROVE  spawned' = spawned
  BY <1>1 DEF Opens, SpawnCheck, StopDelete, SubmitGet, BusLookup, lifeVars
<1>2. ASSUME NEW t \in Threads, Continue(t)
      PROVE  \/ spawned' = spawned
             \/ /\ SpawnStart(t) /\ spawned' = spawned + 1
                /\ step'[t] = "subscribe" /\ agent'[t] = spawned'
  BY <1>2 DEF Continue, SpawnStart, Subscribe, SpawnInsert, Unsubscribe,
     StopCancel, SubmitPut, BusSend, lifeVars, TypeOK, Goto
<1>3. Beside \/ UNCHANGED vars => spawned' = spawned
  BY DEF Beside, vars, lifeVars
<1> QED BY <1>1, <1>2, <1>3, NextCases

-----------------------------------------------------------------------------
(* The history variables see every overlap of two calls on one name.       *)
OverlapsSeen ==
  \A t, u \in Threads, n \in Names : t # u =>
    /\ Busy(t, SpawnSteps, n) /\ Busy(u, SpawnSteps, n) => n \in twice
    /\ Busy(t, StopSteps, n) /\ Busy(u, SpawnSteps \cup UseSteps, n) => n \in mixed

LEMMA OverlapsStep == TypeOK /\ OverlapsSeen /\ [Next]_vars => OverlapsSeen'
<1> SUFFICES ASSUME TypeOK, OverlapsSeen, [Next]_vars,
                    NEW t \in Threads, NEW u \in Threads, NEW n \in Names, t # u
             PROVE  /\ Busy(t, SpawnSteps, n)' /\ Busy(u, SpawnSteps, n)' => n \in twice'
                    /\ Busy(t, StopSteps, n)' /\ Busy(u, SpawnSteps \cup UseSteps, n)'
                         => n \in mixed'
  BY DEF OverlapsSeen
<1>1. ASSUME NEW x \in Threads, NEW y \in Threads, x # y, Opens(x, n)
      PROVE  /\ Alike(y)
             /\ SpawnCheck(x, n) /\ Busy(y, SpawnSteps, n) => n \in twice'
             /\ ~StopDelete(x, n) /\ Busy(y, StopSteps, n) => n \in mixed'
             /\ StopDelete(x, n) /\ Busy(y, SpawnSteps \cup UseSteps, n) => n \in mixed'
  BY <1>1, OthersStay DEF Opens, SpawnCheck, StopDelete, SubmitGet, BusLookup, Clash
<1>2. ASSUME NEW x \in Threads, Alike(x), NEW S
      PROVE  Busy(x, S, n)' <=> Busy(x, S, n)
  BY <1>2 DEF Alike, Busy
<1>3. ASSUME NEW x \in Threads, SpawnCheck(x, n) \/ SubmitGet(x, n) \/ BusLookup(x, n)
      PROVE  ~StopDelete(x, n)
  BY <1>3 DEF SpawnCheck, SubmitGet, BusLookup, StopDelete, Goto, TypeOK
<1>4. twice \subseteq twice' /\ mixed \subseteq mixed'
  BY ClashGrows
<1>5. ASSUME Busy(t, SpawnSteps, n)', Busy(u, SpawnSteps, n)' PROVE n \in twice'
  BY <1>1, <1>2, <1>4, <1>5, BusyBefore DEF OverlapsSeen
<1>6. ASSUME Busy(t, StopSteps, n)', Busy(u, SpawnSteps \cup UseSteps, n)' PROVE n \in mixed'
  <2>1. Busy(u, SpawnSteps, n)' \/ Busy(u, UseSteps, n)'
    BY <1>6 DEF Busy
  <2>2. ASSUME NEW S, Busy(u, S, n), S \in {SpawnSteps, UseSteps}
        PROVE  Busy(u, SpawnSteps \cup UseSteps, n)
    BY <2>2 DEF Busy
  <2>3. CASE Opens(t, n) /\ StopDelete(t, n)
    BY <1>1, <1>2, <1>6, <2>3
  <2>4. CASE Busy(t, StopSteps, n) /\ Opens(u, n) /\ ~StopDelete(u, n)
    BY <1>1, <2>4
  <2>5. CASE Busy(t, StopSteps, n) /\ Busy(u, SpawnSteps \cup UseSteps, n)
    BY <1>4, <2>5 DEF OverlapsSeen
  <2> QED BY <1>3, <1>6, <2>1, <2>2, <2>3, <2>4, <2>5, BusyBefore
<1> QED BY <1>5, <1>6

(* A name that is being hired has no agent yet.                            *)
HiresUnused ==
  \A t \in Threads, n \in Names \ twice :
    Busy(t, SpawnSteps, n) => agents[n] = None

LEMMA HiresStep ==
  TypeOK /\ OverlapsSeen /\ HiresUnused /\ [Next]_vars => HiresUnused'
<1> SUFFICES ASSUME TypeOK, OverlapsSeen, HiresUnused, [Next]_vars,
                    NEW t \in Threads, NEW n \in Names, n \notin twice',
                    Busy(t, SpawnSteps, n)'
             PROVE  agents'[n] = None
  BY DEF HiresUnused
<1>1. n \notin twice
  BY ClashGrows
<1>2. CASE Opens(t, n) /\ SpawnCheck(t, n)
  BY <1>2 DEF SpawnCheck, Unused, mapVars
<1>3. CASE Busy(t, SpawnSteps, n)
  <2>1. agents[n] = None
    BY <1>1, <1>3 DEF HiresUnused
  <2>2. ASSUME NEW u \in Threads, Continue(u), SpawnInsert(u), name[u] = n PROVE FALSE
    <3>1. Busy(u, SpawnSteps, n)
      BY <2>2 DEF SpawnInsert, Busy, SpawnSteps
    <3>2. t # u
      BY <2>2, CallsNow DEF CallsOK, SpawnInsert, Return, Busy, SpawnSteps
    <3> QED BY <1>1, <1>3, <3>1, <3>2 DEF OverlapsSeen
  <2> QED BY <2>1, <2>2, MapBefore
<1> QED BY <1>2, <1>3, BusyBefore

(* An agent that was started has been cancelled, is in the map, or is held *)
(* by a Spawn or a Stop; the calls that only use it do not count.          *)
Owned(a) ==
  \/ a \in cancelled
  \/ \E n \in Names : agents[n] = a
  \/ \E t \in Threads : agent[t] = a /\ step[t] \notin UseSteps

AllOwned == twice = {} => \A a \in 1..spawned : Owned(a)

LEMMA OwnedStep ==
  TypeOK /\ HiresUnused /\ AllOwned /\ [Next]_vars => AllOwned'
<1> SUFFICES ASSUME TypeOK, HiresUnused, AllOwned, [Next]_vars, twice' = {},
                    NEW a \in 1..spawned'
             PROVE  Owned(a)'
  BY DEF AllOwned
<1>1. twice = {} /\ CallsOK
  BY ClashGrows, CallsNow
<1>2. CASE a \notin 1..spawned
  <2>1. PICK t \in Threads : step'[t] = "subscribe" /\ agent'[t] = spawned'
                             /\ spawned' = spawned + 1
    BY <1>2, SpawnedBefore
  <2>2. a = spawned'
    BY <1>2, <2>1 DEF TypeOK
  <2> QED BY <2>1, <2>2 DEF Owned, UseSteps
<1>3. CASE a \in cancelled
  BY <1>3, CancelledGrows DEF Owned
<1>4. ASSUME NEW n \in Names, agents[n] = a, a \in 1..spawned PROVE Owned(a)'
  <2>1. CASE agents'[n] = a
    BY <2>1 DEF Owned
  <2>2. ASSUME NEW t \in Threads, Opens(t, n), StopDelete(t, n) PROVE Owned(a)'
    BY <1>1, <1>4, <2>2 DEF StopDelete, Entry, Goto, Owned, UseSteps, CallsOK
  <2>3. ASSUME NEW t \in Threads, SpawnInsert(t), name[t] = n PROVE FALSE
    <3>1. agents[n] = None
      BY <1>1, <2>3 DEF HiresUnused, SpawnInsert, Busy, SpawnSteps
    <3> QED BY <1>4, <3>1 DEF None
  <2> QED BY <1>4, <2>1, <2>2, <2>3, MapBefore
<1>5. ASSUME NEW t \in Threads, agent[t] = a, step[t] \notin UseSteps, a \in 1..spawned
      PROVE  Owned(a)'
  <2>0. step[t] \in {"subscribe", "insert", "unsubscribe", "cancel"}
    BY <1>1, <1>5 DEF CallsOK, Held, None, StopSteps, UseSteps
  <2>1. CASE Alike(t)
    BY <1>5, <2>1 DEF Alike, Owned
  <2>2. CASE Continue(t)
    <3>1. CASE Subscribe(t) \/ Unsubscribe(t)
      BY <1>1, <1>5, <3>1 DEF Subscribe, Unsubscribe, Goto, Owned, UseSteps, CallsOK
    <3>2. CASE SpawnInsert(t)
      BY <1>1, <1>5, <3>2 DEF SpawnInsert, Owned, CallsOK, TypeOK
    <3>3. CASE StopCancel(t)
      BY <1>5, <3>3 DEF StopCancel, Owned
    <3> QED BY <2>0, <2>2, <3>1, <3>2, <3>3
            DEF Continue, SpawnStart, SubmitPut, BusSend
  <2>3. ~\E n \in Names : Opens(t, n)
    BY <2>0 DEF Opens
  <2>4. Beside => Alike(t)
    BY <2>0, BesideStay
  <2> QED BY <2>1, <2>2, <2>3, <2>4, NextCases, OthersStay DEF vars, callVars, Alike
<1> QED BY <1>1, <1>2, <1>3, <1>4, <1>5 DEF AllOwned, Owned

(* What Subscribe opens is new: no inbox of the agent that it subscribes   *)
(* exists, and no other Spawn holds that agent.                            *)
FreshInbox ==
  /\ \A a \in Agents : a > spawned => inbox[a] = "none"
  /\ \A t \in Threads :
       step[t] = "subscribe" => agent[t] <= spawned /\ inbox[agent[t]] = "none"
  /\ \A t, u \in Threads :
       step[t] = "subscribe" /\ step[u] = "subscribe" /\ agent[t] = agent[u] => t = u

(* The inbox that a Send holds exists, has no other name than the one that *)
(* the Send found it under, and is closed only after an overlap.           *)
ReceiverSeen(t) ==
  /\ inbox[agent[t]] # "none"
  /\ inbox[agent[t]] = "closed" => name[t] \in mixed
  /\ \A n \in Names : subs[n] = agent[t] => n = name[t]

(* A subscribed inbox is open and has one name.                            *)
SubscribedOpen ==
  /\ \A n \in Names : subs[n] # None => inbox[subs[n]] = "open"
  /\ \A m, n \in Names : subs[m] = subs[n] /\ subs[m] # None => m = n
  /\ \A t \in Threads : step[t] = "send" => ReceiverSeen(t)

(* A thread is where it was, has gone on with its call, or begins one;     *)
(* main may also have gone on between two.                                 *)
LEMMA StepBefore ==
  ASSUME TypeOK, [Next]_vars, NEW t \in Threads
  PROVE  \/ Alike(t)
         \/ Continue(t)
         \/ \E n \in Names : Opens(t, n)
         \/ step[t] \in {"idle", "stopAll"} /\ step'[t] \in {"stopAll", "exited"}
<1>1. UNCHANGED vars => Alike(t)
  BY DEF vars, callVars, Alike
<1> QED BY <1>1, NextCases, OthersStay, BesideStay

LEMMA OpensAt ==
  ASSUME TypeOK, NEW t \in Threads, NEW n \in Names, Opens(t, n)
  PROVE  /\ name'[t] = n
         /\ \/ SpawnCheck(t, n) /\ step'[t] = "start"
            \/ StopDelete(t, n) /\ step'[t] = "unsubscribe"
            \/ SubmitGet(t, n) /\ step'[t] = "submit"
            \/ BusLookup(t, n) /\ step'[t] = "send"
<1>1. CallsOK
  BY CallsNow
<1> QED BY <1>1 DEF CallsOK, Opens, SpawnCheck, StopDelete, SubmitGet, BusLookup, Goto

LEMMA SubscribeBefore ==
  ASSUME TypeOK, [Next]_vars, NEW t \in Threads, step'[t] = "subscribe"
  PROVE  \/ Alike(t) /\ step[t] = "subscribe"
         \/ /\ Continue(t) /\ step[t] = "start"
            /\ agent'[t] = spawned + 1 /\ spawned' = spawned + 1
<1>1. ASSUME NEW n \in Names, Opens(t, n) PROVE FALSE
  BY <1>1, OpensAt
<1>2. Alike(t) => step[t] = "subscribe"
  BY DEF Alike
<1> QED BY <1>1, <1>2, StepBefore, ContinueAt

LEMMA SendBefore ==
  ASSUME TypeOK, [Next]_vars, NEW t \in Threads, step'[t] = "send"
  PROVE  \/ Alike(t) /\ step[t] = "send"
         \/ \E n \in Names : Opens(t, n) /\ BusLookup(t, n)
<1>1. ASSUME NEW n \in Names, Opens(t, n) PROVE BusLookup(t, n)
  BY <1>1, OpensAt
<1>2. Alike(t) => step[t] = "send"
  BY DEF Alike
<1> QED BY <1>1, <1>2, StepBefore, ContinueAt

LEMMA FreshStep ==
  TypeOK /\ TypeOK' /\ FreshInbox /\ SubscribedOpen /\ [Next]_vars => FreshInbox'
<1> SUFFICES ASSUME TypeOK, TypeOK', FreshInbox, SubscribedOpen, [Next]_vars
             PROVE  FreshInbox'
  OBVIOUS
<1>0. CallsOK /\ CallsOK' /\ spawned \in Nat /\ spawned' \in Nat /\ MaxSpawns \in Nat
  <2>1. CallsOK /\ CallsOK'
    BY DEF TypeOK, CallsOK, Held
  <2>2. spawned \in 0..MaxSpawns /\ spawned' \in 0..MaxSpawns /\ MaxSpawns \in Nat
    BY PoolAssumption DEF TypeOK
  <2> QED BY <2>1, <2>2
<1>1. spawned' = spawned \/ spawned' = spawned + 1
  BY SpawnedBefore
<1>2. ASSUME NEW t \in Threads, Unsubscribe(t), subs[name[t]] \in Agents
      PROVE  inbox[subs[name[t]]] = "open"
  BY <1>0, <1>2, Constants DEF CallsOK, SubscribedOpen
<1>3. ASSUME NEW a \in Agents, a > spawned' PROVE inbox'[a] = "none"
  <2>1. a > spawned /\ inbox[a] = "none"
    BY <1>0, <1>1, <1>3 DEF FreshInbox, Agents
  <2>2. ASSUME NEW t \in Threads, Subscribe(t), agent[t] = a PROVE FALSE
    BY <1>0, <2>1, <2>2 DEF Subscribe, FreshInbox, Agents
  <2> QED BY <1>2, <2>1, <2>2, InboxBefore
<1>4. ASSUME NEW t \in Threads, step'[t] = "subscribe"
      PROVE  agent'[t] <= spawned' /\ inbox'[agent'[t]] = "none"
  <2>1. CASE Continue(t) /\ step[t] = "start" /\ agent'[t] = spawned + 1 /\ spawned' = spawned + 1
    <3>1. agent'[t] \in Agents /\ agent'[t] > spawned
      BY <1>0, <2>1 DEF Agents, TypeOK
    <3>2. inbox[agent'[t]] = "none"
      BY <3>1 DEF FreshInbox
    <3>3. ASSUME NEW u \in Threads, Continue(u), Subscribe(u) \/ Unsubscribe(u) PROVE FALSE
      <4>1. u # t
        BY <2>1, <3>3 DEF Subscribe, Unsubscribe
      <4> QED BY <1>4, <2>1, <3>3, <4>1, OthersStay DEF Alike
    <3> QED BY <1>0, <2>1, <3>1, <3>2, <3>3, InboxBefore
  <2>2. CASE Alike(t) /\ step[t] = "subscribe"
    <3>1. agent'[t] \in Agents /\ agent'[t] <= spawned /\ inbox[agent'[t]] = "none"
      BY <1>0, <2>2 DEF Alike, CallsOK, FreshInbox, Held
    <3>2. ASSUME NEW u \in Threads, Subscribe(u), agent[u] = agent'[t] PROVE FALSE
      <4>1. u = t
        BY <2>2, <3>2 DEF Alike, FreshInbox, Subscribe
      <4> QED BY <1>0, <2>2, <3>2, <4>1 DEF Alike, Subscribe, Goto, CallsOK
    <3>3. agent'[t] <= spawned'
      BY <1>0, <1>1, <3>1 DEF Agents
    <3> QED BY <1>2, <3>1, <3>2, <3>3, InboxBefore
  <2> QED BY <1>4, <2>1, <2>2, SubscribeBefore
<1>5. ASSUME NEW t \in Threads, NEW u \in Threads, step'[t] = "subscribe",
             step'[u] = "subscribe", agent'[t] = agent'[u], t # u
      PROVE  FALSE
  <2>1. ASSUME NEW x \in Threads, NEW y \in Threads, x # y, Continue(x), step'[y] = "subscribe",
               agent'[x] = spawned + 1
        PROVE  agent'[x] # agent'[y]
    <3>1. Alike(y)
      BY <2>1, OthersStay
    <3>2. agent'[y] = agent[y] /\ agent[y] <= spawned /\ agent[y] \in Nat
      BY <1>0, <2>1, <3>1 DEF Alike, FreshInbox, CallsOK, Agents, None
    <3> QED BY <1>0, <2>1, <3>2
  <2>2. CASE Alike(t) /\ Alike(u)
    BY <1>5, <2>2 DEF Alike, FreshInbox
  <2> QED BY <1>5, <2>1, <2>2, SubscribeBefore
<1> QED BY <1>3, <1>4, <1>5 DEF FreshInbox

LEMMA SubscribedStep ==
  TypeOK /\ TypeOK' /\ OverlapsSeen /\ FreshInbox /\ SubscribedOpen /\ [Next]_vars
    => SubscribedOpen'
<1> SUFFICES ASSUME TypeOK, TypeOK', OverlapsSeen, FreshInbox, SubscribedOpen, [Next]_vars
             PROVE  SubscribedOpen'
  OBVIOUS
<1>0. CallsOK /\ CallsOK' /\ mixed \subseteq mixed'
  BY CallsNow, ClashGrows DEF TypeOK, CallsOK, Held
<1>1. ASSUME NEW t \in Threads, Subscribe(t)
      PROVE  /\ agent[t] \in Agents /\ inbox[agent[t]] = "none" /\ name[t] \in Names
             /\ inbox'[agent[t]] = "open"
             /\ \A n \in Names : subs[n] # agent[t]
             /\ \A n \in Names : n # name[t] => subs'[n] = subs[n]
  <2>1. agent[t] \in Agents /\ inbox[agent[t]] = "none" /\ name[t] \in Names
    BY <1>0, <1>1 DEF CallsOK, Subscribe, FreshInbox, Held
  <2>2. \A n \in Names : subs[n] # agent[t]
    BY <2>1, Constants DEF SubscribedOpen
  <2> QED BY <1>1, <2>1, <2>2 DEF Subscribe, TypeOK
<1>2. ASSUME NEW t \in Threads, Unsubscribe(t)
      PROVE  name[t] \in Names /\ subs'[name[t]] = None
  BY <1>0, <1>2 DEF CallsOK, Unsubscribe, Unsubscribed, TypeOK
<1>3. ASSUME NEW n \in Names, subs'[n] # None PROVE inbox'[subs'[n]] = "open"
  <2>1. CASE subs'[n] # subs[n]
    BY <1>1, <1>3, <2>1, SubsBefore
  <2>2. CASE subs'[n] = subs[n]
    <3>1. subs[n] \in Agents /\ inbox[subs[n]] = "open"
      BY <1>3, <2>2 DEF TypeOK, SubscribedOpen
    <3>2. ASSUME NEW t \in Threads, Unsubscribe(t), subs[name[t]] = subs[n] PROVE FALSE
      <4>1. name[t] = n
        BY <1>2, <1>3, <2>2, <3>2 DEF SubscribedOpen
      <4> QED BY <1>2, <1>3, <3>2, <4>1
    <3> QED BY <2>2, <3>1, <3>2, InboxBefore
  <2> QED BY <2>1, <2>2
<1>4. ASSUME NEW m \in Names, NEW n \in Names, subs'[m] = subs'[n], subs'[m] # None, m # n
      PROVE  FALSE
  <2>1. CASE subs'[m] = subs[m] /\ subs'[n] = subs[n]
    BY <1>4, <2>1 DEF SubscribedOpen
  <2>2. ASSUME NEW x \in Names, NEW y \in Names, x # y, subs'[x] = subs'[y],
               subs'[x] # None, subs'[x] # subs[x]
        PROVE  FALSE
    BY <1>1, <2>2, SubsBefore
  <2> QED BY <1>4, <2>1, <2>2
<1>5. ASSUME NEW t \in Threads, step'[t] = "send"
      PROVE  ReceiverSeen(t)'
  <2>1. ASSUME NEW n \in Names, BusLookup(t, n)
        PROVE  ReceiverSeen(t)'
    <3>1. agent'[t] = subs[n] /\ name'[t] = n /\ subs' = subs /\ inbox' = inbox /\ subs[n] # None
      BY <1>0, <2>1 DEF BusLookup, mapVars, CallsOK
    <3> QED BY <3>1 DEF SubscribedOpen, ReceiverSeen
  <2>2. CASE Alike(t) /\ step[t] = "send"
    <3>1. /\ agent'[t] = agent[t] /\ name'[t] = name[t] /\ agent[t] \in Agents /\ name[t] \in Names
          /\ inbox[agent[t]] # "none"
          /\ inbox[agent[t]] = "closed" => name[t] \in mixed
          /\ \A n \in Names : subs[n] = agent[t] => n = name[t]
      BY <1>0, <2>2 DEF Alike, CallsOK, SubscribedOpen, ReceiverSeen, Held, UseSteps
    <3>2. ASSUME NEW u \in Threads, Unsubscribe(u), subs[name[u]] = agent[t]
          PROVE  name[t] \in mixed
      <4>1. name[u] = name[t]
        BY <1>2, <3>1, <3>2
      <4>2. u # t
        BY <2>2, <3>2 DEF Unsubscribe
      <4>3. Busy(u, StopSteps, name[t]) /\ Busy(t, SpawnSteps \cup UseSteps, name[t])
        BY <2>2, <3>2, <4>1 DEF Unsubscribe, Busy, StopSteps, UseSteps
      <4> QED BY <3>1, <4>2, <4>3 DEF OverlapsSeen
    <3>3. inbox'[agent[t]] # "none" /\ (inbox'[agent[t]] = "closed" => name[t] \in mixed)
      BY <3>1, <3>2, InboxBefore
    <3>4. \A n \in Names : subs'[n] = agent[t] => n = name[t]
      <4> SUFFICES ASSUME NEW n \in Names, subs'[n] = agent[t], subs'[n] # subs[n] PROVE FALSE
        BY <3>1
      <4>1. agent[t] # None
        BY <3>1, Constants
      <4> QED BY <1>1, <3>1, <4>1, SubsBefore
    <3> QED BY <1>0, <3>1, <3>3, <3>4 DEF ReceiverSeen
  <2> QED BY <1>5, <2>1, <2>2, SendBefore
<1> QED BY <1>3, <1>4, <1>5 DEF SubscribedOpen

(* The subscription of a name at each step of the one call on it that      *)
(* hires or fires.                                                         *)
SubFollows ==
  \A n \in Names \ (twice \cup mixed) :
    /\ (\A t \in Threads : ~Busy(t, SpawnSteps \cup StopSteps, n)) => subs[n] = agents[n]
    /\ \A t \in Threads :
         /\ Busy(t, {"start", "subscribe"}, n) => subs[n] = None
         /\ Busy(t, {"insert"}, n) => subs[n] = agent[t]
         /\ Busy(t, StopSteps, n) => agents[n] = None
         /\ Busy(t, {"cancel"}, n) => subs[n] = None

LEMMA SubFollowsStep ==
  /\ TypeOK /\ TypeOK' /\ OverlapsSeen /\ OverlapsSeen' /\ HiresUnused /\ SubFollows
  /\ [Next]_vars
  => SubFollows'
<1> SUFFICES ASSUME TypeOK, TypeOK', OverlapsSeen, OverlapsSeen', HiresUnused, SubFollows,
                    [Next]_vars, NEW n \in Names, n \notin twice', n \notin mixed'
             PROVE  /\ (\A t \in Threads : ~Busy(t, SpawnSteps \cup StopSteps, n)')
                         => subs'[n] = agents'[n]
                    /\ \A t \in Threads :
                         /\ Busy(t, {"start", "subscribe"}, n)' => subs'[n] = None
                         /\ Busy(t, {"insert"}, n)' => subs'[n] = agent'[t]
                         /\ Busy(t, StopSteps, n)' => agents'[n] = None
                         /\ Busy(t, {"cancel"}, n)' => subs'[n] = None
  BY DEF SubFollows
<1>0. /\ n \notin twice /\ n \notin mixed /\ CallsOK
      /\ (\A t \in Threads : ~Busy(t, SpawnSteps \cup StopSteps, n)) => subs[n] = agents[n]
      /\ \A t \in Threads :
           /\ Busy(t, {"start", "subscribe"}, n) => subs[n] = None
           /\ Busy(t, {"insert"}, n) => subs[n] = agent[t]
           /\ Busy(t, StopSteps, n) => agents[n] = None
           /\ Busy(t, {"cancel"}, n) => subs[n] = None
  BY ClashGrows, CallsNow DEF SubFollows
<1> USE DEF Busy, SpawnSteps, StopSteps
(* Nobody else hires or fires n beside a Spawn of it, nobody hires it      *)
(* beside a Stop.                                                          *)
<1>1. ASSUME NEW t \in Threads, NEW u \in Threads, t # u, Busy(t, SpawnSteps, n)
      PROVE  ~Busy(u, SpawnSteps \cup StopSteps, n)
  BY <1>0, <1>1 DEF OverlapsSeen
<1>2. ASSUME NEW t \in Threads, NEW u \in Threads, t # u, Busy(t, SpawnSteps, n)'
      PROVE  ~Busy(u, SpawnSteps \cup StopSteps, n)'
  BY <1>2 DEF OverlapsSeen
<1>3. ASSUME NEW u \in Threads, Subscribe(u) \/ SpawnInsert(u), name[u] = n
      PROVE  Busy(u, SpawnSteps, n)
  BY <1>3 DEF Subscribe, SpawnInsert
<1>4. ASSUME NEW u \in Threads, Unsubscribe(u), name[u] = n
      PROVE  Busy(u, StopSteps, n) /\ step'[u] = "cancel"
  BY <1>0, <1>4 DEF Unsubscribe, Goto, CallsOK
<1>5. ASSUME \A t \in Threads : ~Busy(t, SpawnSteps \cup StopSteps, n)'
      PROVE  subs'[n] = agents'[n]
  <2>1. CASE \A t \in Threads : ~Busy(t, SpawnSteps \cup StopSteps, n)
    <3>1. subs[n] = agents[n]
      BY <1>0, <2>1
    <3>2. subs'[n] = subs[n]
      BY <1>3, <1>4, <2>1, SubsBefore
    <3>3. ASSUME NEW t \in Threads, Opens(t, n), StopDelete(t, n) PROVE FALSE
      <4>1. name'[t] = n /\ step'[t] = "unsubscribe"
        BY <1>0, <3>3 DEF StopDelete, Goto, CallsOK
      <4> QED BY <1>5, <4>1
    <3>4. agents'[n] = agents[n]
      BY <1>3, <2>1, <3>3, MapBefore
    <3> QED BY <3>1, <3>2, <3>4
  <2>2. ASSUME NEW t \in Threads, Busy(t, SpawnSteps \cup StopSteps, n)
        PROVE  subs'[n] = agents'[n]
    <3>1. ~Alike(t)
      BY <1>5, <2>2 DEF Alike
    <3>2. Continue(t) /\ step'[t] \in {"idle", "stopAll"} /\ agent'[t] = None
      BY <1>5, <2>2, <3>1, StepBefore, ContinueAt DEF Opens
    <3>3. CASE SpawnStart(t)
      <4>1. agents[n] = None /\ subs[n] = None
        BY <1>0, <2>2, <3>3 DEF SpawnStart, HiresUnused
      <4> QED BY <3>3, <4>1 DEF SpawnStart, mapVars
    <3>4. CASE SpawnInsert(t)
      BY <1>0, <2>2, <3>4 DEF SpawnInsert, TypeOK
    <3>5. CASE StopCancel(t)
      <4>1. agents[n] = None /\ subs[n] = None
        BY <1>0, <2>2, <3>5 DEF StopCancel
      <4> QED BY <3>5, <4>1 DEF StopCancel, mapVars
    <3>6. CASE Subscribe(t) \/ Unsubscribe(t) \/ SubmitPut(t) \/ BusSend(t)
      BY <1>0, <2>2, <3>2, <3>6 DEF CallsOK, Subscribe, Unsubscribe, SubmitPut, BusSend, Goto
    <3> QED BY <3>2, <3>3, <3>4, <3>5, <3>6 DEF Continue
  <2> QED BY <2>1, <2>2
<1>6. ASSUME NEW t \in Threads, Busy(t, {"start", "subscribe"}, n)' PROVE subs'[n] = None
  <2>1. CASE Busy(t, {"start", "subscribe"}, n)
    <3>1. subs[n] = None
      BY <1>0, <2>1
    <3>2. ASSUME NEW u \in Threads, Subscribe(u), name[u] = n PROVE FALSE
      <4>1. u # t
        BY <1>0, <1>6, <3>2 DEF Subscribe, Goto, CallsOK
      <4> QED BY <1>1, <1>3, <2>1, <3>2, <4>1
    <3> QED BY <3>1, <3>2, SubsBefore
  <2>2. CASE Opens(t, n) /\ SpawnCheck(t, n)
    <3>1. ASSUME NEW u \in Threads, Busy(u, SpawnSteps \cup StopSteps, n) PROVE FALSE
      <4>1. u # t
        BY <2>2, <3>1 DEF Opens
      <4>2. Alike(u)
        BY <2>2, <4>1, OthersStay
      <4> QED BY <1>2, <1>6, <3>1, <4>1, <4>2 DEF Alike
    <3> QED BY <1>0, <2>2, <3>1 DEF SpawnCheck, Unused, mapVars
  <2> QED BY <1>6, <2>1, <2>2, StepBefore, ContinueAt, OpensAt DEF Alike
<1>7. ASSUME NEW t \in Threads, Busy(t, {"insert"}, n)' PROVE subs'[n] = agent'[t]
  <2>1. CASE Alike(t)
    <3>1. subs[n] = agent'[t] /\ Busy(t, SpawnSteps, n)
      BY <1>0, <1>7, <2>1 DEF Alike
    <3>2. ASSUME NEW u \in Threads, Subscribe(u) \/ Unsubscribe(u), name[u] = n PROVE FALSE
      <4>1. u # t
        BY <1>7, <2>1, <3>2 DEF Subscribe, Unsubscribe, Alike
      <4> QED BY <1>1, <1>3, <1>4, <3>1, <3>2, <4>1
    <3> QED BY <3>1, <3>2, SubsBefore
  <2>2. CASE Subscribe(t) /\ agent'[t] = agent[t] /\ name'[t] = name[t]
    BY <1>7, <2>2 DEF Subscribe, TypeOK
  <2> QED BY <1>7, <2>1, <2>2, StepBefore, ContinueAt, OpensAt
<1>8. ASSUME NEW t \in Threads, Busy(t, StopSteps, n)' PROVE agents'[n] = None
  <2>1. CASE Busy(t, StopSteps, n)
    <3>1. agents[n] = None
      BY <1>0, <2>1
    <3>2. ASSUME NEW u \in Threads, SpawnInsert(u), name[u] = n PROVE FALSE
      BY <1>1, <1>3, <2>1, <3>2
    <3> QED BY <3>1, <3>2, MapBefore
  <2>2. CASE Opens(t, n) /\ StopDelete(t, n)
    BY <2>2 DEF StopDelete, TypeOK
  <2> QED BY <1>8, <2>1, <2>2, BusyBefore
<1>9. ASSUME NEW t \in Threads, Busy(t, {"cancel"}, n)' PROVE subs'[n] = None
  <2>1. CASE Alike(t)
    <3>1. subs[n] = None /\ Busy(t, StopSteps, n)
      BY <1>0, <1>9, <2>1 DEF Alike
    <3>2. ASSUME NEW u \in Threads, Subscribe(u), name[u] = n PROVE FALSE
      BY <1>1, <1>3, <3>1, <3>2
    <3> QED BY <3>1, <3>2, SubsBefore
  <2>2. CASE Unsubscribe(t) /\ name'[t] = name[t]
    BY <1>9, <2>2 DEF Unsubscribe, Unsubscribed, TypeOK
  <2> QED BY <1>9, <2>1, <2>2, StepBefore, ContinueAt, OpensAt
<1> QED BY <1>5, <1>6, <1>7, <1>8, <1>9

(* The agent that a SubmitTo got is still the one of that name.            *)
UsesEntry ==
  \A t \in Threads :
    step[t] = "submit" => agents[name[t]] = agent[t] \/ name[t] \in mixed \cup twice

LEMMA UsesEntryStep ==
  TypeOK /\ TypeOK' /\ OverlapsSeen /\ OverlapsSeen' /\ HiresUnused /\ UsesEntry
  /\ [Next]_vars => UsesEntry'
<1> SUFFICES ASSUME TypeOK, TypeOK', OverlapsSeen, OverlapsSeen', HiresUnused, UsesEntry,
                    [Next]_vars, NEW t \in Threads, step'[t] = "submit",
                    name'[t] \notin mixed', name'[t] \notin twice'
             PROVE  agents'[name'[t]] = agent'[t]
  BY DEF UsesEntry
<1>0. CallsOK /\ CallsOK' /\ twice \subseteq twice' /\ mixed \subseteq mixed'
  BY CallsNow, ClashGrows DEF TypeOK, CallsOK, Held
<1>1. ASSUME NEW n \in Names, SubmitGet(t, n), name'[t] = n
      PROVE  agents'[name'[t]] = agent'[t]
  BY <1>0, <1>1 DEF SubmitGet, mapVars, CallsOK
<1>2. CASE Alike(t)
  <2>0. PICK n \in Names : n = name[t]
    BY <1>0 DEF CallsOK
  <2>1. /\ n \in Names /\ name'[t] = n /\ step[t] = "submit" /\ agent'[t] = agent[t]
        /\ agent[t] \in Agents /\ n \notin mixed /\ n \notin twice /\ n \notin mixed'
    BY <1>0, <1>2, <2>0 DEF Alike, CallsOK, Held, UseSteps
  <2>2. agents[n] = agent[t]
    BY <2>0, <2>1 DEF UsesEntry
  <2>3. ASSUME NEW u \in Threads, SpawnInsert(u), name[u] = n PROVE FALSE
    <3>1. agents[n] = None
      BY <2>1, <2>3 DEF SpawnInsert, Busy, SpawnSteps, HiresUnused
    <3> QED BY <2>1, <2>2, <3>1, Constants
  <2>4. ASSUME NEW u \in Threads, Opens(u, n), StopDelete(u, n) PROVE FALSE
    <3>1. u # t
      BY <2>1, <2>4 DEF Opens
    <3>2. Busy(u, StopSteps, n)' /\ Busy(t, SpawnSteps \cup UseSteps, n)'
      BY <1>0, <2>1, <2>4, OpensAt
         DEF StopDelete, Goto, CallsOK, Busy, StopSteps, UseSteps
    <3> QED BY <2>1, <3>1, <3>2 DEF OverlapsSeen
  <2> QED BY <2>1, <2>2, <2>3, <2>4, MapBefore
<1> QED BY <1>1, <1>2, StepBefore, ContinueAt, OpensAt

(* From the snapshot on, ctx is done, so that no Spawn starts, and every   *)
(* agent in the map is one that main will stop or was in flight.           *)
SnapshotHolds ==
  /\ ctxDone
  /\ \A n \in Names : agents[n] # None => n \in toStop \cup inFlight
  /\ \A t \in Threads, n \in Names : Busy(t, {"subscribe", "insert"}, n) => n \in inFlight
  /\ step[main] = "exited" => toStop = {}

ShutdownInv == step[main] # "idle" => SnapshotHolds

LEMMA ShutdownStep == TypeOK /\ ShutdownInv /\ [Next]_vars => ShutdownInv'
<1> SUFFICES ASSUME TypeOK, ShutdownInv, [Next]_vars, step'[main] # "idle"
             PROVE  SnapshotHolds'
  BY DEF ShutdownInv
<1>0. CallsOK
  BY CallsNow
<1> USE DEF Busy, SnapshotHolds
<1>1. CASE ShutdownAll
  <2>1. ASSUME NEW t \in Threads, NEW n \in Names, Busy(t, {"subscribe", "insert"}, n)'
        PROVE  n \in inFlight'
    <3>1. t # main /\ t \in Callers
      BY <1>0, <1>1, <2>1, Constants DEF ShutdownAll, Goto, CallsOK, Threads
    <3>2. Busy(t, {"subscribe", "insert"}, n)
      BY <1>0, <1>1, <2>1, <3>1 DEF ShutdownAll, Goto, CallsOK
    <3> QED BY <1>1, <3>1, <3>2 DEF ShutdownAll
  <2> QED BY <1>0, <1>1, <2>1, Constants DEF ShutdownAll, Goto, CallsOK, mapVars
<1>2. ASSUME step[main] # "idle"
      PROVE  SnapshotHolds
  BY <1>2 DEF ShutdownInv
<1>3. ASSUME step[main] # "idle", step'[main] = "exited" => step[main] = "exited",
             UNCHANGED <<toStop, inFlight>>, ctxDone'
      PROVE  SnapshotHolds'
  <2>1. ASSUME NEW n \in Names, agents'[n] # None PROVE n \in toStop \cup inFlight
    <3>1. ASSUME NEW t \in Threads, SpawnInsert(t), name[t] = n PROVE n \in inFlight
      BY <1>2, <1>3, <3>1 DEF SpawnInsert
    <3> QED BY <1>2, <1>3, <2>1, <3>1, MapBefore
  <2>2. ASSUME NEW t \in Threads, NEW n \in Names, Busy(t, {"subscribe", "insert"}, n)'
        PROVE  n \in inFlight
    <3>1. Busy(t, {"subscribe", "insert"}, n)
      BY <1>2, <1>3, <2>2, StepBefore, ContinueAt, OpensAt DEF Alike
    <3> QED BY <1>2, <1>3, <3>1
  <2> QED BY <1>2, <1>3, <2>1, <2>2
<1>4. CASE Running /\ \E t \in Callers, n \in Names : Begin(t, n)
  <2>1. PICK t \in Callers, n \in Names : Begin(t, n)
    BY <1>4
  <2>2. UNCHANGED shutVars /\ (\E m \in Names : Opens(t, m)) /\ t # main
    BY <2>1, PoolAssumption
       DEF Begin, Fire, SpawnCheck, SubmitGet, BusLookup, Opens
  <2>3. Alike(main)
    BY <2>2, OthersStay, Constants
  <2> QED BY <1>2, <1>3, <2>2, <2>3 DEF Alike, shutVars
<1>5. ASSUME NEW t \in Threads, Continue(t), step[main] # "idle"
      PROVE  ctxDone' /\ UNCHANGED shutVars /\ step[main] # "exited" /\ step'[main] # "exited"
  <2>1. UNCHANGED shutVars /\ step[main] # "exited"
    BY <1>5 DEF Continue, SpawnStart, Subscribe, SpawnInsert, Unsubscribe,
       StopCancel, SubmitPut, BusSend, Running
  <2>2. CASE t = main
    BY <1>2, <1>5, <2>1, <2>2, ContinueAt DEF shutVars, Alike
  <2>3. CASE t # main
    BY <1>2, <1>5, <2>1, <2>3, OthersStay, Constants DEF shutVars, Alike
  <2> QED BY <2>2, <2>3, <2>1
<1>6. ASSUME NEW t \in Threads, Continue(t) PROVE step[main] # "idle"
  <2>1. CASE t = main
    BY <1>0, <1>6, <2>1 DEF Continue, SpawnStart, Subscribe, SpawnInsert, Unsubscribe,
       StopCancel, SubmitPut, BusSend
  <2>2. CASE t # main
    BY <1>6, <2>2, OthersStay, Constants DEF Alike
  <2> QED BY <2>1, <2>2
<1>7. CASE CancelCtx
  BY <1>2, <1>3, <1>7 DEF CancelCtx, callVars
<1>8. CASE Exit
  <2>1. step[main] = "stopAll" /\ toStop = {} /\ UNCHANGED <<shutVars, mapVars, name>>
    BY <1>8 DEF Exit
  <2>2. ASSUME NEW t \in Threads, NEW n \in Names, Busy(t, {"subscribe", "insert"}, n)'
        PROVE  Busy(t, {"subscribe", "insert"}, n)
    BY <1>0, <1>8, <2>2 DEF Exit, Goto, CallsOK
  <2> QED BY <1>2, <2>1, <2>2 DEF shutVars, mapVars
<1>9. ASSUME NEW m \in Names, StopNext(m)
      PROVE  SnapshotHolds'
  <2>1. /\ step[main] = "stopAll" /\ toStop' = toStop \ {m} /\ UNCHANGED <<ctxDone, inFlight>>
        /\ agents'[m] = None /\ \A n \in Names : n # m => agents'[n] = agents[n]
    BY <1>9 DEF StopNext, StopDelete, Gone, mapVars, TypeOK
  <2>2. \/ Opens(main, m) /\ step'[main] = "unsubscribe"
        \/ UNCHANGED callVars
    BY <1>0, <1>9, <2>1, Constants DEF StopNext, StopDelete, Opens, Goto, CallsOK
  <2>3. ASSUME NEW t \in Threads, NEW n \in Names, Busy(t, {"subscribe", "insert"}, n)'
        PROVE  Busy(t, {"subscribe", "insert"}, n)
    BY <2>2, <2>3, OthersStay, Constants DEF callVars, Alike
  <2>4. step'[main] # "exited"
    BY <2>1, <2>2 DEF callVars
  <2> QED BY <1>2, <2>1, <2>3, <2>4
<1>10. CASE UNCHANGED vars
  BY <1>2, <1>3, <1>10 DEF vars, callVars, shutVars
<1>11. ASSUME NEW t \in Threads, Continue(t)
       PROVE  SnapshotHolds'
  BY <1>3, <1>5, <1>6, <1>11 DEF shutVars
<1> QED BY <1>1, <1>4, <1>7, <1>8, <1>9, <1>10, <1>11 DEF Next, Shutdown

-----------------------------------------------------------------------------
PoolInv ==
  /\ OverlapsSeen /\ HiresUnused /\ AllOwned /\ FreshInbox /\ SubscribedOpen
  /\ SubFollows /\ UsesEntry /\ ShutdownInv

LEMMA PoolInit == Init => PoolInv
<1> SUFFICES ASSUME Init PROVE PoolInv
  OBVIOUS
<1>1. \A t \in Threads : step[t] = "idle" /\ agent[t] = None
  BY DEF Init
<1>2. OverlapsSeen /\ HiresUnused /\ UsesEntry
  BY <1>1 DEF OverlapsSeen, HiresUnused, UsesEntry, Busy, SpawnSteps, StopSteps, UseSteps
<1>3. AllOwned
  <2>1. agents[DefaultName] = 1 /\ spawned = 1
    BY Constants DEF Init
  <2> QED BY <2>1, Constants DEF AllOwned, Owned
<1>4. FreshInbox
  BY <1>1 DEF Init, FreshInbox, Agents
<1>5. SubscribedOpen
  <2>1. \A n \in Names : subs[n] = IF n = DefaultName THEN 1 ELSE None
    BY DEF Init
  <2>2. inbox[1] = "open"
    BY Constants DEF Init
  <2> QED BY <1>1, <2>1, <2>2 DEF SubscribedOpen, None
<1>6. SubFollows
  BY <1>1 DEF Init, SubFollows, Busy, StopSteps
<1>7. ShutdownInv
  BY <1>1, Constants DEF ShutdownInv
<1> QED BY <1>2, <1>3, <1>4, <1>5, <1>6, <1>7 DEF PoolInv

(* The parts together are inductive.                                       *)
LEMMA PoolAlways == Spec => []PoolInv
<1>1. TypeOK /\ TypeOK' /\ PoolInv /\ [Next]_vars => PoolInv'
  <2> SUFFICES ASSUME TypeOK, TypeOK', PoolInv, [Next]_vars PROVE PoolInv'
    OBVIOUS
  <2>1. /\ OverlapsSeen /\ HiresUnused /\ AllOwned /\ FreshInbox /\ SubscribedOpen
        /\ SubFollows /\ UsesEntry /\ ShutdownInv
    BY DEF PoolInv
  <2>2. OverlapsSeen' /\ HiresUnused' /\ AllOwned' /\ ShutdownInv'
    BY <2>1, OverlapsStep, HiresStep, OwnedStep, ShutdownStep
  <2>3. FreshInbox' /\ SubscribedOpen'
    BY <2>1, FreshStep, SubscribedStep
  <2>4. SubFollows' /\ UsesEntry'
    BY <2>1, <2>2, SubFollowsStep, UsesEntryStep
  <2> QED BY <2>2, <2>3, <2>4 DEF PoolInv
<1> QED BY <1>1, PoolInit, TypeCorrect, PTL DEF Spec

(* No started agent is ever out of everybody's reach, unless two hires of  *)
(* one name overlapped.                                                    *)
THEOREM AgentsReachable == Spec => []NoOrphan
<1>1. TypeOK /\ PoolInv => NoOrphan
  <2> SUFFICES ASSUME TypeOK, PoolInv, twice = {}, NEW a \in Agents, Orphan(a) PROVE FALSE
    BY DEF NoOrphan
  <2>1. a \in 1..spawned
    BY DEF Orphan, Agents, TypeOK
  <2>2. Owned(a)
    BY <2>1 DEF PoolInv, AllOwned
  <2> QED BY <2>2 DEF Owned, Orphan
<1> QED BY <1>1, PoolAlways, TypeCorrect, PTL

(* Whenever nobody hires or fires a name, its subscription is the open     *)
(* inbox of its agent, unless calls on it overlapped.                      *)
THEOREM SubscriptionsMatch == Spec => []InboxMatches
<1>1. TypeOK /\ PoolInv => InboxMatches
  <2> SUFFICES ASSUME TypeOK, PoolInv, NEW n \in Names \ (twice \cup mixed),
                      \A t \in Threads : ~Busy(t, SpawnSteps \cup StopSteps, n)
               PROVE  subs[n] = agents[n] /\ (agents[n] # None => inbox[agents[n]] = "open")
    BY DEF InboxMatches
  <2>1. subs[n] = agents[n]
    BY DEF PoolInv, SubFollows
  <2> QED BY <2>1 DEF PoolInv, SubscribedOpen
<1> QED BY <1>1, PoolAlways, TypeCorrect, PTL

(* A subscribed inbox is open, and a Send meets a closed one only when a   *)
(* Stop of the receiver overlapped it.                                     *)
THEOREM NoSendOnClosed == Spec => []SendsOnOpenChannels
<1>1. PoolInv => SendsOnOpenChannels
  BY Constants DEF PoolInv, SubscribedOpen, ReceiverSeen, SendsOnOpenChannels
<1> QED BY <1>1, PoolAlways, PTL

(* SubmitTo submits to the agent in service under that name.               *)
THEOREM SubmitsToEntry == Spec => []SubmitReachesLive
<1>1. PoolInv => SubmitReachesLive
  BY Constants DEF PoolInv, UsesEntry, SubmitReachesLive
<1> QED BY <1>1, PoolAlways, PTL

(* When main returns, the pool holds nothing but what was being spawned    *)
(* while ShutdownAll took its snapshot.                                    *)
THEOREM ShutdownEmpties == Spec => []ShutdownRemovesAll
<1>1. PoolInv => ShutdownRemovesAll
  BY DEF PoolInv, ShutdownInv, SnapshotHolds, ShutdownRemovesAll
<1> QED BY <1>1, PoolAlways, PTL
=============================================================================
