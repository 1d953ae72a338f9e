--------------------------------- MODULE Pool ---------------------------------
(***************************************************************************)
(* internal/spawner's Pool with internal/comms's Bus: hiring, firing and   *)
(* addressing agents by name, messages between them, and the shutdown of   *)
(* cmd/agent's main.                                                       *)
(*                                                                         *)
(* Pool and Bus lock for one map operation at a time, so that a call is    *)
(* several steps, between which the calls of other goroutines fall. The    *)
(* callers are the Telegram update loop, which makes one call after the    *)
(* other, and main, which calls ShutdownAll once ctx is done; Callers has  *)
(* more than one member to ask what the locks of Pool are worth to a       *)
(* program with a second such loop, and with agents that call Bus.Send,    *)
(* which nothing in the program does yet.                                  *)
(*                                                                         *)
(* An agent is named by the number of its Spawn: 1 is the default agent,   *)
(* which main has spawned from the configuration before the bot starts.    *)
(* What an agent does with its requests is the module Agent. Nobody reads  *)
(* the inboxes of the bus, and how full they are is left out: Broadcast,   *)
(* which sends under the lock of the bus, changes nothing here.            *)
(***************************************************************************)
EXTENDS Naturals, FiniteSets

CONSTANTS
  Callers,     (* goroutines that call Spawn, Stop and SubmitTo            *)
  main,        (* the goroutine that calls ShutdownAll                     *)
  Names,       (* names of agents                                          *)
  DefaultName, (* cfg.Agents.DefaultAgent                                  *)
  MaxSpawns    (* bound of the model: how many agents are started          *)

ASSUME PoolAssumption ==
  /\ main \notin Callers
  /\ DefaultName \in Names
  /\ MaxSpawns \in Nat \ {0}

Agents == 1..MaxSpawns
None == 0
Threads == Callers \cup {main}

VARIABLES
  agents,     (* Pool.agents: the agent of each name, or None              *)
  subs,       (* Bus.subs: the agent that subscribed each name, or None    *)
  inbox,      (* inbox[a]: "open", "closed", or "none" before Subscribe    *)
  cancelled,  (* the agents whose context and session Stop has ended       *)
  spawned,    (* how many agents have been started                         *)
  panicked,   (* a send on a closed channel has ended the process          *)
  step,       (* step[t]: where the call of t is                           *)
  name,       (* name[t]: the name it is about                             *)
  agent,      (* agent[t]: the agent it holds, or None                     *)
  ctxDone,    (* main's ctx has been cancelled                             *)
  toStop,     (* the names that ShutdownAll still has to stop              *)
  twice,      (* history: names with two Spawn calls at the same time      *)
  mixed,      (* history: names with a Stop beside another call            *)
  inFlight    (* history: names being spawned when ShutdownAll began       *)

mapVars   == <<agents, subs, inbox>>
lifeVars  == <<cancelled, spawned, panicked>>
callVars  == <<step, name, agent>>
shutVars  == <<ctxDone, toStop, inFlight>>
clashVars == <<twice, mixed>>
vars == <<mapVars, lifeVars, callVars, shutVars, clashVars>>

SpawnSteps == {"start", "subscribe", "insert"}
StopSteps == {"unsubscribe", "cancel"}
UseSteps == {"submit", "send"}
Steps == SpawnSteps \cup StopSteps \cup UseSteps \cup {"idle", "stopAll", "exited"}

TypeOK ==
  /\ agents \in [Names -> Agents \cup {None}]
  /\ subs \in [Names -> Agents \cup {None}]
  /\ inbox \in [Agents -> {"none", "open", "closed"}]
  /\ cancelled \subseteq Agents
  /\ spawned \in 0..MaxSpawns
  /\ panicked \in BOOLEAN
  /\ step \in [Threads -> Steps]
  /\ name \in [Threads -> Names]
  /\ agent \in [Threads -> Agents \cup {None}]
  /\ \A t \in Threads :
       agent[t] # None <=> step[t] \in StopSteps \cup UseSteps \cup {"subscribe", "insert"}
  /\ ctxDone \in BOOLEAN
  /\ toStop \subseteq Names
  /\ twice \subseteq Names /\ mixed \subseteq Names /\ inFlight \subseteq Names

Init ==
  /\ agents = [n \in Names |-> IF n = DefaultName THEN 1 ELSE None]
  /\ subs = agents
  /\ inbox = [a \in Agents |-> IF a = 1 THEN "open" ELSE "none"]
  /\ cancelled = {}
  /\ spawned = 1
  /\ panicked = FALSE
  /\ step = [t \in Threads |-> "idle"]
  /\ name = [t \in Threads |-> DefaultName]
  /\ agent = [t \in Threads |-> None]
  /\ ctxDone = FALSE
  /\ toStop = {}
  /\ twice = {} /\ mixed = {} /\ inFlight = {}

Busy(t, steps, n) == step[t] \in steps /\ name[t] = n

(* The process.                                                            *)
Running == step[main] # "exited" /\ ~panicked

Goto(t, s) == step' = [step EXCEPT ![t] = s]

(* The end of a call.                                                      *)
Return(t) ==
  /\ step' = [step EXCEPT ![t] = IF t = main THEN "stopAll" ELSE "idle"]
  /\ name' = [name EXCEPT ![t] = DefaultName]
  /\ agent' = [agent EXCEPT ![t] = None]

(* Which calls overlap when t begins one on n; a Stop that finds the agent *)
(* begins with its deletion.                                               *)
Clash(t, n, isSpawn, isStop) ==
  LET others == Threads \ {t} IN
  /\ twice' = IF isSpawn /\ \E u \in others : Busy(u, SpawnSteps, n)
              THEN twice \cup {n} ELSE twice
  /\ mixed' = IF \/ isStop /\ \E u \in others : Busy(u, SpawnSteps \cup UseSteps, n)
                 \/ ~isStop /\ \E u \in others : Busy(u, StopSteps, n)
              THEN mixed \cup {n} ELSE mixed

-----------------------------------------------------------------------------
(* Spawn, from /hire.                                                      *)

(* Mutant: does not look for an agent of that name.                        *)
AnyName(n) == TRUE
Unused(n) == agents[n] = None

(* The check has a lock of its own.                                        *)
SpawnCheck(t, n) ==
  /\ step[t] = "idle"
  /\ Unused(n)
  /\ name' = [name EXCEPT ![t] = n]
  /\ Goto(t, "start")
  /\ Clash(t, n, TRUE, FALSE)
  /\ UNCHANGED <<mapVars, lifeVars, agent, shutVars>>

(* Claude is not started under a context that is done; Mutant: it gets a   *)
(* context of its own.                                                     *)
OwnContext == spawned < MaxSpawns
CanStart == ~ctxDone /\ spawned < MaxSpawns

(* Memory and session. Either may fail.                                    *)
SpawnStart(t) ==
  /\ step[t] = "start"
  /\ \/ /\ CanStart
        /\ spawned' = spawned + 1
        /\ agent' = [agent EXCEPT ![t] = spawned + 1]
        /\ Goto(t, "subscribe")
        /\ UNCHANGED name
     \/ Return(t) /\ UNCHANGED spawned
  /\ UNCHANGED <<mapVars, cancelled, panicked, shutVars, clashVars>>

(* A channel that was subscribed under the name is replaced, not closed.   *)
Subscribe(t) ==
  /\ step[t] = "subscribe"
  /\ subs' = [subs EXCEPT ![name[t]] = agent[t]]
  /\ inbox' = [inbox EXCEPT ![agent[t]] = "open"]
  /\ Goto(t, "insert")
  /\ UNCHANGED <<agents, lifeVars, name, agent, shutVars, clashVars>>

(* The insertion, under the lock again, and go a.Run(childCtx).            *)
SpawnInsert(t) ==
  /\ step[t] = "insert"
  /\ agents' = [agents EXCEPT ![name[t]] = agent[t]]
  /\ Return(t)
  /\ UNCHANGED <<subs, inbox, lifeVars, shutVars, clashVars>>

-----------------------------------------------------------------------------
(* Stop, from /fire and from ShutdownAll.                                  *)

(* The entry that Stop goes on with; Mutant: read after its deletion.      *)
DeletedEntry(n) == None
Entry(n) == agents[n]

(* Found and deleted under the lock.                                       *)
StopDelete(t, n) ==
  /\ agents[n] # None
  /\ agent' = [agent EXCEPT ![t] = Entry(n)]
  /\ name' = [name EXCEPT ![t] = n]
  /\ agents' = [agents EXCEPT ![n] = None]
  /\ Goto(t, "unsubscribe")
  /\ Clash(t, n, FALSE, TRUE)
  /\ UNCHANGED <<subs, inbox, lifeVars>>

(* Mutant: closes the inbox but leaves it subscribed.                      *)
StillSubscribed(n) == subs
Unsubscribed(n) == [subs EXCEPT ![n] = None]

(* By name: it closes whatever channel has the name by now.                *)
Unsubscribe(t) ==
  /\ step[t] = "unsubscribe"
  /\ inbox' = IF subs[name[t]] = None THEN inbox
              ELSE [inbox EXCEPT ![subs[name[t]]] = "closed"]
  /\ subs' = Unsubscribed(name[t])
  /\ Goto(t, "cancel")
  /\ UNCHANGED <<agents, lifeVars, name, agent, shutVars, clashVars>>

(* Cancel and Session.Close; main goes on with the other agents.           *)
StopCancel(t) ==
  /\ step[t] = "cancel"
  /\ cancelled' = cancelled \cup {agent[t]}
  /\ Return(t)
  /\ UNCHANGED <<mapVars, spawned, panicked, shutVars, clashVars>>

(* /fire refuses the default agent.                                        *)
Fire(t, n) ==
  /\ step[t] = "idle"
  /\ n # DefaultName
  /\ StopDelete(t, n)
  /\ UNCHANGED shutVars

-----------------------------------------------------------------------------
(* SubmitTo: Get, and then Submit to the agent that Get returned.          *)

SubmitGet(t, n) ==
  /\ step[t] = "idle"
  /\ agents[n] # None
  /\ agent' = [agent EXCEPT ![t] = agents[n]]
  /\ name' = [name EXCEPT ![t] = n]
  /\ Goto(t, "submit")
  /\ Clash(t, n, FALSE, FALSE)
  /\ UNCHANGED <<mapVars, lifeVars, shutVars>>

SubmitPut(t) ==
  /\ step[t] = "submit"
  /\ Return(t)
  /\ UNCHANGED <<mapVars, lifeVars, shutVars, clashVars>>

-----------------------------------------------------------------------------
(* Bus.Send: the channel is looked up under the lock and sent to after it. *)

BusLookup(t, n) ==
  /\ step[t] = "idle"
  /\ subs[n] # None
  /\ agent' = [agent EXCEPT ![t] = subs[n]]
  /\ name' = [name EXCEPT ![t] = n]
  /\ Goto(t, "send")
  /\ Clash(t, n, FALSE, FALSE)
  /\ UNCHANGED <<mapVars, lifeVars, shutVars>>

(* A send on a closed channel panics, which ends the process.              *)
BusSend(t) ==
  /\ step[t] = "send"
  /\ \/ inbox[agent[t]] = "open" /\ Return(t) /\ UNCHANGED panicked
     \/ inbox[agent[t]] = "closed" /\ panicked' = TRUE /\ UNCHANGED callVars
  /\ UNCHANGED <<mapVars, cancelled, spawned, shutVars, clashVars>>

-----------------------------------------------------------------------------
(* A signal, /stop or /restart cancels ctx, and main calls ShutdownAll.    *)

CancelCtx ==
  /\ ~ctxDone
  /\ Running
  /\ ctxDone' = TRUE
  /\ UNCHANGED <<mapVars, lifeVars, callVars, toStop, inFlight, clashVars>>

(* The names of the moment.                                                *)
ShutdownAll ==
  /\ step[main] = "idle"
  /\ ctxDone
  /\ toStop' = {n \in Names : agents[n] # None}
  /\ inFlight' = {n \in Names : \E t \in Callers : Busy(t, {"subscribe", "insert"}, n)}
  /\ Goto(main, "stopAll")
  /\ UNCHANGED <<mapVars, lifeVars, name, agent, ctxDone, clashVars>>

(* Mutant: an agent that is gone is waited for.                            *)
NeverGone(n) == FALSE
Gone(n) == agents[n] = None

(* One Stop after the other, in the order of the map; an agent that was    *)
(* fired in the meantime is an error that nobody reads.                    *)
StopNext(n) ==
  /\ step[main] = "stopAll"
  /\ n \in toStop
  /\ toStop' = toStop \ {n}
  /\ \/ StopDelete(main, n)
     \/ Gone(n) /\ UNCHANGED <<mapVars, lifeVars, callVars, clashVars>>
  /\ UNCHANGED <<ctxDone, inFlight>>

(* main returns, and the process ends.                                     *)
Exit ==
  /\ step[main] = "stopAll"
  /\ toStop = {}
  /\ Goto(main, "exited")
  /\ UNCHANGED <<mapVars, lifeVars, name, agent, shutVars, clashVars>>

-----------------------------------------------------------------------------
Begin(t, n) == SpawnCheck(t, n) \/ Fire(t, n) \/ SubmitGet(t, n) \/ BusLookup(t, n)

Continue(t) ==
  /\ Running
  /\ \/ SpawnStart(t) \/ Subscribe(t) \/ SpawnInsert(t)
     \/ Unsubscribe(t) \/ StopCancel(t)
     \/ SubmitPut(t) \/ BusSend(t)

Shutdown ==
  /\ Running
  /\ ShutdownAll \/ Exit \/ \E n \in Names : StopNext(n)

Next ==
  \/ Running /\ \E t \in Callers, n \in Names : Begin(t, n)
  \/ \E t \in Threads : Continue(t)
  \/ CancelCtx
  \/ Shutdown

Spec == Init /\ [][Next]_vars

(* Every goroutine that can go on does.                                    *)
FairSpec ==
  /\ Spec
  /\ WF_vars(Shutdown)
  /\ \A t \in Threads : WF_vars(Continue(t))

-----------------------------------------------------------------------------
(* A started agent that nobody can reach any more: it is in no map, no     *)
(* call holds it, and Stop has not cancelled it.                           *)
Orphan(a) ==
  /\ a <= spawned
  /\ a \notin cancelled
  /\ \A n \in Names : agents[n] # a
  /\ \A t \in Threads : agent[t] # a

(* No agent keeps its claude process with nobody to stop it, whatever      *)
(* calls fall between the steps of Spawn and Stop, unless two Spawn calls  *)
(* of one name overlapped: both pass the check (pool.go:57-61), and the    *)
(* second insertion (pool.go:98) drops the first agent.                    *)
NoOrphan == twice = {} => \A a \in Agents : ~Orphan(a)

(* A name that nobody is hiring or firing has the inbox of its agent, open *)
(* (pool.go:87, 146), unless the calls of two goroutines on it overlapped: *)
(* Stop unsubscribes by name after it has released the lock of the map.    *)
InboxMatches ==
  \A n \in Names \ (twice \cup mixed) :
    (\A t \in Threads : ~Busy(t, SpawnSteps \cup StopSteps, n)) =>
      /\ subs[n] = agents[n]
      /\ agents[n] # None => inbox[agents[n]] = "open"

(* No message is sent on a closed channel: a subscribed inbox is open,     *)
(* whatever the overlaps, as Broadcast needs (bus.go:67-81), and Send      *)
(* panics only when a Stop of the receiver falls between its lookup and    *)
(* its send (bus.go:51-60, pool.go:146).                                   *)
SendsOnOpenChannels ==
  /\ \A n \in Names : subs[n] # None => inbox[subs[n]] = "open"
  /\ \A t \in Callers :
       step[t] = "send" /\ inbox[agent[t]] = "closed" => name[t] \in mixed

(* SubmitTo hands the request to an agent that is in service: it has not   *)
(* been stopped, unless a Stop fell between Get and Submit (pool.go:168,   *)
(* 172).                                                                   *)
SubmitReachesLive ==
  \A t \in Callers :
    step[t] = "submit" =>
      agents[name[t]] = agent[t] \/ name[t] \in mixed \cup twice

(* "all agents should be removed after shutdown" (pool_test.go:162): when  *)
(* main ends, the pool holds none but those that were being spawned while  *)
(* ShutdownAll took its snapshot (pool.go:187-192).                        *)
ShutdownRemovesAll ==
  step[main] = "exited" => \A n \in Names : agents[n] # None => n \in inFlight

(* The shutdown is never stuck behind a hire or a fire (main.go:49).       *)
ShutdownCompletes == ctxDone ~> ~Running
=============================================================================
