------------------------------- MODULE AgencyHost -------------------------------
(***************************************************************************)
(* The agencies of one host and the host agent they run (agencies/         *)
(* agency.py and agencies/net/agency.py: Agency, Startup, Shutdown;        *)
(* agencies/common.py: Procedure, ConnectionManager).  The master agency   *)
(* starts the host agent once no descriptor of one is in the database, and *)
(* again whenever the agent is gone; calls for the host agent wait for it. *)
(*                                                                         *)
(* Who is master is the broker's business (module Broker) and what an      *)
(* agent does between its states is module AgentLife's; here they are      *)
(* single steps.                                                           *)
(***************************************************************************)
EXTENDS Naturals, FiniteSets, SequencesExt

CONSTANTS
  Agencies,      \* the agencies of the host
  HostFaults,    \* what may go wrong
  MaxHostFaults, \* bound: how often
  MaxTimers,     \* bound: retry timers of an agency
  Prompt         \* the kinds of agents whose on_killed() ends at once

ASSUME AgenciesAssumption == IsFiniteSet(Agencies)
ASSUME HostFaultsAssumption ==
  HostFaults \subseteq {"role", "crash", "database", "messaging", "request", "terminate",
                        "shutdown", "kill"}
ASSUME HostBoundsAssumption == MaxHostFaults \in Nat /\ MaxTimers \in Nat \ {0}
ASSUME PromptAssumption == Prompt \subseteq {"host", "other"}

VARIABLES
  ag,         \* the agencies
  hostDoc,    \* is the host agent's descriptor in the database?
  hostFaults  \* history: what went wrong so far, counted

hostVars == <<ag, hostDoc, hostFaults>>

Nobody == "nobody"

(* by: the agency whose _start_host_agent() waits for the agent to start;  *)
(* awaited: the shutdown waits for its end; hard: its descriptor stays.    *)
Medium(kind, by) ==
  [kind |-> kind, by |-> by, st |-> "waiting", awaited |-> FALSE, hard |-> FALSE]

(* chain is where _start_host_agent() is: _starting_host is that it is     *)
(* somewhere.  agents is _agents; shut the stage of the shutdown task.     *)
FreshAgency ==
  [up |-> "starting", role |-> "none", promoted |-> FALSE, chain |-> "no", timers |-> 0,
   agents |-> <<>>, db |-> TRUE, msg |-> TRUE, shut |-> "no", gentle |-> TRUE, call |-> "none"]

Up(p) == ag[p].up # "off"
SetAgency(p, r) == ag' = [ag EXCEPT ![p] = r]

Fault(what) == what \in HostFaults /\ hostFaults < MaxHostFaults /\ hostFaults' = hostFaults + 1
NoFault == UNCHANGED hostFaults

Master(p) == ag[p].role = "master"
NoMaster == \A p \in Agencies : ~Master(p)

Online(r) == r.db /\ r.msg

-----------------------------------------------------------------------------
(* Starting the host agent *)

HostAt(r) == {i \in 1..Len(r.agents) : r.agents[i].kind = "host"}

CanStartHostAgent(r) ==
  /\ r.role = "master" /\ r.up = "running" /\ r.shut = "no"
  /\ HostAt(r) = {} /\ r.chain = "no"

StartHostAgent(r) == IF CanStartHostAgent(r) THEN [r EXCEPT !.chain = "scheduled"] ELSE r

(* Mutant: the failed start is not tried again. *)
HostRestartGivenUp(r) == [r EXCEPT !.chain = "no"]

(* Mutant: both handlers of the failure arm the timer. *)
HostRestartFailedTwice(r) == [r EXCEPT !.chain = "no", !.timers = @ + 2]

(* set_flag(False), and the timer of HOST_RESTART_RETRY_INTERVAL. *)
HostRestartFailed(r) == [r EXCEPT !.chain = "no", !.timers = @ + 1]

RetryTimerFires(p) ==
  /\ ag[p].timers > 0
  /\ SetAgency(p, StartHostAgent([ag[p] EXCEPT !.timers = @ - 1]))
  /\ UNCHANGED hostDoc /\ NoFault

(* wait_connected(), after which the document is asked for. *)
AskForHostDoc(p) ==
  /\ ag[p].chain = "scheduled" /\ ag[p].db
  /\ SetAgency(p, [ag[p] EXCEPT !.chain = "get"])
  /\ UNCHANGED hostDoc /\ NoFault

(* A descriptor that is found is an error: the start is tried again later. *)
HostDocAnswered(p) ==
  /\ ag[p].chain = "get" /\ ag[p].timers < MaxTimers
  /\ SetAgency(p, IF hostDoc THEN HostRestartFailed(ag[p]) ELSE [ag[p] EXCEPT !.chain = "save"])
  /\ UNCHANGED hostDoc /\ NoFault

Registered(r, kind, by) == [r EXCEPT !.agents = Append(@, Medium(kind, by))]

(* Broker.start_agent(): the master starts the agent, a slave asks the     *)
(* master to, and a broker that is not connected raises.                   *)
StartedAt(p) ==
  CASE Master(p) ->
         [ag EXCEPT ![p] = Registered([@ EXCEPT !.chain = "host"], "host", p)]
    [] ag[p].role = "slave" ->
         [q \in Agencies |-> CASE q = p -> [ag[p] EXCEPT !.chain = "remote"]
                               [] Master(q) -> Registered(ag[q], "host", p)
                               [] OTHER -> ag[q]]
    [] OTHER -> [ag EXCEPT ![p] = HostRestartFailed(@)]

(* Mutant: the document is saved over the one that is there. *)
HostDocOverwritten(p) ==
  /\ ag[p].chain = "save" /\ ag[p].timers < MaxTimers
  /\ ag' = StartedAt(p)
  /\ hostDoc' = TRUE /\ NoFault

(* The save of a new document conflicts with one that is there. *)
HostDocSaved(p) ==
  /\ ag[p].chain = "save" /\ ag[p].timers < MaxTimers
  /\ IF hostDoc THEN SetAgency(p, HostRestartFailed(ag[p])) ELSE ag' = StartedAt(p)
  /\ hostDoc' = TRUE /\ NoFault

(* A save that fails may have been stored. *)
HostRequestFails(p) ==
  /\ ag[p].chain \in {"get", "save"} /\ ag[p].timers < MaxTimers
  /\ Fault("request")
  /\ SetAgency(p, HostRestartFailed(ag[p]))
  /\ hostDoc' \in (IF ag[p].chain = "save" THEN {TRUE, hostDoc} ELSE {hostDoc})

-----------------------------------------------------------------------------
(* The agents *)

SetSt(r, i, st) == [r EXCEPT !.agents[i].st = st]

StartOther(p) ==
  /\ ag[p].up = "running" /\ Master(p)
  /\ \A i \in 1..Len(ag[p].agents) : ag[p].agents[i].kind # "other"
  /\ SetAgency(p, Registered(ag[p], "other", Nobody))
  /\ UNCHANGED hostDoc /\ NoFault

(* start_agent_locally(): wait_connected(), then initiate(). *)
DbConnected(p, i) ==
  /\ ag[p].agents[i].st = "waiting" /\ ag[p].db
  /\ SetAgency(p, SetSt(ag[p], i, "initiating"))
  /\ UNCHANGED hostDoc /\ NoFault

(* initiate() has called back, with an error swallowed: whoever started    *)
(* the agent goes on.                                                      *)
WithStarter(f, by) ==
  [q \in Agencies |-> IF q = by /\ f[q].chain \in {"host", "remote"}
                      THEN [f[q] EXCEPT !.chain = "no"] ELSE f[q]]

Initiated(p, i) ==
  /\ ag[p].agents[i].st = "initiating"
  /\ ag' = WithStarter([ag EXCEPT ![p] = SetSt(@, i, "starting")], ag[p].agents[i].by)
  /\ UNCHANGED hostDoc /\ NoFault

InitiateFails(p, i) ==
  /\ ag[p].agents[i].st = "initiating"
  /\ Fault("terminate")
  /\ ag' = WithStarter([ag EXCEPT ![p] = SetSt(@, i, "terminating")], ag[p].agents[i].by)
  /\ UNCHANGED hostDoc

(* _flush_pending_host_agent_calls() *)
CallsFlushed(r) == IF r.call = "pending" THEN [r EXCEPT !.call = "queued"] ELSE r

(* Mutant: the calls that wait are not made when the host agent is ready. *)
BecomeReadyOnly(p, i) ==
  /\ ag[p].agents[i].st = "starting"
  /\ SetAgency(p, SetSt(ag[p], i, "ready"))
  /\ UNCHANGED hostDoc /\ NoFault

(* _become_ready(), whether the agency is connected or not, and the end of *)
(* _on_host_started().                                                     *)
BecomeReady(p, i) ==
  /\ ag[p].agents[i].st = "starting"
  /\ LET r == SetSt(ag[p], i, "ready")
     IN  SetAgency(p, IF r.agents[i].kind = "host" THEN CallsFlushed(r) ELSE r)
  /\ UNCHANGED hostDoc /\ NoFault

(* The termination cancels the calls that have not begun. *)
Ending(r, i, hard) ==
  LET m == r.agents[i]
  IN  IF m.st = "terminating" THEN r
      ELSE [r EXCEPT !.agents[i] = [m EXCEPT !.st = "terminating", !.hard = hard],
                     !.call = IF m.kind = "host" /\ @ = "queued" THEN "lost" ELSE @]

AgentTerminates(p, i) ==
  /\ ag[p].agents[i].st \in {"starting", "ready", "disconnected"}
  /\ Fault("terminate")
  /\ SetAgency(p, Ending(ag[p], i, FALSE))
  /\ UNCHANGED hostDoc

(* unregister_agent(): a broker that is not connected raises before the    *)
(* host agent is started again.                                            *)
Unregistered(r, i) ==
  LET left == [r EXCEPT !.agents = RemoveAt(@, i)]
  IN  IF r.role = "none" THEN left ELSE StartHostAgent(left)

(* Unless it was killed, or cannot reach the database, the agent deletes   *)
(* its descriptor.                                                         *)
TerminationEnds(p, i) ==
  LET m == ag[p].agents[i]
  IN  /\ m.st = "terminating"
      /\ SetAgency(p, Unregistered(ag[p], i))
      /\ hostDoc' = (hostDoc /\ ~(m.kind = "host" /\ ~m.hard /\ ag[p].db))
      /\ NoFault

-----------------------------------------------------------------------------
(* host_agent_call() *)

HostAgentCall(p) ==
  /\ Up(p) /\ ag[p].call = "none"
  /\ LET r == [ag[p] EXCEPT !.call = "pending"]
     IN  SetAgency(p, IF \E i \in HostAt(r) : r.agents[i].st \in {"starting", "ready", "disconnected"}
                   THEN CallsFlushed(r) ELSE r)
  /\ UNCHANGED hostDoc /\ NoFault

HostAgentCalled(p) ==
  /\ ag[p].call = "queued"
  /\ SetAgency(p, [ag[p] EXCEPT !.call = "done"])
  /\ UNCHANGED hostDoc /\ NoFault

-----------------------------------------------------------------------------
(* The connections *)

Notify(r, from, to) ==
  [r EXCEPT !.agents =
     [i \in DOMAIN @ |-> IF @[i].st = from THEN [@[i] EXCEPT !.st = to] ELSE @[i]]]

(* ConnectionManager: the agents are told when the agency, which was as in  *)
(* "was", changes its own state; a repeated transition is dropped.         *)
OnDisconnected(was, r) == IF Online(was) THEN Notify(r, "ready", "disconnected") ELSE r
OnConnected(was, r) == IF Online(was) THEN r ELSE Notify(r, "disconnected", "ready")

AgencyDisconnected(p) ==
  LET lost(r) == SetAgency(p, OnDisconnected(ag[p], r))
  IN  /\ Up(p)
      /\ \/ ag[p].db /\ Fault("database") /\ lost([ag[p] EXCEPT !.db = FALSE])
         \/ ag[p].msg /\ Fault("messaging") /\ lost([ag[p] EXCEPT !.msg = FALSE])
      /\ UNCHANGED hostDoc

(* Mutant: the agents are not told. *)
BackQuietly(was, r) == r

(* _check_msg_and_db_state() *)
CheckMsgAndDbState(was, r) ==
  IF Online(r) THEN OnConnected(was, r) ELSE OnDisconnected(was, r)

AgencyReconnected(p) ==
  LET back(r) == SetAgency(p, CheckMsgAndDbState(ag[p], r))
  IN  /\ Up(p) /\ ag[p].shut # "done"
      /\ \/ ~ag[p].db /\ back([ag[p] EXCEPT !.db = TRUE])
         \/ ~ag[p].msg /\ back([ag[p] EXCEPT !.msg = TRUE])
      /\ UNCHANGED hostDoc /\ NoFault

-----------------------------------------------------------------------------
(* The broker and the life of the process *)

(* on_become_master() first adds its backends. *)
OnBecomeMaster(p) ==
  /\ Up(p) /\ ag[p].role = "none" /\ NoMaster /\ ag[p].shut # "done"
  /\ SetAgency(p, [ag[p] EXCEPT !.role = "master", !.promoted = TRUE])
  /\ UNCHANGED hostDoc /\ NoFault

BecameMaster(p) ==
  /\ ag[p].promoted
  /\ SetAgency(p, StartHostAgent([ag[p] EXCEPT !.promoted = FALSE]))
  /\ UNCHANGED hostDoc /\ NoFault

OnBecomeSlave(p) ==
  /\ Up(p) /\ ag[p].role = "none" /\ ~NoMaster /\ ag[p].shut # "done"
  /\ SetAgency(p, [ag[p] EXCEPT !.role = "slave"])
  /\ UNCHANGED hostDoc /\ NoFault

(* The slaves of a master lose it, and the calls to it fail. *)
Alone(r) ==
  LET s == [r EXCEPT !.role = "none"]
  IN  IF s.chain = "remote" THEN HostRestartFailed(s) ELSE s
Left(p, r) ==
  [q \in Agencies |-> CASE q = p -> r
                        [] q # p /\ Master(p) /\ ag[q].role = "slave" -> Alone(ag[q])
                        [] OTHER -> ag[q]]
RoomForTimers == \A q \in Agencies : ag[q].timers < MaxTimers

LoseRole(p) ==
  /\ Up(p) /\ ag[p].role # "none" /\ RoomForTimers
  /\ Fault("role")
  /\ ag' = Left(p, Alone(ag[p]))
  /\ UNCHANGED hostDoc

(* initiate() ends when the broker has its role. *)
StartupEnds(p) ==
  /\ ag[p].up = "starting" /\ ag[p].role # "none" /\ ~ag[p].promoted
  /\ SetAgency(p, StartHostAgent([ag[p] EXCEPT !.up = "running"]))
  /\ UNCHANGED hostDoc /\ NoFault

AgencyCrash(p) ==
  /\ Up(p) /\ RoomForTimers
  /\ Fault("crash")
  /\ ag' = Left(p, [FreshAgency EXCEPT !.up = "off", !.call = "lost"])
  /\ UNCHANGED hostDoc

Launch(p) ==
  /\ ~Up(p)
  /\ SetAgency(p, [ag[p] EXCEPT !.up = "starting"])
  /\ UNCHANGED hostDoc /\ NoFault

(* The monitor agents clean up after a host agent that is dead. *)
MonitorCleansUp ==
  /\ hostDoc
  /\ \A p \in Agencies : HostAt(ag[p]) = {} /\ ag[p].chain # "remote"
  /\ hostDoc' = FALSE
  /\ UNCHANGED ag /\ NoFault

-----------------------------------------------------------------------------
(* Shutdown *)

(* A second call replaces the options of the first. *)
ShutdownCalled(p, gentle) ==
  /\ Up(p) /\ ag[p].shut # "done"
  /\ Fault(IF gentle THEN "shutdown" ELSE "kill")
  /\ SetAgency(p, [ag[p] EXCEPT !.shut = IF @ = "no" THEN "initiated" ELSE @, !.gentle = gentle])
  /\ UNCHANGED hostDoc

(* An agent that cannot wait for anything leaves the list while the stage  *)
(* walks through it: one that has no connection yet, or one that is killed *)
(* and has nothing to do.                                                  *)
EndsAtOnce(r, m) ==
  m.st # "terminating" /\ (m.st = "waiting" \/ (~r.gentle /\ m.kind \in Prompt))

(* The walk passes over the one that follows. *)
Reaches(r) ==
  LET f[i \in 1..Len(r.agents)] == i = 1 \/ ~(f[i - 1] /\ EndsAtOnce(r, r.agents[i - 1]))
  IN  f

(* Waiting for an agent that was terminating already is an error, and then *)
(* the stage waits for none.                                               *)
StageAgents(p) ==
  LET r == ag[p]
      visited == {i \in 1..Len(r.agents) : Reaches(r)[i]}
      waits == \A i \in visited : r.agents[i].st # "terminating"
      ended(i) == [r.agents[i] EXCEPT !.st = "terminating", !.hard = ~r.gentle, !.awaited = waits]
      after == [i \in 1..Len(r.agents) |->
                  IF i \in visited /\ r.agents[i].st # "terminating" THEN ended(i) ELSE r.agents[i]]
      stays == {i \in 1..Len(r.agents) : ~(i \in visited /\ EndsAtOnce(r, r.agents[i]))}
  IN  /\ r.shut = "initiated"
      /\ SetAgency(p, [r EXCEPT !.shut = "agents",
                             !.agents = [k \in 1..Cardinality(stays) |->
                                           after[CHOOSE i \in stays :
                                                   Cardinality({j \in stays : j <= i}) = k]],
                             !.call = IF @ = "queued" /\ HostAt(r) \cap visited # {}
                                      THEN "lost" ELSE @])
      /\ UNCHANGED hostDoc /\ NoFault

(* Mutant: the stage waits for the agents there are, not for those it found. *)
StageInternalsAll(p) ==
  /\ ag[p].shut = "agents" /\ RoomForTimers
  /\ ag[p].agents = <<>>
  /\ ag' = Left(p, [Alone(ag[p]) EXCEPT !.shut = "done", !.db = FALSE, !.msg = FALSE])
  /\ UNCHANGED hostDoc /\ NoFault

(* _disconnect() closes the connections itself; no agent is told of it. *)
StageInternals(p) ==
  /\ ag[p].shut = "agents" /\ RoomForTimers
  /\ \A i \in 1..Len(ag[p].agents) : ~ag[p].agents[i].awaited
  /\ ag' = Left(p, [Alone(ag[p]) EXCEPT !.shut = "done", !.db = FALSE, !.msg = FALSE])
  /\ UNCHANGED hostDoc /\ NoFault

-----------------------------------------------------------------------------
HostInit ==
  /\ ag = [p \in Agencies |-> FreshAgency]
  /\ hostDoc = FALSE /\ hostFaults = 0

ChainRuns(p) == AskForHostDoc(p) \/ HostDocAnswered(p) \/ HostDocSaved(p)
AgentRuns(p, i) ==
  DbConnected(p, i) \/ Initiated(p, i) \/ BecomeReady(p, i) \/ TerminationEnds(p, i)
AgentsRun(p) == \E i \in 1..Len(ag[p].agents) : AgentRuns(p, i)
ShutdownRuns(p) == StageAgents(p) \/ StageInternals(p)

HostNext ==
  \/ \E p \in Agencies :
       \/ ChainRuns(p) \/ HostRequestFails(p) \/ RetryTimerFires(p)
       \/ StartOther(p) \/ AgentsRun(p)
       \/ \E i \in 1..Len(ag[p].agents) : InitiateFails(p, i) \/ AgentTerminates(p, i)
       \/ HostAgentCall(p) \/ HostAgentCalled(p)
       \/ AgencyDisconnected(p) \/ AgencyReconnected(p)
       \/ OnBecomeMaster(p) \/ BecameMaster(p) \/ OnBecomeSlave(p) \/ LoseRole(p)
       \/ StartupEnds(p) \/ AgencyCrash(p) \/ Launch(p)
       \/ ShutdownCalled(p, TRUE) \/ ShutdownCalled(p, FALSE) \/ ShutdownRuns(p)
  \/ MonitorCleansUp

HostSpec == HostInit /\ [][HostNext]_hostVars

(* The broker settles on its roles (module Broker), a process that died is *)
(* started again, requests are answered, connections come back, and a      *)
(* monitor agent cleans up after a host agent that is dead.                *)
HostFairness ==
  /\ WF_hostVars(MonitorCleansUp)
  /\ WF_hostVars(\E p \in Agencies : OnBecomeMaster(p))
  /\ \A p \in Agencies :
       /\ WF_hostVars(Launch(p))
       /\ WF_hostVars(OnBecomeSlave(p)) /\ WF_hostVars(BecameMaster(p)) /\ WF_hostVars(StartupEnds(p))
       /\ WF_hostVars(ChainRuns(p)) /\ WF_hostVars(RetryTimerFires(p))
       /\ WF_hostVars(AgentsRun(p)) /\ WF_hostVars(HostAgentCalled(p))
       /\ WF_hostVars(AgencyReconnected(p)) /\ WF_hostVars(ShutdownRuns(p))

FairHost == HostSpec /\ HostFairness

-----------------------------------------------------------------------------
(* The state of the agencies has its type. *)
HostTypeOK ==
  /\ \A p \in Agencies :
       /\ ag[p] \in [up : {"off", "starting", "running"}, role : {"none", "master", "slave"},
                    promoted : BOOLEAN, timers : 0..MaxTimers,
                    chain : {"no", "scheduled", "get", "save", "remote", "host"},
                    agents : Seq([kind : {"host", "other"}, by : Agencies \cup {Nobody},
                                  st : {"waiting", "initiating", "starting", "ready",
                                        "disconnected", "terminating"},
                                  awaited : BOOLEAN, hard : BOOLEAN]),
                    db : BOOLEAN, msg : BOOLEAN, gentle : BOOLEAN,
                    shut : {"no", "initiated", "agents", "done"},
                    call : {"none", "pending", "queued", "done", "lost"}]
       /\ ~Up(p) => ag[p].agents = <<>> /\ ag[p].role = "none"
  /\ \A p, q \in Agencies : Master(p) /\ Master(q) => p = q
  /\ hostDoc \in BOOLEAN /\ hostFaults \in 0..MaxHostFaults

(* _start_host_agent(): "we dont have a host agent running".  Whatever the *)
(* roles do while a start is on its way, the host never has two, in one    *)
(* agency or in two.                                                       *)
Running(p) == {i \in HostAt(ag[p]) : ag[p].agents[i].st # "terminating"}

OneHost ==
  /\ \A p \in Agencies : Cardinality(Running(p)) <= 1
  /\ \A p, q \in Agencies : p # q => Running(p) = {} \/ Running(q) = {}

(* host_agent_call(): "If it is still being started the method will be     *)
(* called when he is ready."  No call waits at an agency whose host agent  *)
(* has become ready.                                                       *)
NoCallWaits ==
  \A p \in Agencies : \A i \in HostAt(ag[p]) :
    ag[p].agents[i].st \in {"ready", "disconnected"} => ag[p].call # "pending"

(* An agent that has been told of a lost connection is told when both are  *)
(* back, however losses, returns and the agents' starts follow each other. *)
ToldWhenBack ==
  \A p \in Agencies : \A i \in 1..Len(ag[p].agents) :
    ag[p].agents[i].st = "disconnected" => ~Online(ag[p])

(* What holds of the agencies of a host at any moment.                     *)
HostSafe == HostTypeOK /\ OneHost /\ NoCallWaits /\ ToldWhenBack

(* The host gets its agent, again and again, as long as nobody shuts an    *)
(* agency down.                                                            *)
HostRuns ==
  []<>(\E p \in Agencies :
         ag[p].shut # "no" \/ \E i \in HostAt(ag[p]) : ag[p].agents[i].st = "ready")

(* A shutdown ends, whatever the agents it waits for were doing. *)
ShutdownEnds == \A p \in Agencies : ag[p].shut # "no" ~> ag[p].shut = "done" \/ ~Up(p)

(* A host gets its agent, and an agency that is shut down gets there.      *)
HostGoesOn == HostRuns /\ ShutdownEnds

-----------------------------------------------------------------------------
(* What the code says and does not do *)

(* net/agency.py, shutdown(): "terminate all the agents".                  *)
AllAgentsEnd ==
  \A p \in Agencies : ag[p].shut = "done" => ag[p].agents = <<>>

(* _start_host_agent(): "we are not terminating".                          *)
NotWhileTerminating ==
  [][\A p \in Agencies : ag[p].shut # "no" /\ Running(p) = {} => Running(p)' = {}]_hostVars
=============================================================================
