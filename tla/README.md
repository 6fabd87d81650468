# Feat: TLA+ models and proofs

Feat runs *agents* inside *agencies*.  An agent is a document in a database (its
*descriptor*) and an object that talks to other agents by *protocols*; the agency
keeps a *medium* for each running protocol (a state machine, one timer, a list of
calls of the agent's code) and hands messages to it.  Everything runs on one
Twisted reactor per process: there are no threads, so what makes the code hard is
the order of timers, messages, delayed calls and Deferreds that fire later, with
agents that crash, are killed and are restarted elsewhere.

This directory holds TLA+ modules translated from the Python code (paths below are
relative to `src/feat/` of the repository), TLC configurations that check them on
small instances, and TLAPS proofs for any instance.

    tlc -config MCContract.cfg MCContract     # check one run
    tlapm ContractProofs.tla                  # check the proofs of a module

`PROJECT.json` lists the runs, the mutants (each property is broken by a plausible
bug in a definition it depends on; the mutated definitions stand next to the
originals and are marked `Mutant:`), the source lines of every definition, the
hazards and the theorems.

## 1. Inventory

### Components, their state and their operations

| component | source | state | operations |
|---|---|---|---|
| protocol base classes | `agencies/common.py` | state, one timer, agent-side jobs, finalized | `set_timeout`, `call_agent_side`, `_run_and_terminate`, `_error_handler`, `finalize`, `cleanup` |
| contracts | `agencies/contracts.py` | manager; its view of each contractor; contractors | announce, bid, refuse, grant, reject, elect, complete, defect, cancel, terminate, handover; a handler for each message and timer |
| requests | `agencies/requests.py` | requester, replier | request, reply, timeouts |
| interests | `agencies/protocols.py` | slots in use, queue of messages, revoked or not | `schedule_message`, `_message_processed`, `revoke` |
| notifications | `agencies/notifications.py` | poster, collector | notify, on_message |
| tasks | `agencies/tasks.py` | performing, completed, expired, error | initiate, terminate, fail, timeout |
| retrying protocols | `agencies/retrying.py` | attempt, delay, delayed call, running initiator | bind, retry, cancel, give_up |
| agent in its agency | `agencies/agency.py` (AgencyAgent) | life cycle, descriptor copy, update queue, registered protocols, delayed calls | start-up, `update_descriptor`, `terminate`, `terminate_hard`, join and leave shard |
| agency | `agencies/agency.py` (Agency) | its agents, its connections | start and shut down agents, snapshots |
| resources | `agents/base/resource.py` | definitions, promised allocations, allocations in the descriptor | preallocate, premodify, confirm, allocate, release, expiration |
| partners | `agents/base/partners.py` | partnerships in the descriptor | establish, goodbye, restart and burial of a partner |
| problem solver | `agents/base/problem.py` | the brothers and their weights | elect the solver |
| monitor: clerk | `agents/monitor/clerk.py` | patients, locations, state of the monitor, delayed calls | patient dying/died/resurrected/added/removed, quarantines, disconnected/reconnected |
| monitor: intensive care | `agents/monitor/intensive_care.py` | heartbeats and states of patients | add, remove, beat, check |
| monitor: pacemaker, monitor agent | `agents/monitor/pacemaker.py`, `monitor_agent.py` | pacing, tasks that handle deaths, neighbours | heartbeat, handle a death, restart strategies |
| host, shard, resource, integrity, dns, alert, nagios agents | `agents/*/` | their resources, partners and descriptors | start agents, split shards, allocate, ... |
| messaging | `agencies/messaging/` | routes, seen message ids, tunnels, connection states | post, dispatch, bind, connect |
| net agency and broker | `agencies/net/` | master, slaves, broker connection | become master or slave, take over |
| journaler | `agencies/journaler.py` | queue of entries, writer state | insert, flush, reconnect, rotate |
| database | `database/` | revisions, change listeners, lock of notifications, views | save, get, delete, changes, query |
| fibers, deferreds, observers, containers, serialization | `common/` | - | - |
| models, gateway, web | `models/`, `gateway/`, `web/` | trees of models, HTTP connections | browse, act |
| simulation, process | `simulation/`, `process/` | test drivers, external processes | - |

### How they interact

* Agent code calls its medium; the medium posts messages through the messaging
  channel, which drops duplicates by id and expired messages and hands the rest to
  the medium (by protocol id) or to an interest, which creates a medium.
* A medium calls agent code through `call_agent_side()`, always by a queued call
  that checks the protocol's state when it runs; a hook may return a Deferred, so
  everything can happen between a call and its end.
* `finalize()` unregisters the protocol and fires `notify_finish()`, on which the
  interest's slots, fibers of callers and the termination of agents depend.
* Anything an agent wants to survive is in its descriptor: resources, partners
  and the instance lock all go through the one queue of updates, saved one at a
  time against the revision of the instance's copy.
* The monitor's clerk hears from the intensive care, decides who is dead and tells
  the coroner (the monitor agent), which restarts agents, which locks descriptors.

### What is hard

Timers racing answers; late ends of hooks; messages overtaken, lost or
duplicated; protocols killed half-way; updates of one document from several
instances; state that is read before a save and used after it; loops over
dictionaries whose body calls back into the owner of the dictionary.  The complete
list, with lines and the properties that cover each, is `hazards` in `PROJECT.json`.

### What would make each component correct

| component | correct means |
|---|---|
| base classes | one job list, one timer; nothing reaches the agent after `finalize()`; `finalize()` is always reached |
| contracts | all granted contractors are acknowledged or all are cancelled; every bid gets exactly one answer; everybody ends |
| requests, interests | one outcome for each request; a slot for each running replier, never lost; nobody waits while a slot is free |
| tasks, retrying | the waiter is told exactly once; cancel stops for good |
| descriptor | an update reported as saved stays; order of updates kept; one writing instance; the others terminate |
| resources | what is promised and allocated never exceeds what there is; what is confirmed stays until released |
| clerk | one report for each death, none before the quarantine, none forgotten; no quarantine or pause without an end |
| partners | both sides agree on the partnership once no message is in flight |
| messaging | an entry is routed at most once, and once somebody is bound |
| broker | one master; slaves of a lost master elect one |
| journaler | no entry lost or reordered by a reconnection |
| database client | a listener hears each foreign change once and none of its own |

## 2. Modules

| module | models | extends or instantiates |
|---|---|---|
| `AgencyMiddle` | the base class of media, as operators on one record | |
| `ContractNet` | the messages of one contract, lost and reordered freely, taken at most once | |
| `ContractManager` | `AgencyManager` and `ManagerContractors` | `ContractNet`, `AgencyMiddle` |
| `ContractContractor` | `AgencyContractor`, one medium for each contractor | `ContractNet`, `AgencyMiddle` |
| `Contract` | manager and contractors composed; the properties | the two above; `INSTANCE ContractOutcome` |
| `ContractOutcome` | abstract: jobs awarded together, then acknowledged as a whole or abandoned | |
| `Requests` | requesters, the interest with its limit and queue, repliers | `AgencyMiddle` |
| `Descriptor` | instances of one agent, their update queues, the database and its change feed | |
| `AgentLife` | one agent: start-up, registry of protocols, tasks, retrying protocols, delayed calls, termination | `AgencyMiddle`; `INSTANCE AgentLifeCycle` |
| `AgentLifeCycle` | abstract: the order of the states of an agent that its watchers are promised | |
| `AgencyHost` | the agencies of a host, the host agent, the calls that wait for it, lost connections, shutdown | |
| `Broker` | the brokers of the agencies of a host: socket file, master, slaves, shared state | |
| `Messaging` | the channel to RabbitMQ: calls, reconnection, flush, bindings, delivery | |
| `Journaler` | the journaler, its writers and targets: flush, fall back, migration, rotation, close | |
| `Resources` | promised and confirmed allocations of a scalar and a range, and their saves | |
| `Partners` | both sides of partnerships: proposals, goodbyes, breakups, substitution, restarts | |
| `Clerk` | patients, locations and the clerk, with the checks of the intensive care | |
| `Death` | the death of an agent: `HandleDeath` tasks of several monitors, the solver, restart strategies | |
| `MCAgentParts` | `Resources`, `Partners`, `Clerk` and `Death` side by side, each alone | those four |
| `MC*` | the others for TLC: model values and symmetry | |
| `AgencyMiddleProofs`, `ContractProofs`, `RequestsProofs`, `StorageProofs` (of `Descriptor` and `Journaler`), `AgentLifeProofs`, `AgencyHostProofs` (of `AgencyHost` and `Broker`), `AgentPartsProofs` (of `Death` and `Resources`), `PartnersProofs` | theorems | the modules they prove about |

`MCAgentParts` bundles four parts of agents that do not meet in the code but are too
small for a run each: the variable `part` says which of them runs in a behaviour, and
the others stay where they are.

How state and steps correspond to the code:

* **A medium is one record** (`AgencyMiddle`): `state`, `timer` (the state it will
  set and the hook it will call), `jobs` (`_agent_jobs`), `final`, `registered`,
  `asserted` (the assertion of `call_agent_side()` failed).  Operators have the
  names of the methods.  A *job* is an agent-side call that is queued, running, or
  passed on by a timer; its end (`EndJob`) and failure (`FailJob`) are actions.
* **Agent code is arbitrary**: any public method of the medium may be called at any
  time its own guard (`_ensure_state`) allows; each hook ends at once, later, or
  by raising if it is in `FailingHooks`.
* **Messages** are a set of posted ones and a set of those taken.  A message that
  is never taken is a lost one, so no separate action loses messages; duplicates
  are dropped by the channel, except the duplicated *announcement* (another
  message id, same traversal id), which `Revisited` contractors get.
* **`Contract`** has one manager, its `view` of contractors (`ManagerContractors`),
  and a medium for each contractor.  `Nested` contractors are those a contractor's
  own nested manager found; their bids arrive by `Handover`.  What an external
  agent would need a second `Contract` for (the nested manager) is not modelled.
* **`Requests`**: `active` is the interest's counter, `queue` its queue, `calls` the
  pending `call_next(medium.on_message)`.  The queue is a set: the code's ExpQueue
  orders by expiration, which the model leaves open.  Requests may expire in it.
* **`Descriptor`**: a document is the sequence of updates it is made of, its
  revision their number.  Each instance has the copy, the queue, one save and one
  deletion in flight, the delayed calls of `_next_update()` and `terminate_hard()`,
  and the changes that it was notified of or has buffered while locked
  (`RevisionAnalytic`).  A request given up or orphaned by a crash goes to `stray`
  and may be stored at any later time.  The database is external: it takes a
  document made from the current revision and refuses any other.
* **Chains of callbacks**: in `AgentLife`, `Journaler` and `Clerk` an operation is a
  function from a record of the state to the record after it, in the order of the
  code's calls, and an action is one turn of the reactor.  `AgentLife` has `calls`
  (delayed calls) and `links` (the connections to messaging and database that are
  open); the end of the last protocol runs the rest of the termination before it tells
  the one who waits.  The loop that cancels the long-running protocols is a function
  over their positions (`CancelLongRunning`), each turn being `CancelNth`, since it
  walks the very list that `cancel()` shortens.
* **`AgencyHost`**: each agency has its role, the agents it runs, the chain of
  `_start_host_agent()` with its timers, and the state of its shutdown.  `hostDoc` is
  whether the host agent's descriptor is in the database.  What an agent does between
  its states is `AgentLife`'s, and how a role is won is `Broker`'s: here each is one
  step.  Agents hear of a lost or returned connection only when the state of the agency
  as a `ConnectionManager` changes (`OnDisconnected`, `OnConnected`).
* **`Broker`**: every process is one record with its place `pc` in
  `initiate_broker()` and in the handshake.  `file` is the process whose socket the
  path leads to; binding, listening, connecting and unlinking are steps of their own,
  as they are system calls of different processes.  A slave that cannot connect removes
  the socket, also when there is none any more, in which case it is not heard of again
  (`Failed`, `missing`).  `sent` and `got` are the two directions of the slave's
  connection, in order.
* **`Messaging`**: `net` is the connection and the factory, `ch` the `Channel` (the call
  that is running, the chain of calls behind it, the count of bindings), `con` the
  loops that consume the queue, `srv` the external server with its queue and bindings,
  `post` and `got` the fate of each message.
* **`Journaler`**: `jour` is the journaler with its cache and the target in use, `wr`
  the writers it has made, each with its own cache and connection, `store` what each
  target holds.  `env` counts entries, faults and orders (`MaxEvents`).  `mig` is the
  migration to the primary writer, which reads all entries at once where the code reads
  a thousand at a time; it takes entries out by their timestamps (`Times`).
* **`Resources`**: `mods` is the ExpDict of promises, `conf` the allocations in the
  descriptor, `queue` the updates on their way.  An update is computed on a copy
  and takes effect when its save is answered, as in `_next_update()`.
* **`Partners`**: `pact` is the partners in each descriptor, `prop` the proposals with
  the allocations made for them on both sides, `bye` the goodbyes under way, and each
  agent has its queue of updates.  What an agent's handlers want (to break up, to
  leave, to propose twice, ...) is the `Manners` of the scene.
* **`Clerk`**: the methods call each other and loop over dictionaries in between, so
  an action applies one of them in every order that the dictionary may have.  What a
  check sees of each patient is arbitrary, which stands for late and lost heartbeats
  and for all timing.
* **`Death`**: the document of the dead agent is a revision and an instance number;
  each monitor has its `HandleDeath` task, its solver and the message it waits for.
  A solver only ever removes its left neighbour from its list of brothers, so the list
  is the number of them that it still sees `ahead`; `Place` is what it begins with.
  While it resolves the problem itself its 60 seconds (`problem.py:115`) go on:
  `SolverExpires` has a disjunct for what is cancelled at each place of `_retry()`.
  The contract between the solvers is abstract here (`ContractOutcome` says why it
  may be).

## 3. Runs

Deadlock is not checked: a protocol ends, and then nothing happens; elsewhere the
bounds of the instance end it.

| run | instance | checks |
|---|---|---|
| `contract` | 1 manager, 2 contractors, late and lost messages, hooks called directly may raise (1.6 M states) | `TypeOK`, `AllOrNothing`, `OneAnswer`, `NotReopened`, `ImplementsOutcome` (refinement of `ContractOutcome`) |
| `contract_live` | 2 contractors, one nested; a broadcast; hooks that fail, agents that are killed (644 k) | `NoBidForgotten`, `DelegatedIsOut`, `Finishes` |
| `expired_after_grant` | violated | `ExpiredWithoutGrant` |
| `requests` | 2 requesters, limit 1, 2 replies each, failing hooks, killed agent (20 k) | `TypeOK`, `SlotsConserved`, `WaitsOnlyWhenFull`, `OneOutcome`, `RequestsEnd` |
| `descriptor` | 2 instances, lock and one update each, all faults (1.7 M) | `TypeOK`, `NoLostUpdate`, `InOrder`, `OneOwner`, `NoFalseAlarm` |
| `descriptor_live` | 2 instances, one with two updates besides its lock; saves that are refused or superseded | `UpdatesAnswered`, `StaleEnds` |
| `agent_life` | a task and a retrying protocol with 2 attempts, which may be cancelled; start-up that fails anywhere; termination of both kinds (420 k) | `TypeOK`, `Quiet`, `RetriesSound`, `ImplementsLifeCycle` (refinement of `AgentLifeCycle`), `GoesWhenTold` |
| `journaler` | 2 targets, 2 entries, 4 faults or orders, of four and three kinds (959 k) | `EntriesSafe`, `Delivered` |
| `broker` | 3 processes, 3 starts, 1 stop or crash, 2 agents or writes (244 k) | `AgenciesAgree`, `Settles` |
| `messaging` | 1 address, 1 message in, 2 out, 2 lost connections, four kinds of fault | `DeliverySafe`, `GetsThrough` |
| `agency_host` | 2 agencies, 1 fault of eight kinds, shutdown of both kinds (173 k) | `HostSafe`, `HostGoesOn` |
| `agent_parts` | resources: scalar of 2, two ports, 3 allocations or changes, failing saves, restarts; partners: 2 or 3 agents, room for 1 or 2 allocations, 2 proposals, 1 goodbye, five scenes; clerk: 3 patients, 2 locations, with and without quarantine; death: 3 monitors, ten cases of restart strategy, crash, late answer and expiring solver (1.5 M) | `PartsTypeOK`, `Fits`, `PartnersSafe`, `ClerkSafe`, `NotBeforeQuarantine`, `DeathSafe`, `EndsWhenSettled` |

The bounds, and why they are enough:

* Two contractors are the least with which a contract can be acknowledged as a
  whole or not; one is granted while the other still bids, reports or defects.
  The safety properties and the refinement are proved for any number.
* One slot and two requests make the second wait, and expire, in the queue; the
  repliers end in every way.  The safety properties are proved for any limit.
* Two instances of an agent: the old one and its successor, either order of start
  and of everything in flight.  In `descriptor_live` one of them has its lock, one
  update in flight and one that waits.  The safety properties are proved for any
  number of instances and updates.  The run passes too with `Events = {"failure"}`,
  in five minutes.
* A task ends before, during or after an attempt of the retrying protocol; two
  attempts have one delay between them.  The safety properties and the refinement are
  proved for any number of tasks, attempts and retrying protocols.
* Two targets: one to fall back to and one to go back to.  Two entries can be
  reordered; each fault may meet each step.  `MaxWriters = 6` is never reached.  The
  timestamps of the run are in order; `EntriesSafe` also holds with `Times` `<<2, 1>>`
  and `<<1, 1>>`, and `NothingLost` is proved for any.
* Three processes: a master, a slave and one that takes over.  Two agencies: the one
  that has the host agent and the one that wants it.  Both are proved for any number.
* Two outgoing messages: one that was sent before a flush and one within it.
* Three allocations or changes: one allocation and two changes of it, or two that
  compete while a third is confirmed.  `MaxMade` and `MaxQueue` bound the model, not
  the code; ports start at 1.
* Two agents that propose to each other at once, or twice; a third to substitute one;
  three that compete for resources for one allocation.
* Three patients on two hosts: the monitor's own host and another, one of them with
  two patients, so that one can die beside a live one.
* Three monitors, of which one is not known to the agent that died.

Fairness (`FairSpec` of each module) is weak fairness of what the reactor, the
database or the server does by itself: due timers fire, queued calls run, hooks end,
requests are answered, changes are delivered, delayed calls are made, connections are
tried again.  In `AgentLife` and `Journaler`, where an action is one turn of the
reactor, it is: as long as anything is due, now and then it is done.  Nothing is
assumed of messages between agents or of what agents decide to call; so the liveness
properties say that every timer that is needed is set.  Every one of these actions
stays enabled until it is taken or disabled for good, so weak fairness is what the
reactor gives.  `Settles` and `GetsThrough` name the places where the code itself
stops trying (`stuck`, `Poisoned`, `Stranded`), and `Delivered` what the
journaler does not deliver (`Abandoned`, `Interrupted`, `Misdated`); without those they
do not hold (next table).

### Disagreements between code and documentation

One is a run: `expired_after_grant`.  A `grant()` from inside `bid()`, which the
interface of the manager invites, is undone by `_check_if_should_goto_close()`: the
contract expires with contractors granted (`agencies/contracts.py:412`).

These are stated in the modules too, and TLC finds each of them violated (put the
formula in the configuration named here, with the constants changed as given):

| formula | configuration | what happens |
|---|---|---|
| `AbortedAllCancelled` | `MCContract` | `_on_grant_expire()` sends no Cancellation (`contracts.py:329`) |
| `AbortedNotAcknowledged` | `MCContract` | the timer of `complete()` outlives the Acknowledgement (`contracts.py:640`) |
| `NoCallAfterFinalize` | `MCContract` | the end of a late `bid()` calls a finalized manager (`contracts.py:344`) |
| `CompletedIsReported` | `MCContractLive`, with `DirectHooksFail = TRUE` | a `completed()` that fails leaves the manager for ever (`contracts.py:404`) |
| `ElectedGetRejected` | `MCContract` | `terminate()` rejects only the state *bid* (`contracts.py:269`) |
| `CancelTerminates` | `MCContract` | `cancel()` with nobody to cancel fails on an unbound variable (`contracts.py:263`) |
| `ClosedWhenAnswered` | `MCRequests` | an answered requester stays in the state *requested* (`requests.py:117`) |
| `NoReplyAfterFinalize` | `MCRequests` | a second reply reaches a finalized requester (`requests.py:119`) |
| `RemovedWhenTerminated` | `MCDescriptor` | the deletion races a save in flight and loses (`agency.py:881`) |
| `EveryUpdateAnswered` | `MCDescriptorLive`, with `Events = {"terminate"}` | termination cancels the call that would start the update behind the one in flight (`agency.py:826`) |
| `life = "terminated" => Left = {}` | `MCAgentLife`, with `Retrying = {r1, r2}`, `MaxTasks = 0` | `_cancel_long_running_protocols()` walks the list that `cancel()` shortens, so the second retrying protocol is not cancelled (`agency.py:870`) |
| `Quiet` | `MCAgentLife`, with `Habits = {"early"}`, `{"abrupt"}` or `{"persistent"}` | a protocol or delayed call that starts while the agent terminates is left behind |
| `RetriesSound` | `MCAgentLife`, with `Habits = {"early"}` | the chain that starts the agent goes on beside its termination and changes its state back; a retrying protocol bound meanwhile has its attempt killed and a waiter that nobody tells |
| `ImplementsLifeCycle` | `MCAgentLife`, with `Habits = {"early"}` | an agent told to go during start-up is set *ready* by the chain that goes on (`agency.py:141`) |
| `TerminationEnds` | `MCAgentLife`, with `Habits = {"persistent"}` or `{"restless"}` | an agent that starts protocols whenever one ends is never done |
| `Kept` | `MCJournaler`, with `MaxEntries = 3`, `MaxEvents = 4`, `Orders = {"reconnect"}` | an interrupted migration loses entries |
| `ToldWhenStored` | `MCJournaler` | `insert_entry()` is answered while its entry is in a cache (the tests read it back from the writer, `test_agencies_journaler.py:149`) |
| `BackToPrimary` | `MCJournaler`, with three targets | `reconnect_to_primary_writer()` ends with another target in use |
| `StaysClosed` | `MCJournaler` | a failure that comes after `close()` opens a writer |
| `Delivered` without `Abandoned` | `MCJournaler` | a flush waits for a connection that nobody makes |
| `NothingLost` without `Misdated` | `MCJournaler`, with `Times` `<<2, 1>>` | the old writer is still inserting during a migration: its entry has the earlier timestamp and is deleted in place of the one that was copied (`journaler.py:588`) |
| `OneMaster` | `MCBroker` | a socket that looks stale is removed from the agency that has just bound it (`broker.py:250`) |
| `Tracked` | `MCBroker`, with `Habits = {"hasty"}` | an agent that starts or stops while the broker connects is not registered, or never unregistered |
| `Recovers` without `Poisoned` or `Stranded` | `MCMessaging` | a call that was told of an error is tried again for ever; a connection lost before authentication is not missed (`net.py:71`) |
| `AllAgentsEnd` | `MCAgencyHost` | an agent that starts while the shutdown waits is left; `kill()` walks `_agents` while it shrinks |
| `NotWhileTerminating` | `MCAgencyHost` | `_start_host_agent()` checks its conditions before it waits, not after |
| `NothingTwice` | `MCAgentParts` | between `confirm()` and the end of its save the allocation is counted nowhere (`resource.py:641`), and is given again |
| `ConfirmedKept` | `MCAgentParts` | ids start at 1 again in each instance, so the first allocation confirmed after a restart overwrites an old one (`resource.py:602`) |
| `SomebodyWasAlive` | `MCAgentParts` | the first patient that a check finds dead on a failed host is reported, as those visited later still count as alive (`clerk.py:109`) |
| `ResumedWhenReconnected`, `PausedOnlyWhenCut`, `QuarantineEnds` | `MCAgentParts`, with `Cuts = {TRUE}` | the loop that pauses the locations is interrupted by one that resumes them, and goes on (`clerk.py:392`) |
| `NothingWhenDisconnected` | the same | a location that becomes known while disconnected is not paused (`clerk.py:319`) |
| `NoLiveAgentRestarted` | `MCAgentParts` | the instance is compared before the restart is asked for, not when it is done (`monitor_agent.py:383`) |
| `NoTaskLeft` | `MCAgentParts` | a task whose solver lost stays in `handler_tasks` after the death is settled |
| `DeathRemembered` | `MCAgentParts`, with `Partnered = {m1, m2}` | the monitor that resolves crashes, and those that knew have forgotten |
| `NeverStranded` | `MCAgentParts`, with `Partnered = {m2, m3}` or a case *wherever* with a crash or with *touches*, or `slow = 3` | a task that has failed keeps every later report from being handled |
| `OneResolver` | `MCAgentParts`, with a case with `lost = TRUE` | a lost announcement leaves two solvers elected |
| `OneResolver` | `MCAgentParts`, with `Brothers = <<m1>>` and a crash | of two monitors that are not in the descriptor neither knows of the other, and both remove the one that crashed |
| `NoAllocationLost` | `MCAgentParts`, with a scene of more than *breakup* | `create()` finds the partner that the other proposal made, and this one's allocation is kept by nobody |
| `SidesAgree` | `MCAgentParts`, with *fickle* in a scene | an agent breaks up with a partner while a proposal between them is open: one side keeps the other |
| `SidesAgree`, `AllocationsExist` | `MCAgentParts`, with *restarted* and *breakup* in a scene | `update_partner()` appends a partner that was removed meanwhile |
| `AllocationsExist` | `MCAgentParts`, with *restarted* and *leave* in a scene | the same, with the allocation of a partner that has left |
| `AllocationsExist` | `MCAgentParts`, with *substitute* and *hasty* and three agents | `_release_allocation()` releases the old partner's allocation |
| `AllocationsExist` | `MCAgentParts`, with *substitute*, three agents, `MaxProposals = 3`, `MaxSlots = 3` | a partner that is removed because the new one is a partner already is being replaced by a third proposal |
| `SidesAgree` | `MCAgentParts`, without the mark in `Failed` | a proposer that runs out of resources after the other side has accepted leaves it with a partner (`requester.py:168`) |

Seen while translating, and not in a formula: `cancel()` of a retrying protocol with a
delayed call tells nobody who waits, and `_delayed_call` is never reset
(`retrying.py:153`); `disconnect()` of a broker that is connecting does nothing;
`register_agent()` before the handshake raises a KeyError in the master; the
connection of a broker that is lost before `become_slave()` is not made again; a failing
`add_backend()` leaves a sink behind, and a sink that raises stops the loop that
consumes; `release()` of the messaging iterates over the list it changes; an sqlite
target that cannot be opened is never left for the next; `requester.py:137` uses a name
that it does not import; `unregister_agent()` with a disconnected broker raises, before
the host agent is started again; a second call of `shutdown()` replaces the options of
the first.

## 4. Proofs

All theorems but the two refinements are of the form `Spec => []P`, for a state or a step
`P`, from an inductive invariant `Inv` with `Init => Inv`, `Inv /\ [Next]_vars => Inv'`
and `Inv => P`.  The
assumptions are the named `ASSUME`s of the modules: finiteness of the set of
contractors, requesters or processes where sets are counted, a positive limit, types
of switches and bounds.  Nothing is assumed of the sizes.

* **`AgencyMiddleProofs`** has a lemma for each method of the base class: it maps
  media to media, for any sets of hooks, states and timers.
* **`ContractProofs`**: `TypeOK`, `AllOrNothing` (its two halves are
  `AckOnlyWhenAllReported` and `AckOrCancel`), `OneAnswer`, `NoBidForgotten`,
  `NotReopened`.  `Inv` relates what the manager believes (`view`) to what it has
  posted (`sent`): a held contractor was sent its grant; once anybody has been sent a
  grant the manager is past the announcement for good and no bid is left, so that the
  late checks of `bid()` find nothing to close; the aborting timer exists only then; an
  Acknowledgement excludes the states granted and cancelled, a Cancellation granted
  and completed.  None of the properties is inductive alone: e.g. `NotReopened` fails
  from a state with a grant and a bid left, which `NoBidForgotten` excludes, which in
  turn needs the timers.  Steps that only touch the manager's medium go through one
  lemma (`QuietInv`).
  Then `DelegatedIsOut`, and `Refinement`: `Spec => ImplementsOutcome`.  `Inv` says nothing of the contractors; `FullInv` adds that one
  that works or has reported was sent its grant (`WorkInv`), that the manager answers
  only bids that were sent (`BidInv`), and that a contractor that is announced to
  directly bids in its own name or hands a nested bid over, never both
  (`DelegateInv`).  The steps then fall in cases: a grant is the abstract *Award*,
  electing a contractor *Withdraws* its job from the award, `complete()` is a
  *Report* unless the job was withdrawn, the manager's step on the last report is
  *Acknowledge*, a cancellation or a defection is *Abandon*, and every other step is a
  stutter.
* **`RequestsProofs`**: `TypeOK`, `SlotsConserved`, `WaitsOnlyWhenFull`,
  `OneOutcome`.  `SlotInv` adds that a queued request has been taken and has no
  replier yet, so that starting it registers exactly one more; `OutcomeInv` that
  `got_reply()` is pending only in the state requested with no timer left, and
  `closed()` only in the state closed.
* **`StorageProofs`**, of `Descriptor`: `TypeOK`, `NoLostUpdate`, `InOrder`, `OneOwner`,
  `NoFalseAlarm`.  Every copy of the document, kept or in a request, is a prefix of
  the document, so a request made from the current revision only adds its update; a
  copy in which an instance has written ends with what it wrote; and it is older than
  what the instance has yet to write.  For `NoFalseAlarm`, `AlarmInv` adds that an
  instance that is up, and that was never told that a request of its own failed, has
  a copy of everything it has written but for the save it waits for - so a revision it
  does not know is somebody else's, in whatever order the answer and the change
  arrive - and that no stray request is such an instance's.
  Of `Journaler`, without conditions: `JournalerTypeOK` (`JournalerTyping`) and
  `NothingLost` (`EntriesAreKept`), from `JInvariant`.  `ControlOK`: one operation of a
  writer at a time works on its cache, those in its queue wait for it, and a flush is
  written by the writer that it was given to.  `EntriesOK`: what the flush has fetched
  is in that writer's cache or its target, so the journaler may drop it when the flush
  is done; what a migration has read, and everything inserted before it, is in another
  target than its source or in the journaler's cache behind what was fetched before the
  migration (`Survives`), so it may be deleted from the source.  Deletion is by
  timestamp, which is the order of insertion but for entries that are `Misdated`; that
  no other entry is among those deleted needs that until a migration each entry comes
  after all before it, in stores and caches alike (`Closed`, `Supported`).  Since an
  operation is a function from a state to a state, there is a lemma for each that says
  what it leaves alone (`Frame`) and whether the flush goes on, is given up or is over
  (`Flow`), and a chain of operations is a chain of such lemmas.
* **`AgentLifeProofs`**: `TypeOK` without conditions (`LifeTypeCorrect`); `RetriesSound`
  and the refinement `ImplementsLifeCycle` if the agent is not killed while it starts up
  (`InTime`; theorems `RetriesGoOn` and `LifeCycleImplemented`), of which the part that
  needs no condition is `RetriesStop`; `Quiet` if it is not killed between a
  `call_next()` and its call either, and starts no retrying protocol in its shutdown
  (`Calm`), and has at most one retrying protocol (`Single`; theorem
  `TerminatedIsQuiet`).  Without `Single` there is `TerminatedLeaves`: all that is left
  belongs to a retrying protocol that was not cancelled.  TLC finds each property
  violated without each of its conditions (the table above).  As an operation is a
  function from a state `s` to a state `z`, `Inv` is a predicate of a state, and the
  lemmas say of each operation how `z` differs from `s`: by media only (`Quietly`), by
  one retrying protocol (`Around`), by a stage of the termination (`Dies`).  Each kind
  of difference keeps `Inv` by one lemma, so a chain of calls is a chain of such lemmas.  `RetryFits` is the token of a retrying protocol: it
  is bound, or has one task that runs, or one delayed call.  `Ordered` ties how far the
  start has come to the state of the agent; `Ending` says what each stage of the
  termination has left behind it; `Reached`, that a single retrying protocol is in the
  list of long-running protocols as long as it goes on.  The loop over that list is a
  recursive function, and `LoopKeeps` shows by induction over its turns (on a set of
  numbers, from the library's theorem that `<` is well-founded) that what every turn
  keeps it keeps too.
* **`AgencyHostProofs`**, of `AgencyHost`: `HostSafe`.  `HostInv`: the descriptor in the database is a
  lock.  A host agent is registered only by the save that creates the descriptor, and
  the descriptor goes only with the agent or when no agency has one.  An agency has at
  most one agent of each kind, and the agencies together at most one host agent, even
  while it terminates.
  Of `Broker`: `AgenciesAgree` unless agents are *hasty* (`Agreement`); without
  that condition all of it but `Tracked` (`SharedState`), which the table above shows
  violated.  `Inv`: a connection is a conversation.  A slave has one request
  outstanding at most, and its place in the conversation says what it may hear; from
  the handshake on it is among the master's slaves; the last value that the slave will
  hear is the master's, unless it has sent one that the master will tell it again; and
  the last that it has said of its agent is true.  `FileInv` ties the socket file to
  the role.  The proof found a fault of an earlier model, in which an agency that had
  crashed still heard answers; `Hears` now says who does.
* **`AgentPartsProofs`**: `EndsWhenSettled` (`SettledFirst`, without conditions) and
  `DeathSafe` if what happens is `Mild` (`NoDeathForgotten`).  `EndInv`: whoever is told
  that another monitor has the solution is told by the end of that one's task, or
  because its own document has an older instance - and then a later one runs.
  `AheadInv`: every brother that a solver has removed is down, so of two solvers that
  are alone on their lists the first one's place would be empty; that gives one
  resolver if no announcement is lost and at most one monitor is not in the descriptor
  (`Heard`, theorem `OneResolves`).  `CalmInv`: while the death is not settled, an open
  task has no broken answer and tries left for every grant that may still expire -
  each uses up a late answer, or a crash, which counts as pending until the grant that
  waits for the crashed monitor expires - and the one that resolves it has a step to
  take; with the strategy *wherever* its copy of the document is current.
  `Mild` bounds crashes and late answers together by the number of grants for which
  the solver has time, has the partners in the descriptor know the agent, and for
  *wherever* excludes crashes and partners that change the document; the table above
  shows `DeathSafe` violated without any of these.  `MCAgentParts` assumes `Mild` of
  its cases, so TLC evaluates it.
  `Fits` if no change is confirmed while another save is in flight (`Serial`; theorem
  `NeverTooMuch`, and the table above without it).  `ResInv`: what is in the
  descriptor, what is promised and what the updates in the queue will add is together
  never more than there is, and no two of them want the same port.  The sums run over
  finite sets; their lemmas (`SumStep`, `SumChange`, `SumShift`) use the library's
  theorem that strict inclusion of finite subsets is well-founded.
* **`PartnersProofs`**: `OnePartner`, and `SidesAgree` if partnerships are not broken up
  during a proposal or after a restart (`Orderly`; theorem `PartnershipAgreed`, and the
  table above without it).  `PairsOK` is about the pairs of which nothing went wrong:
  who has a partner that does not have it is leaving, or waits for the other one, which
  has accepted, to be created; while a proposal is open neither is being removed; an
  answered goodbye is forgotten by the one who answered; and each open proposal and
  each goodbye has at most one job (`Tokens`).  A job that ends is therefore the only
  one that could answer.  A step of an agent is about one pair (`PairStep`), and
  `OthersFit` shows once that it leaves the others alone.  The proof found a fault of an
  earlier model, in which the late answer to a goodbye that had been given up was taken
  for the answer to the next one; the goodbyes are counted now, as the protocols of the
  code are told apart (`Replied`).
  `AllocationsExist` if partners are not replaced and addresses do not change while
  partnerships end by *breakup* or *leave* (`Careful`; the same theorem, and the table
  above without each part of the condition); with both conditions all of `PartnersSafe`
  (theorem `PartnersAreSafe`).  `SlotsOK` keeps an account of each agent (`AccountOK`):
  every allocation it made belongs to one proposal that was not answered (`Pledged`), to
  one job that brings it (`Coming`, which may be held already: `Ready`), moves it to a new
  address (`Moving`) or releases it (`Going`), or to the partners (`N`: in the
  descriptor, in a goodbye or in a job that removes them), and no two different partners
  share one.  So a release never takes what a partner, a job or a proposal relies on.
  What a step does to the account is one of a few lemmas (`AccountArrives`,
  `AccountAllocates`, `AccountJoins`, `AccountParts`, `AccountReleases`, ...), and each
  action is a chain of them.  That a replaced partner's allocation is held in the
  scene with *substitute* and two proposals is only model-checked.

Only model-checked, and why:

* **Liveness** (`Finishes`, `RequestsEnd`, `UpdatesAnswered`, `StaleEnds`,
  `GoesWhenTold`, `Delivered`, `Settles`, `GetsThrough`, `HostGoesOn`): the prover has
  no rules for fairness or `ENABLED`.
* **Recursive operators**: `Clerk`, whose operators are mutually recursive, and
  `Messaging`, whose failing chain of calls is recursive, are out of the prover's reach
  (`ClerkSafe`, `NotBeforeQuarantine`, `DeliverySafe`, and `PartsTypeOK` and the rest of
  `MCAgentParts`, which reaches `Clerk`).
* Not yet proved: `StoredOnce` of `EntriesSafe` (no entry is stored twice without a
  fault), and what remains of `AllocationsExist` when partners are replaced.

## 5. Plan

In this order; each new module comes with its run, its mutants and, where it is
first-order and not recursive, its proof.

1. `Outbox`: the sender of the messaging with its queue and expirations, and the
   tunnel between sites; the seen message ids of the routing.
2. `IntensiveCare`: times of heartbeats and the skipped checks after a suspend,
   composed with an abstract `Clerk`.
3. `Shard` (divorce) and `HostAllocation`, on top of `ContractOutcome` and of an
   abstract `Resources`.
4. `Containers` (ExpDict, ExpQueue packing) and `Query` (evaluation against a
   reference definition), as algorithms.

## 6. Not modelled

* Conversions, input and output without a protocol: serialization, logging,
  metaprogramming helpers, configuration files and start-up wiring, HTML rendering,
  the models and the gateway, the simulation driver, process control, vendored code.
* In the modelled parts: the replay of journals, snapshots and `locate` of the agency,
  standalone agencies and their brokers, static agents, the SSH manhole, migration of
  agents between agencies, `release()` and the disconnection of a messaging channel,
  views, queries and attachments of the database, the neighbours and the pacemaker of
  monitors, and a second death of an agent while the first is handled.
* Agents whose code is a use of the protocols above: shard, resource allocation,
  integrity, dns, alert and nagios agents.
