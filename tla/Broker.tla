--------------------------------- MODULE Broker ---------------------------------
(***************************************************************************)
(* The brokers of the agencies of one host (agencies/net/broker.py): the    *)
(* agency that manages to listen on a unix socket is the master, the others *)
(* connect to it as slaves, tell it about their agents and share a state    *)
(* with it.  The agencies are processes: whatever two of them do to the     *)
(* socket file interleaves, system call by system call.  A connection      *)
(* keeps the order of what is sent either way.                             *)
(***************************************************************************)
EXTENDS Naturals, Sequences, FiniteSets

CONSTANTS
  Procs,       \* the agency processes
  NoProc,      \* no process
  MaxStarts,   \* bound: processes started
  MaxStops,    \* bound: crashes and shutdowns
  MaxCalls,    \* bound: writes to the shared state and agents started
  Habits       \* "hasty": agents start and stop while the broker connects

ASSUME ProcsAssumption == NoProc \notin Procs /\ Procs \cap {"none", "stale"} = {}
ASSUME BoundsAssumption == MaxStarts \in Nat /\ MaxStops \in Nat /\ MaxCalls \in Nat
ASSUME HabitsAssumption == Habits \subseteq {"hasty"}

VARIABLES
  br,       \* the broker of each process
  file,     \* the socket file: "none", "stale" or the process that made it
  robbed,   \* somebody removed the socket of a process that is alive
  n         \* what has been counted: starts, stops, calls

vars == <<br, file, robbed, n>>

Pcs == {"down", "listenUNIX", "listen", "connectUNIX", "missing", "refused", "refused again",
        "greeting", "entering", "handshake", "up", "stuck"}
Roles == {"disconnected", "master", "slave"}

Fresh ==
  [pc |-> "down", role |-> "disconnected", master |-> NoProc, cut |-> FALSE,
   slaves |-> {}, known |-> {}, agent |-> FALSE, listed |-> FALSE, shared |-> 0,
   sent |-> <<>>, got |-> <<>>]

Alive(p) == br[p].pc # "down"
Masters == {p \in Procs : br[p].role = "master"}
Linked(p) == br[p].master # NoProc /\ ~br[p].cut

(* callRemote(), and its answer: what is sent over a lost connection, or to *)
(* a process that is gone, is heard by nobody.                             *)
Tell(b, p, msgs) == IF b[p].cut THEN b ELSE [b EXCEPT ![p].sent = @ \o msgs]
Hears(b, p) == ~b[p].cut /\ b[p].pc # "down"
Answer(b, p, msg) == IF Hears(b, p) THEN [b EXCEPT ![p].got = Append(@, msg)] ELSE b

-----------------------------------------------------------------------------
(* The socket file *)

(* feat is started, by hand or by _spawn_agency(). *)
Start(p) ==
  /\ n.starts < MaxStarts /\ ~Alive(p) /\ \A m \in Procs : p \notin br[m].slaves
  /\ br[p].master = NoProc
  /\ n' = [n EXCEPT !.starts = @ + 1]
  /\ br' = [br EXCEPT ![p] = [Fresh EXCEPT !.pc = "listenUNIX"]]
  /\ UNCHANGED <<file, robbed>>

(* Mutant: what is at the path is replaced. *)
BindAnyway(p) ==
  /\ br[p].pc = "listenUNIX"
  /\ file' = p /\ br' = [br EXCEPT ![p].pc = "listen"]
  /\ UNCHANGED <<robbed, n>>

(* initiate_broker(): listenUNIX() binds the path, which must not exist; *)
Bind(p) ==
  /\ br[p].pc = "listenUNIX"
  /\ IF file = "none"
     THEN file' = p /\ br' = [br EXCEPT ![p].pc = "listen"]
     ELSE file' = file /\ br' = [br EXCEPT ![p].pc = "connectUNIX"]
  /\ UNCHANGED <<robbed, n>>

(* then it listens, and the broker becomes the master. *)
BecomeMaster(p) ==
  /\ br[p].pc = "listen"
  /\ br' = [br EXCEPT ![p].pc = "up", ![p].role = "master"]
  /\ UNCHANGED <<file, robbed, n>>

(* connectUNIX(): clientConnectionMade(), which asks for the root object,   *)
(* or clientConnectionFailed(), because there is no file or nobody listens. *)
Listening == file \in Procs /\ br[file].role = "master"
Connect(p) ==
  /\ br[p].pc = "connectUNIX"
  /\ br' = CASE Listening ->
                  [br EXCEPT ![p].pc = "greeting", ![p].master = file, ![p].sent = <<<<"root">>>>]
             [] file = "none" -> [br EXCEPT ![p].pc = "missing"]
             [] OTHER -> [br EXCEPT ![p].pc = "refused"]
  /\ UNCHANGED <<file, robbed, n>>

(* clientConnectionFailed(): a refusal is a ConnectError too, which makes   *)
(* two calls of remove_stale_socket(), and initiate_broker() after them.    *)
(* After the one call for a missing file nothing calls initiate_broker().  *)
Failed(p) == br[p].pc \in {"missing", "refused", "refused again"}
AfterUnlink(pc) ==
  CASE pc = "missing" -> "stuck"
    [] pc = "refused" -> "refused again"
    [] OTHER -> "listenUNIX"

(* Mutant: the socket file stays. *)
UnlinkNothing(p) ==
  /\ Failed(p)
  /\ br' = [br EXCEPT ![p].pc = AfterUnlink(@)]
  /\ UNCHANGED <<file, robbed, n>>

(* remove_stale_socket(): what is at the path by now is removed. *)
Unlink(p) ==
  /\ Failed(p)
  /\ file' = "none"
  /\ robbed' = (robbed \/ (file \in Procs /\ Alive(file)))
  /\ br' = [br EXCEPT ![p].pc = AfterUnlink(@)]
  /\ UNCHANGED n

-----------------------------------------------------------------------------
(* The slave's side *)

Heard(p) == br[p].got # <<>>
Read(p) == [br EXCEPT ![p].got = Tail(@)]

(* become_slave(): the agents that there are now will be registered.  It    *)
(* begins with on_become_slave(), which asks for the broker's backend.     *)
BecomeSlave(p) ==
  /\ Heard(p) /\ Head(br[p].got) = <<"root">>
  /\ br' = Tell([Read(p) EXCEPT ![p].pc = "entering", ![p].role = "slave",
                                ![p].listed = br[p].agent], p, <<<<"backend">>>>)
  /\ UNCHANGED <<file, robbed, n>>

Handshake(p) ==
  /\ Heard(p) /\ Head(br[p].got) = <<"backend">>
  /\ br' = Tell([Read(p) EXCEPT ![p].pc = "handshake"], p, <<<<"handshake">>>>)
  /\ UNCHANGED <<file, robbed, n>>

(* The answer of the handshake: reset_locally(), and then the agents. *)
HandshakeDone(p) ==
  /\ Heard(p) /\ Head(br[p].got)[1] = "items"
  /\ br' = Tell([Read(p) EXCEPT ![p].pc = "up", ![p].shared = Head(br[p].got)[2],
                                ![p].listed = FALSE],
                p, IF br[p].listed THEN <<<<"register">>>> ELSE <<>>)
  /\ UNCHANGED <<file, robbed, n>>

(* update_state('set_locally') *)
Updated(p) ==
  /\ Heard(p) /\ Head(br[p].got)[1] = "set"
  /\ br' = [Read(p) EXCEPT ![p].shared = Head(br[p].got)[2]]
  /\ UNCHANGED <<file, robbed, n>>

(* clientConnectionLost(): a broker that was still disconnected does       *)
(* nothing; one that is shut down neither.                                 *)
ConnectionLost(p) ==
  /\ br[p].cut /\ br[p].got = <<>> /\ Alive(p)
  /\ br' = [br EXCEPT ![p].pc = IF br[p].role = "disconnected" THEN "stuck" ELSE "listenUNIX",
                      ![p].role = "disconnected", ![p].master = NoProc, ![p].cut = FALSE,
                      ![p].sent = <<>>, ![p].listed = FALSE]
  /\ UNCHANGED <<file, robbed, n>>

-----------------------------------------------------------------------------
(* The master's side: what it is told by a slave *)

(* Mutant: the slave that an update comes from is not told. *)
BroadcastToOthers(b, m, v, origin) ==
  [p \in Procs |-> IF p \in b[m].slaves \ {origin} /\ Hears(b, p)
                   THEN [b[p] EXCEPT !.got = Append(@, <<"set", v>>)] ELSE b[p]]

(* update_state_broadcast(): every slave is told, the one it comes from too. *)
Broadcast(b, m, v, origin) ==
  [p \in Procs |-> IF p \in b[m].slaves /\ Hears(b, p)
                   THEN [b[p] EXCEPT !.got = Append(@, <<"set", v>>)] ELSE b[p]]

(* remote_handshake(): append_slave() and the items of the shared state. *)
AppendSlave(b, m, p) ==
  Answer([b EXCEPT ![m].slaves = @ \cup {p}], p, <<"items", b[m].shared>>)

(* Mutant: unregistering is forgotten. *)
UnregisterNot(b, m, p) == b
(* remote_register_agent_local(), remote_unregister_agent_local(): of an    *)
(* unknown slave they raise KeyError.                                      *)
Register(b, m, p) == IF p \in b[m].slaves THEN [b EXCEPT ![m].known = @ \cup {p}] ELSE b
Unregister(b, m, p) == [b EXCEPT ![m].known = @ \ {p}]

Handled(b, m, p, msg) ==
  CASE msg[1] = "root" -> Answer(b, p, msg)
    [] msg[1] = "backend" -> Answer(b, p, msg)
    [] msg[1] = "handshake" -> AppendSlave(b, m, p)
    [] msg[1] = "register" -> Register(b, m, p)
    [] msg[1] = "unregister" -> Unregister(b, m, p)
    [] msg[1] = "set" -> Broadcast([b EXCEPT ![m].shared = msg[2]], m, msg[2], p)

Serve(p) ==
  LET m == br[p].master
  IN  /\ m # NoProc /\ br[p].sent # <<>> /\ br[m].role = "master"
      /\ br' = Handled([br EXCEPT ![p].sent = Tail(@)], m, p, Head(br[p].sent))
      /\ UNCHANGED <<file, robbed, n>>

(* Mutant: the agents of the slave are kept. *)
RemoveSlaveOnly(p) ==
  LET m == br[p].master
  IN  /\ ~Alive(p) /\ m # NoProc /\ br[m].role = "master" /\ br[p].sent = <<>>
      /\ br' = [br EXCEPT ![m].slaves = @ \ {p}, ![p] = Fresh]
      /\ UNCHANGED <<file, robbed, n>>

(* remove_slave(), once what the slave sent before it went has been read. *)
RemoveSlave(p) ==
  LET m == br[p].master
  IN  /\ ~Alive(p) /\ m # NoProc /\ br[m].role = "master" /\ br[p].sent = <<>>
      /\ br' = [br EXCEPT ![m].slaves = @ \ {p}, ![m].known = @ \ {p}, ![p] = Fresh]
      /\ UNCHANGED <<file, robbed, n>>

-----------------------------------------------------------------------------
(* The agency: its agents and the shared state.  An agent that registers or *)
(* unregisters with a disconnected broker tells nobody.                    *)

InTime(p) == br[p].pc \in {"handshake", "up"} \/ br[p].role = "disconnected" \/ "hasty" \in Habits

RegisterAgent(p) ==
  /\ Alive(p) /\ ~br[p].agent /\ n.calls < MaxCalls /\ InTime(p)
  /\ n' = [n EXCEPT !.calls = @ + 1]
  /\ br' = LET b == [br EXCEPT ![p].agent = TRUE]
           IN  IF br[p].role = "slave" THEN Tell(b, p, <<<<"register">>>>) ELSE b
  /\ UNCHANGED <<file, robbed>>

UnregisterAgent(p) ==
  /\ Alive(p) /\ br[p].agent
  /\ "hasty" \in Habits \/ (InTime(p) /\ br[p].pc # "handshake")
  /\ br' = LET b == [br EXCEPT ![p].agent = FALSE]
           IN  IF br[p].role = "slave" THEN Tell(b, p, <<<<"unregister">>>>) ELSE b
  /\ UNCHANGED <<file, robbed, n>>

(* SharedState.__setitem__(): set locally, then broadcast. *)
SetItem(p) ==
  /\ Alive(p) /\ n.calls < MaxCalls
  /\ n' = [n EXCEPT !.calls = @ + 1]
  /\ LET v == n.calls + 1
         b == [br EXCEPT ![p].shared = v]
     IN  br' = CASE br[p].role = "master" -> Broadcast(b, p, v, p)
                 [] br[p].role = "slave" -> Tell(b, p, <<<<"set", v>>>>)
                 [] OTHER -> b
  /\ UNCHANGED <<file, robbed>>

-----------------------------------------------------------------------------
(* The end of a process: its connections are closed either way.  The end of *)
(* a slave is seen by its master, the end of a master by its slaves.       *)
Gone(p) ==
  [q \in Procs |->
     IF q = p THEN IF br[p].master = NoProc \/ br[p].cut THEN Fresh
                   ELSE [Fresh EXCEPT !.master = br[p].master, !.sent = br[p].sent]
     ELSE IF br[q].master = p
          THEN IF Alive(q) THEN [br[q] EXCEPT !.cut = TRUE, !.sent = <<>>] ELSE Fresh
     ELSE br[q]]

Crash(p) ==
  /\ Alive(p) /\ n.stops < MaxStops
  /\ n' = [n EXCEPT !.stops = @ + 1]
  /\ br' = Gone(p)
  /\ file' = IF file = p THEN "stale" ELSE file
  /\ UNCHANGED robbed

(* disconnect(), which does nothing to a broker that is still connecting,   *)
(* and the end of the process.  stopListening() removes what is at the path.*)
Disconnect(p) ==
  /\ br[p].role # "disconnected" /\ n.stops < MaxStops
  /\ n' = [n EXCEPT !.stops = @ + 1]
  /\ br' = Gone(p)
  /\ IF br[p].role = "master"
     THEN /\ file' = "none"
          /\ robbed' = (robbed \/ (file \in Procs \ {p} /\ Alive(file)))
     ELSE UNCHANGED <<file, robbed>>

-----------------------------------------------------------------------------
Init ==
  /\ br = [p \in Procs |-> Fresh]
  /\ file \in {"none", "stale"} /\ robbed = FALSE
  /\ n = [starts |-> 0, stops |-> 0, calls |-> 0]

Next ==
  \E p \in Procs :
    \/ Start(p) \/ Bind(p) \/ BecomeMaster(p) \/ Connect(p) \/ Unlink(p)
    \/ BecomeSlave(p) \/ Handshake(p) \/ HandshakeDone(p) \/ Updated(p) \/ ConnectionLost(p)
    \/ Serve(p) \/ RemoveSlave(p)
    \/ RegisterAgent(p) \/ UnregisterAgent(p) \/ SetItem(p)
    \/ Crash(p) \/ Disconnect(p)

Spec == Init /\ [][Next]_vars

-----------------------------------------------------------------------------
(* The state has its type; above all, only a broker with the role of the    *)
(* master has slaves and only agents of its slaves are known to it.        *)
TypeOK ==
  /\ file \in {"none", "stale"} \cup Procs /\ robbed \in BOOLEAN
  /\ \A p \in Procs :
       /\ br[p].pc \in Pcs /\ br[p].role \in Roles /\ br[p].master \in Procs \cup {NoProc}
       /\ br[p].shared \in 0..MaxCalls /\ br[p].agent \in BOOLEAN
       /\ br[p].slaves \subseteq Procs \ {p} /\ br[p].known \subseteq br[p].slaves
       /\ br[p].slaves # {} => br[p].role = "master"

(* Broker: "The broker which manages to listen is taking the master role    *)
(* and keeps track of the rest of the instances": there is one master.     *)
OneMaster == Cardinality(Masters) <= 1

(* As long as nobody has removed the socket of a running agency there is    *)
(* one master, and it is the one that the socket file leads to.            *)
MasterHasTheSocket == robbed \/ \A p \in Masters : Masters = {p} /\ file = p

(* A slave that is settled is tracked by its master, and its agent is found *)
(* there exactly if it runs.                                               *)
Settled(p) ==
  /\ br[p].role = "slave" /\ br[p].pc = "up" /\ Linked(p)
  /\ br[p].sent = <<>> /\ br[p].got = <<>>
Tracked ==
  \A p \in Procs : Settled(p) =>
    LET m == br[p].master
    IN  p \in br[m].slaves /\ (br[p].agent <=> p \in br[m].known)

(* Whatever master and slaves write to the shared state at the same time,   *)
(* a slave that has heard everything has the state of its master.          *)
Converged == \A p \in Procs : Settled(p) => br[p].shared = br[br[p].master].shared

(* The agencies of the host agree on who is master, who runs what, and what *)
(* they share.                                                             *)
AgenciesAgree == TypeOK /\ MasterHasTheSocket /\ Tracked /\ Converged

(* A broker that is initiated gets a role, unless the connection fails in   *)
(* one of the ways after which nobody tries again.                         *)
Busy(p) == br[p].pc \notin {"down", "up", "stuck"}
Settles == \A p \in Procs : Busy(p) ~> ~Busy(p)

(* What the reactors do: system calls return, messages are delivered. *)
Fairness ==
  \A p \in Procs :
    WF_vars(\/ Bind(p) \/ BecomeMaster(p) \/ Connect(p) \/ Unlink(p)
            \/ BecomeSlave(p) \/ Handshake(p) \/ HandshakeDone(p) \/ Updated(p)
            \/ ConnectionLost(p) \/ Serve(p) \/ RemoveSlave(p))
FairSpec == Spec /\ Fairness
=============================================================================
