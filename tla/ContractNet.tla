------------------------------ MODULE ContractNet ------------------------------
(***************************************************************************)
(* The messages of one contract and the channel that carries them          *)
(* (agencies/messaging/messaging.py).  Posting a message adds it to sent;  *)
(* the receiving Channel throws away a message_id it has already seen, so  *)
(* a message is taken at most once (rcvd).  Messages are delivered in any  *)
(* order and possibly never: a message that is lost, that has expired or   *)
(* that its receiver would ignore in its present state is one that is not  *)
(* taken.                                                                  *)
(***************************************************************************)
EXTENDS FiniteSets, Naturals

CONSTANTS
  Contractors,  \* the agents that may take part
  Nested,       \* those reached only through a contractor's nested manager
  Revisited,    \* those the announcement reaches a second time
  Broadcast,    \* the announcement is sent to a broadcast recipient
  DirectHooksFail,  \* the manager's bid() and completed(), called directly, may raise
  AgentsDie         \* the agency may kill the protocols of an agent

ASSUME ContractorsAssumption == IsFiniteSet(Contractors)
ASSUME NestedAssumption == Nested \subseteq Contractors
ASSUME RevisitedAssumption == Revisited \subseteq Contractors
ASSUME BroadcastAssumption == Broadcast \in BOOLEAN
ASSUME FaultsAssumption == {DirectHooksFail, AgentsDie} \subseteq BOOLEAN

VARIABLES
  sent,  \* every message posted so far
  rcvd   \* the messages their receiver has taken

netVars == <<sent, rcvd>>

ManagerKinds == {"announcement", "grant", "rejection", "cancellation", "ack"}

(* nestedbid is the bid of a nested contractor to its own, nested, manager; *)
(* defection is the Cancellation a contractor sends.                        *)
ContractorKinds == {"bid", "nestedbid", "refusal", "duplicate", "report", "defection"}

Msg(kind, c) == [kind |-> kind, peer |-> c]
MessageSet == [kind : ManagerKinds \cup ContractorKinds, peer : Contractors]
ToAll(kind, cs) == {Msg(kind, c) : c \in cs}

Sent(kind, c) == Msg(kind, c) \in sent

(* The recipients the manager announces to. *)
Recipients == Contractors \ Nested

Post(msgs) == sent' = sent \cup msgs

Take(kind, c) ==
  /\ Msg(kind, c) \in sent \ rcvd
  /\ rcvd' = rcvd \cup {Msg(kind, c)}

NetInit == sent = {} /\ rcvd = {}
NetTypeOK == sent \subseteq MessageSet /\ rcvd \subseteq sent
=============================================================================
