------------------------------- MODULE Messaging -------------------------------
(***************************************************************************)
(* The connection of an agency to RabbitMQ: the reconnecting factory and    *)
(* the Channel with its chain of calls (agencies/messaging/net.py), and the *)
(* backend that binds the agents' addresses, sends their messages and       *)
(* consumes the queue (agencies/messaging/rabbitmq.py).                     *)
(*                                                                         *)
(* The server keeps its queue and bindings when a connection is lost and    *)
(* delivers again what has not been acknowledged.  A call, a publication    *)
(* or an acknowledgement that is interrupted may or may not have reached    *)
(* it.                                                                     *)
(***************************************************************************)
EXTENDS Integers, Sequences, FiniteSets

CONSTANTS
  Keys,       \* the addresses of the agents
  In,         \* the messages sent to the agency
  Out,        \* the messages the agents post
  MaxUsers,   \* bound: agents with the same address
  MaxEvents,  \* bound: bindings created and connections lost, together
  Faults      \* what may fail: "call": a call is performed when the connection
              \* is lost, "hello": it is lost before it is authenticated,
              \* "refuse": the server refuses a call, "sink": on_message() raises

VARIABLES
  net,    \* the connection, its set up, and whether the channel waits in vain
  ch,     \* the channel: its state, its calls, the count of its bindings
  srv,    \* the server: bindings, messages it was given, messages to deliver
  con,    \* the consumer: the two loops, what is between them, what was seen
  post,   \* what became of each posted message
  got,    \* how often each message was given to the routing table
  use,    \* how many agents have each address
  late,   \* the messages that have expired
  n       \* how many events there were

vars == <<net, ch, srv, con, post, got, use, late, n>>

Ops == {"define", "bind", "unbind", "ack", "flush"}
Call(op, arg) == [op |-> op, arg |-> arg, told |-> FALSE]
NoCall == Call("none", "none")
Calls == [op : Ops, arg : Keys \cup In \cup {"none"}, told : BOOLEAN]

Waiting == {"queued", "flushing", "publishing"}
Told == {"sent", "failed", "dropped"}
PostsIn(state) == {m \in Out : post[m] = state}
Recording == ch.state = "recording"

-----------------------------------------------------------------------------
(* The chain of calls *)

(* process_next() *)
Wake(c) == [c EXCEPT !.busy = IF @ = "idle" THEN "called" ELSE @]

(* _call_on_channel() *)
Add(c, call) == Wake([c EXCEPT !.chain = Append(@, call)])

(* Mutant: the count is not looked at. *)
LocalDefine(c, call) == call.op = "define" /\ con.queue
(* Calls that need no answer of the server. *)
Local(c, call) ==
  \/ call.op = "define" /\ con.queue
  \/ call.op = "unbind" /\ c.count[call.arg] # 1

(* What a call does before it asks the server. *)
Started(c, call) ==
  CASE call.op = "bind" -> [c EXCEPT !.count[call.arg] = @ + 1]
    [] call.op = "unbind" -> [c EXCEPT !.count[call.arg] = @ - 1]
    [] OTHER -> c

(* _process_next(): the next call begins. *)
Begin(c) ==
  IF c.state = "recording" \/ c.chain = <<>>
  THEN [c EXCEPT !.busy = "idle", !.now = NoCall, !.local = FALSE]
  ELSE LET call == Head(c.chain)
       IN  Started([c EXCEPT !.busy = "performing", !.chain = Tail(@), !.now = call,
                             !.local = Local(c, call)], call)

(* _processing_error_handler(): the callback has been told of the error and *)
(* the call is put back.                                                   *)
Fail(c) ==
  [c EXCEPT !.state = "recording", !.busy = "idle", !.now = NoCall, !.local = FALSE,
            !.chain = <<[c.now EXCEPT !.told = TRUE]>> \o @]

(* ProcessingCall.perform() ends well.  The callback of a call that was put *)
(* back has been called before: it raises AlreadyCalledError.              *)
Succeed(c) == IF c.now.told THEN Fail(c) ELSE Begin(c)

(* When the loop takes messages out of _to_send, expired ones are dropped.  *)
Flushed(c, p) ==
  IF c.now.op # "flush" \/ c.busy # "performing" THEN p
  ELSE [m \in Out |-> IF p[m] # "queued" THEN p[m] ELSE IF m \in late THEN "dropped" ELSE "flushing"]

(* The channel is now c, and so are the messages it has begun to flush. *)
Become(c, p) == ch' = c /\ post' = Flushed(c, p)

ProcessNext ==
  /\ ch.busy = "called" /\ Become(Begin(ch), post)
  /\ UNCHANGED <<net, srv, con, got, use, late, n>>

(* The server takes a call. *)
Taken(s, call) ==
  CASE call.op = "bind" -> [s EXCEPT !.bound = @ \cup {call.arg}]
    [] call.op = "unbind" -> [s EXCEPT !.bound = @ \ {call.arg}]
    [] call.op = "ack" -> [s EXCEPT !.msgs[call.arg] = "acked"]
    [] OTHER -> s

(* A call has been performed: after define_queue() the agency's loop starts, *)
(* after ack() the main loop waits for the next message.                   *)
Performed ==
  /\ ch.busy = "performing" /\ ch.now.op # "flush"
  /\ srv' = IF ch.local THEN srv ELSE Taken(srv, ch.now)
  /\ con' = CASE ch.now.op = "define" /\ ~ch.now.told -> [con EXCEPT !.sink = "on", !.queue = TRUE]
              [] ch.now.op = "ack" -> [con EXCEPT !.loop = "get"]
              [] OTHER -> con
  /\ Become(Succeed(ch), post)
  /\ UNCHANGED <<net, got, use, late, n>>

(* _flush_pending_messages(): the messages are published one by one. *)
FlushPublish ==
  /\ ch.now.op = "flush"
  /\ \E m \in PostsIn("flushing") :
       /\ post' = [post EXCEPT ![m] = IF m \in late THEN "dropped" ELSE "sent"]
       /\ srv' = IF m \in late THEN srv ELSE [srv EXCEPT !.out = @ \cup {m}]
  /\ UNCHANGED <<net, ch, con, got, use, late, n>>

FlushEnds ==
  /\ ch.now.op = "flush" /\ PostsIn("flushing") = {}
  /\ Become(Succeed(ch), post)
  /\ UNCHANGED <<net, srv, con, got, use, late, n>>

-----------------------------------------------------------------------------
(* The connection *)

Connect ==
  /\ net.link = "down" /\ net' = [net EXCEPT !.link = "hello"]
  /\ UNCHANGED <<ch, srv, con, post, got, use, late, n>>

(* clientConnectionMade(): whoever waits for the client gets it. *)
Authenticated ==
  /\ net.link = "hello"
  /\ net' = [net EXCEPT !.link = "up", !.waits = FALSE,
                        !.setup = IF net.waits THEN "opening" ELSE "none"]
  /\ UNCHANGED <<ch, srv, con, post, got, use, late, n>>

(* _setup_with_client(), store() and the beginning of _on_configured():     *)
(* calls that are not remembered between connections are removed.          *)
ChannelOpened ==
  /\ net.setup = "opening"
  /\ net' = [net EXCEPT !.setup = "configuring"]
  /\ ch' = [ch EXCEPT !.chain = SelectSeq(@, LAMBDA call : call.op # "ack")]
  /\ UNCHANGED <<srv, con, post, got, use, late, n>>

(* Mutant: what was posted meanwhile is not flushed. *)
PerformingOnly(c) == Wake([c EXCEPT !.state = "performing"])
(* The rest of _on_configured() *)
Performing(c) == Add([c EXCEPT !.state = "performing"], Call("flush", "none"))

(* _configure_queue() skips a queue that it takes for configured. *)
Configured ==
  /\ net.setup = "configuring"
  /\ net' = [net EXCEPT !.setup = "done"]
  /\ con' = IF con.queue THEN con ELSE [con EXCEPT !.queue = TRUE, !.loop = "get"]
  /\ ch' = Performing(ch)
  /\ UNCHANGED <<srv, post, got, use, late, n>>

(* The call that is performed fails, and so does, as the state is still     *)
(* "performing", the one after a flush: the flush itself ends well.         *)
RECURSIVE CallFails(_)
CallFails(c) ==
  IF c.busy # "performing" THEN c
  ELSE IF c.now.op = "flush" \/ c.local THEN CallFails(Succeed(c)) ELSE Fail(c)

(* Messages in flight when a channel is closed: the poster is told of an    *)
(* error, even if the server has taken the message.                        *)
InFlight == PostsIn("publishing") \cup PostsIn("flushing")
Interrupted ==
  [m \in Out |-> IF m \notin InFlight THEN post[m]
                 ELSE IF post[m] = "flushing" /\ m \in late THEN "dropped" ELSE "failed"]
MayBeTaken ==
  {some \in SUBSET (InFlight \ (PostsIn("flushing") \cap late)) :
     Cardinality(some \cap PostsIn("flushing")) <= 1}

(* What the server has not got an acknowledgement for it delivers again. *)
Redelivered(s) ==
  [s EXCEPT !.msgs = [m \in In |-> IF @[m] = "unacked" THEN "ready" ELSE @[m]]]

(* Mutant: the queue is not configured again. *)
ClosedOnly(k) == [k EXCEPT !.loop = "off"]
(* Mutant: what waits to be consumed is thrown away. *)
ClosedAll(k) == [k EXCEPT !.loop = "off", !.queue = FALSE, !.inbox = {}]
(* _error_handler() of the main loop: the queue waits to be configured. *)
Closed(k) == [k EXCEPT !.loop = "off", !.queue = FALSE]

(* Mutant: the channel asks for the next client before there is one. *)
WaitsOnce == net.link = "hello"
(* _on_connection_lost(), if _setup_with_client() has asked for it, waits   *)
(* for the next client.  Whoever waits already waits in vain: the factory   *)
(* makes a new Deferred.                                                   *)
WaitsAgain == net.setup # "none"

(* Mutant: the channel goes on performing. *)
LostQuietly(c) == c
(* _on_connection_lost() records. *)
Lost(c) == [c EXCEPT !.state = "recording"]

ConnectionLost ==
  /\ net.link \in {"hello", "up"} /\ n < MaxEvents /\ ~ch.local
  /\ net.link = "hello" => "hello" \in Faults
  /\ ch.busy = "performing" /\ ch.now.op \notin {"ack"} => "call" \in Faults
  /\ n' = n + 1
  /\ net' = [link |-> "down", waits |-> WaitsAgain, setup |-> "none",
              vain |-> net.vain \/ net.link = "hello"]
  /\ LET c == IF net.setup = "configuring" THEN Performing(ch) ELSE CallFails(ch)
     IN  ch' = IF net.setup = "none" THEN ch ELSE Lost(c)
  /\ con' = Closed(con)
  /\ post' = Interrupted
  /\ \E taken \in BOOLEAN, some \in MayBeTaken :
       srv' = Redelivered([(IF taken THEN Taken(srv, ch.now) ELSE srv) EXCEPT !.out = @ \cup some])
  /\ UNCHANGED <<got, use, late>>

(* The server refuses a call and closes the channel, not the connection. *)
Refused ==
  /\ "refuse" \in Faults /\ n < MaxEvents
  /\ ch.busy = "performing" /\ ch.now.op = "bind"
  /\ n' = n + 1
  /\ ch' = Fail(ch) /\ con' = Closed(con) /\ srv' = Redelivered(srv) /\ post' = Interrupted
  /\ UNCHANGED <<net, got, use, late>>

-----------------------------------------------------------------------------
(* The agents: bindings and posts *)

CreateBinding(k) ==
  /\ use[k] < MaxUsers /\ n < MaxEvents
  /\ n' = n + 1
  /\ use' = [use EXCEPT ![k] = @ + 1] /\ ch' = Add(ch, Call("bind", k))
  /\ UNCHANGED <<net, srv, con, post, got, late>>

RevokeBinding(k) ==
  /\ use[k] > 0
  /\ use' = [use EXCEPT ![k] = @ - 1] /\ ch' = Add(ch, Call("unbind", k))
  /\ UNCHANGED <<net, srv, con, post, got, late, n>>

(* publish() of a message with an expiration time *)
Publish(m) ==
  /\ post[m] = "new"
  /\ post' = [post EXCEPT ![m] = IF Recording THEN "queued" ELSE "publishing"]
  /\ UNCHANGED <<net, ch, srv, con, got, use, late, n>>

Published(m) ==
  /\ post[m] = "publishing"
  /\ post' = [post EXCEPT ![m] = "sent"] /\ srv' = [srv EXCEPT !.out = @ \cup {m}]
  /\ UNCHANGED <<net, ch, con, got, use, late, n>>

(* A message that waits to be sent expires, or one that _seen_messages will *)
(* forget.                                                                 *)
Expire(m) ==
  /\ m \notin late
  /\ IF m \in Out THEN post[m] \in {"queued", "flushing"} ELSE m \in con.seen
  /\ late' = late \cup {m} /\ con' = [con EXCEPT !.seen = @ \ {m}]
  /\ UNCHANGED <<net, ch, srv, post, got, use, n>>

-----------------------------------------------------------------------------
(* The queue *)

(* Another agency sends a message. *)
Arrive(m, k) ==
  /\ srv.msgs[m] = "new"
  /\ srv' = [srv EXCEPT !.msgs[m] = IF k \in srv.bound THEN "ready" ELSE "unbound"]
  /\ UNCHANGED <<net, ch, con, post, got, use, late, n>>

(* Mutant: duplicates are not recognised. *)
ParsedAgain(m) == [con EXCEPT !.inbox = @ \cup {m}]
(* parse_and_enqueue() *)
Parsed(m) ==
  [con EXCEPT !.inbox = IF m \in con.seen THEN @ ELSE @ \cup {m},
              !.seen = IF m \in late THEN @ ELSE @ \cup {m}]

(* One round of the main loop: the message is enqueued and acknowledged.    *)
Deliver(m) ==
  /\ con.loop = "get" /\ srv.msgs[m] = "ready" /\ net.setup = "done"
  /\ srv' = [srv EXCEPT !.msgs[m] = "unacked"]
  /\ con' = [Parsed(m) EXCEPT !.loop = "acking"]
  /\ ch' = Add(ch, Call("ack", m))
  /\ UNCHANGED <<net, post, got, use, late, n>>

(* The agency's loop: get_and_call_on_message() and rebind(). *)
Consume(m) ==
  /\ con.sink = "on" /\ m \in con.inbox
  /\ con' = [con EXCEPT !.inbox = @ \ {m}] /\ got' = [got EXCEPT ![m] = @ + 1]
  /\ UNCHANGED <<net, ch, srv, post, use, late, n>>

(* The sink raises: the loop stops. *)
ConsumeRaises(m) ==
  /\ "sink" \in Faults /\ con.sink = "on" /\ m \in con.inbox
  /\ con' = [con EXCEPT !.inbox = @ \ {m}, !.sink = "dead"]
  /\ got' = [got EXCEPT ![m] = @ + 1]
  /\ UNCHANGED <<net, ch, srv, post, use, late, n>>

-----------------------------------------------------------------------------
(* Client.initiate() of an agency that has just been started *)
Init ==
  /\ net = [link |-> "down", waits |-> TRUE, setup |-> "none", vain |-> FALSE]
  /\ ch = [state |-> "recording", chain |-> <<Call("define", "none")>>, busy |-> "called",
           now |-> NoCall, local |-> FALSE, count |-> [k \in Keys |-> 0]]
  /\ srv = [bound |-> {}, out |-> {}, msgs |-> [m \in In |-> "new"]]
  /\ con = [loop |-> "off", queue |-> FALSE, inbox |-> {}, sink |-> "off", seen |-> {}]
  /\ post = [m \in Out |-> "new"] /\ got = [m \in In |-> 0]
  /\ use = [k \in Keys |-> 0] /\ late = {} /\ n = 0

Progress ==
  \/ ProcessNext \/ Performed \/ FlushPublish \/ FlushEnds
  \/ Connect \/ Authenticated \/ ChannelOpened \/ Configured
  \/ \E m \in Out : Published(m)
  \/ \E m \in In : Deliver(m) \/ Consume(m)

Next ==
  \/ Progress \/ ConnectionLost \/ Refused
  \/ \E k \in Keys : CreateBinding(k) \/ RevokeBinding(k) \/ \E m \in In : Arrive(m, k)
  \/ \E m \in Out : Publish(m)
  \/ \E m \in In \cup Out : Expire(m)
  \/ \E m \in In : ConsumeRaises(m)

Spec == Init /\ [][Next]_vars

-----------------------------------------------------------------------------
(* The state has its type; above all, a channel performs calls only when it *)
(* is set up on the connection that there is.                              *)
TypeOK ==
  /\ net.link \in {"down", "hello", "up"} /\ net.setup \in {"none", "opening", "configuring", "done"}
  /\ ch.chain \in Seq(Calls) /\ ch.now \in Calls \cup {NoCall} /\ ch.count \in [Keys -> Int]
  /\ srv.bound \subseteq Keys /\ srv.out \subseteq Out
  /\ post \in [Out -> {"new"} \cup Waiting \cup Told] /\ got \in [In -> Nat]
  /\ ~Recording => net.setup = "done"
  /\ net.setup # "none" => net.link = "up"

(* However often the connection is lost, a message is given to the routing  *)
(* table once, unless it has expired.                                      *)
AtMostOnce == \A m \in In : got[m] <= 1 \/ m \in late

(* A message that the server was told to forget has been or will be given   *)
(* to the routing table.                                                   *)
AckedIsKept == \A m \in In : srv.msgs[m] = "acked" => m \in con.inbox \/ got[m] > 0

(* "We need to count the number of creates/deletes to delete the binding    *)
(* only when there is no more agents using it" (Channel): when no call is   *)
(* left, exactly the addresses in use are bound.                           *)
BindingsAgree ==
  ~Recording /\ ch.busy = "idle" /\ ch.chain = <<>> =>
    \A k \in Keys : k \in srv.bound <=> use[k] > 0

(* What the channel promises at any moment.                                *)
DeliverySafe == TypeOK /\ AtMostOnce /\ AckedIsKept /\ BindingsAgree

-----------------------------------------------------------------------------
(* A call that has been told of an error can never succeed; a channel whose *)
(* factory lost a connection that was not authenticated waits in vain.     *)
Poisoned == ch.now.told \/ \E i \in 1..Len(ch.chain) : ch.chain[i].told /\ ch.chain[i].op # "ack"
Stranded == net.vain
Stuck == Poisoned \/ Stranded

(* The channel works again after the last connection was lost. *)
Recovers == <>[]~Recording \/ <>[]Stuck

(* Whoever posts a message is told what became of it. *)
Answered == \A m \in Out : post[m] \in Waiting ~> post[m] \in Told \/ Stuck

(* What the server has for the agency gets there. *)
Received == \A m \in In : srv.msgs[m] = "ready" ~> got[m] > 0 \/ Stuck \/ con.sink = "dead"

(* The channel works again after the last lost connection, and messages    *)
(* get through in both directions.                                         *)
GetsThrough == Recovers /\ Answered /\ Received

(* The reactor runs delayed calls, the server answers and the factory       *)
(* reconnects.                                                             *)
Fairness == WF_vars(Progress) /\ \A m \in In : WF_vars(Deliver(m)) /\ WF_vars(Consume(m))
FairSpec == Spec /\ Fairness
=============================================================================
