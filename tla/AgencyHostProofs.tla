---------------------------- MODULE AgencyHostProofs ----------------------------
(***************************************************************************)
(* The agencies of a host: the host agent they run (first half), and the   *)
(* brokers that make them master and slaves (second half).                 *)
(*                                                                         *)
(* A host has at most one host agent, and what waits for it is told: for   *)
(* any number of agencies, whatever they lose, and whenever they are shut  *)
(* down.                                                                   *)
(*                                                                         *)
(* The argument: the descriptor in the database is a lock.  A host agent   *)
(* is registered only by the save that creates the descriptor, and the     *)
(* descriptor goes only with the agent, or when no agency has one.  So     *)
(* agencies together have one host agent at most, counting one that is     *)
(* terminating, and the descriptor is there as long as it is.              *)
(***************************************************************************)
EXTENDS AgencyHost, Broker, FiniteSetTheorems, SequenceTheorems, TLAPS

Media ==
  [kind : {"host", "other"}, by : Agencies \cup {Nobody},
   st : {"waiting", "initiating", "starting", "ready", "disconnected", "terminating"},
   awaited : BOOLEAN, hard : BOOLEAN]

AgencySet ==
  [up : {"off", "starting", "running"}, role : {"none", "master", "slave"},
   promoted : BOOLEAN, timers : 0..MaxTimers,
   chain : {"no", "scheduled", "get", "save", "remote", "host"},
   agents : Seq(Media), db : BOOLEAN, msg : BOOLEAN, gentle : BOOLEAN,
   shut : {"no", "initiated", "agents", "done"},
   call : {"none", "pending", "queued", "done", "lost"}]

(* What holds of the agents m of an agency whose call for the host agent is *)
(* c and that is online or not: each kind is there once.                   *)
AgentsOK(m, c, online) ==
  /\ \A i, j \in 1..Len(m) : m[i].kind = m[j].kind => i = j
  /\ \A i \in 1..Len(m) : m[i].kind = "host" /\ m[i].st \in {"ready", "disconnected"} => c # "pending"
  /\ \A i \in 1..Len(m) : m[i].st = "disconnected" => ~online

AgencyOK(r) ==
  /\ r \in AgencySet
  /\ r.up = "off" => r.agents = <<>> /\ r.role = "none"
  /\ AgentsOK(r.agents, r.call, Online(r))

HasHost(m) == \E i \in 1..Len(m) : m[i].kind = "host"

HostInv ==
  /\ ag \in [Agencies -> AgencySet]
  /\ \A p \in Agencies : AgencyOK(ag[p])
  /\ \A p, q \in Agencies : Master(p) /\ Master(q) => p = q
  /\ \A p, q \in Agencies : HasHost(ag[p].agents) /\ HasHost(ag[q].agents) => p = q
  /\ \A p \in Agencies : HasHost(ag[p].agents) => hostDoc
  /\ hostDoc \in BOOLEAN /\ hostFaults \in 0..MaxHostFaults

-----------------------------------------------------------------------------
(* The invariant implies what the runs check. *)

(* A set whose members are equal is counted. *)
LEMMA AtMostOneMember ==
  ASSUME NEW S, \A x, y \in S : x = y
  PROVE  Cardinality(S) <= 1
<1>1. CASE S = {} BY <1>1, FS_EmptySet
<1>2. CASE S # {}
  <2>1. PICK x \in S : TRUE BY <1>2
  <2>2. S = {x} BY <2>1
  <2> QED BY <2>2, FS_Singleton
<1> QED BY <1>1, <1>2

LEMMA InvIsSafe == HostInv => HostSafe
<1> SUFFICES ASSUME HostInv PROVE HostSafe
  OBVIOUS
<1>1. HostTypeOK
  <2>1. \A p \in Agencies : ag[p] \in AgencySet /\ (~Up(p) => ag[p].agents = <<>> /\ ag[p].role = "none")
    BY DEF HostInv, AgencyOK, Up
  <2> QED BY <2>1 DEF HostInv, HostTypeOK, AgencySet, Media
<1>2. OneHost
  <2>1. \A p \in Agencies : \A i, j \in Running(p) : i = j
    BY DEF HostInv, AgencyOK, AgentsOK, Running, HostAt
  <2>2. \A p \in Agencies : Cardinality(Running(p)) <= 1 BY <2>1, AtMostOneMember
  <2>3. \A p \in Agencies : Running(p) # {} => HasHost(ag[p].agents)
    BY DEF Running, HostAt, HasHost
  <2> QED BY <2>2, <2>3 DEF OneHost, HostInv
<1>3. NoCallWaits
  BY DEF NoCallWaits, HostInv, AgencyOK, AgentsOK, HostAt
<1>4. ToldWhenBack
  BY DEF ToldWhenBack, HostInv, AgencyOK, AgentsOK
<1> QED BY <1>1, <1>2, <1>3, <1>4 DEF HostSafe

-----------------------------------------------------------------------------
(* The agents of an agency *)

(* An agent of a new kind is registered. *)
LEMMA AgentsGrow ==
  ASSUME NEW m \in Seq(Media), NEW c, NEW o, AgentsOK(m, c, o),
         NEW kind \in {"host", "other"}, NEW by \in Agencies \cup {Nobody},
         \A i \in 1..Len(m) : m[i].kind # kind
  PROVE  LET w == Append(m, Medium(kind, by))
         IN  w \in Seq(Media) /\ AgentsOK(w, c, o) /\ (HasHost(w) => kind = "host" \/ HasHost(m))
<1> DEFINE x == Medium(kind, by)
           w == Append(m, x)
<1>1. x \in Media /\ x.kind = kind /\ x.st = "waiting" BY DEF Medium, Media
<1> HIDE DEF x
<1>2. /\ w \in Seq(Media) /\ Len(w) = Len(m) + 1 /\ Len(m) \in Nat
      /\ \A i \in 1..Len(m) : w[i] = m[i]
      /\ w[Len(m) + 1] = x
  BY <1>1
<1> HIDE DEF w
<1>3. \A i \in 1..Len(w) : i \in 1..Len(m) \/ i = Len(m) + 1 BY <1>2
<1>4. \A i \in 1..Len(w) : \/ i \in 1..Len(m) /\ w[i] = m[i]
                           \/ i = Len(m) + 1 /\ w[i].kind = kind /\ w[i].st = "waiting"
  BY <1>1, <1>2, <1>3
<1>5. AgentsOK(w, c, o)
  <2>1. \A i, j \in 1..Len(w) : w[i].kind = w[j].kind => i = j
    BY <1>4 DEF AgentsOK
  <2>2. \A i \in 1..Len(w) : w[i].kind = "host" /\ w[i].st \in {"ready", "disconnected"} => c # "pending"
    BY <1>4 DEF AgentsOK
  <2>3. \A i \in 1..Len(w) : w[i].st = "disconnected" => ~o
    BY <1>4 DEF AgentsOK
  <2> QED BY <2>1, <2>2, <2>3 DEF AgentsOK
<1>6. HasHost(w) => kind = "host" \/ HasHost(m)
  BY <1>4 DEF HasHost
<1> QED BY <1>2, <1>5, <1>6 DEF w, x

(* Some of the agents remain, in some order. *)
LEMMA AgentsShrink ==
  ASSUME NEW m, NEW c, NEW o, AgentsOK(m, c, o), NEW w,
         NEW f \in [1..Len(w) -> 1..Len(m)], \A i, j \in 1..Len(w) : f[i] = f[j] => i = j,
         \A i \in 1..Len(w) :
           /\ w[i].kind = m[f[i]].kind
           /\ w[i].st \in {m[f[i]].st, "terminating"}
  PROVE  AgentsOK(w, c, o) /\ (HasHost(w) => HasHost(m))
<1>1. \A i \in 1..Len(w) : f[i] \in 1..Len(m) OBVIOUS
<1>2. \A i, j \in 1..Len(w) : w[i].kind = w[j].kind => i = j
  <2> SUFFICES ASSUME NEW i \in 1..Len(w), NEW j \in 1..Len(w), w[i].kind = w[j].kind
               PROVE  i = j
    OBVIOUS
  <2>1. m[f[i]].kind = m[f[j]].kind OBVIOUS
  <2>2. f[i] = f[j] BY <1>1, <2>1 DEF AgentsOK
  <2> QED BY <2>2
<1>3. \A i \in 1..Len(w) : w[i].st \in {"ready", "disconnected"} => w[i].st = m[f[i]].st
  OBVIOUS
<1>4. \A i \in 1..Len(w) :
        w[i].kind = "host" /\ w[i].st \in {"ready", "disconnected"} => c # "pending"
  BY <1>1, <1>3 DEF AgentsOK
<1>5. \A i \in 1..Len(w) : w[i].st = "disconnected" => ~o
  BY <1>1, <1>3 DEF AgentsOK
<1>6. HasHost(w) => HasHost(m) BY <1>1 DEF HasHost
<1> QED BY <1>2, <1>4, <1>5, <1>6 DEF AgentsOK

(* One of them is unregistered. *)
LEMMA AgentRemoved ==
  ASSUME NEW m \in Seq(Media), NEW c, NEW o, AgentsOK(m, c, o), NEW i \in 1..Len(m)
  PROVE  LET w == RemoveAt(m, i)
         IN  /\ w \in Seq(Media) /\ AgentsOK(w, c, o) /\ (HasHost(w) => HasHost(m))
             /\ m[i].kind = "host" => ~HasHost(w)
<1> DEFINE w == RemoveAt(m, i)
           f == [k \in 1..Len(w) |-> IF k < i THEN k ELSE k + 1]
<1>1. Len(m) \in Nat /\ i \in Nat /\ 1 <= i /\ i <= Len(m) OBVIOUS
<1> DEFINE a == SubSeq(m, 1, i - 1)
           b == SubSeq(m, i + 1, Len(m))
<1>2. a \in Seq(Media) /\ Len(a) = i - 1 /\ \A k \in 1..i - 1 : a[k] = m[k]
  BY <1>1
<1>3. b \in Seq(Media) /\ Len(b) = Len(m) - i /\ \A k \in 1..Len(m) - i : b[k] = m[i + k]
  BY <1>1
<1>4. /\ w \in Seq(Media) /\ Len(w) = Len(m) - 1
      /\ \A k \in 1..Len(m) - 1 : w[k] = IF k < i THEN m[k] ELSE m[k + 1]
  <2>1. w = a \o b BY DEF RemoveAt
  <2> HIDE DEF w, a, b
  <2>2. w \in Seq(Media) /\ Len(w) = Len(m) - 1
    <3>1. w \in Seq(Media) BY <1>2, <1>3, <2>1
    <3>2. Len(w) = Len(a) + Len(b) BY <1>2, <1>3, <2>1, ConcatProperties
    <3>3. i - 1 + (Len(m) - i) = Len(m) - 1 BY <1>1
    <3> QED BY <1>2, <1>3, <3>1, <3>2, <3>3
  <2>3. \A k \in 1..Len(m) - 1 : w[k] = IF k <= i - 1 THEN a[k] ELSE b[k - (i - 1)]
    BY <1>1, <1>2, <1>3, <2>1
  <2>4. ASSUME NEW k \in 1..Len(m) - 1
        PROVE  w[k] = IF k < i THEN m[k] ELSE m[k + 1]
    <3>1. CASE k < i BY <3>1, <1>1, <1>2, <2>3
    <3>2. CASE ~(k < i)
      <4>1. k - (i - 1) \in 1..Len(m) - i /\ i + (k - (i - 1)) = k + 1 BY <3>2, <1>1
      <4> QED BY <3>2, <4>1, <1>1, <1>3, <2>3
    <3> QED BY <3>1, <3>2
  <2> QED BY <2>2, <2>4
<1> HIDE DEF w
<1>5. f \in [1..Len(w) -> 1..Len(m)] /\ \A k, l \in 1..Len(w) : f[k] = f[l] => k = l
  BY <1>1, <1>4
<1>6. \A k \in 1..Len(w) : w[k] = m[f[k]] /\ f[k] # i BY <1>1, <1>4
<1> HIDE DEF f
<1>7. AgentsOK(w, c, o) /\ (HasHost(w) => HasHost(m))
  BY <1>5, <1>6, AgentsShrink
<1>8. m[i].kind = "host" => ~HasHost(w)
  BY <1>5, <1>6 DEF HasHost, AgentsOK
<1> QED BY <1>4, <1>7, <1>8 DEF w

-----------------------------------------------------------------------------
(* Agencies *)

(* An agency whose agents and connections stay, and whose call does not    *)
(* begin to wait.                                                          *)
LEMMA FieldsMove ==
  ASSUME NEW r, AgencyOK(r), NEW s \in AgencySet, s.agents = r.agents,
         s.db = r.db, s.msg = r.msg, s.call = "pending" => r.call = "pending",
         s.up = "off" => r.up = "off" /\ s.role = "none"
  PROVE  AgencyOK(s)
BY DEF AgencyOK, AgentsOK, Online

(* _start_host_agent() changes its flag only. *)
LEMMA StartKeeps ==
  ASSUME NEW r, AgencyOK(r)
  PROVE  LET s == StartHostAgent(r)
         IN  AgencyOK(s) /\ s.agents = r.agents /\ s.role = r.role
<1> DEFINE s == StartHostAgent(r)
<1>1. /\ s \in AgencySet /\ s.agents = r.agents /\ s.role = r.role
      /\ s.db = r.db /\ s.msg = r.msg /\ s.call = r.call /\ s.up = r.up
  BY DEF StartHostAgent, AgencyOK, AgencySet
<1> HIDE DEF s
<1>2. AgencyOK(s) BY <1>1, FieldsMove DEF AgencyOK
<1> QED BY <1>1, <1>2 DEF s

(* The start is tried again later. *)
LEMMA RestartKeeps ==
  ASSUME NEW r, AgencyOK(r), r.timers < MaxTimers
  PROVE  LET s == HostRestartFailed(r)
         IN  AgencyOK(s) /\ s.agents = r.agents /\ s.role = r.role
<1> DEFINE t == r.timers + 1
           s == HostRestartFailed(r)
<1>0. t \in 0..MaxTimers BY HostBoundsAssumption DEF AgencyOK, AgencySet
<1>1. /\ s \in AgencySet /\ s.agents = r.agents /\ s.role = r.role
      /\ s.db = r.db /\ s.msg = r.msg /\ s.call = r.call /\ s.up = r.up
  <2>1. s = [r EXCEPT !.chain = "no", !.timers = t] BY DEF HostRestartFailed
  <2> HIDE DEF s, t
  <2> QED BY <1>0, <2>1 DEF AgencyOK, AgencySet
<1> HIDE DEF s
<1>2. AgencyOK(s) BY <1>1, FieldsMove DEF AgencyOK
<1> QED BY <1>1, <1>2 DEF s

(* An agent is registered, unless there is one of its kind. *)
LEMMA RegisteredKeeps ==
  ASSUME NEW r, AgencyOK(r), r.up # "off", NEW kind \in {"host", "other"},
         NEW by \in Agencies \cup {Nobody},
         \A i \in 1..Len(r.agents) : r.agents[i].kind # kind
  PROVE  LET s == Registered(r, kind, by)
         IN  /\ AgencyOK(s) /\ s.role = r.role
             /\ HasHost(s.agents) => kind = "host" \/ HasHost(r.agents)
<1> DEFINE w == Append(r.agents, Medium(kind, by))
           s == Registered(r, kind, by)
<1>1. r \in AgencySet /\ r.agents \in Seq(Media) /\ AgentsOK(r.agents, r.call, Online(r))
  BY DEF AgencyOK, AgencySet
<1>2. w \in Seq(Media) /\ AgentsOK(w, r.call, Online(r))
      /\ (HasHost(w) => kind = "host" \/ HasHost(r.agents))
  BY <1>1, AgentsGrow
<1>3. s = [r EXCEPT !.agents = w] BY DEF Registered
<1> HIDE DEF w
<1>4. /\ s \in AgencySet /\ s.agents = w /\ s.role = r.role /\ s.call = r.call
      /\ s.db = r.db /\ s.msg = r.msg /\ s.up = r.up
  BY <1>1, <1>2, <1>3 DEF AgencySet
<1> HIDE DEF s
<1>5. AgencyOK(s) BY <1>2, <1>4 DEF AgencyOK, Online
<1> QED BY <1>2, <1>4, <1>5 DEF s

(* The agents change their states, and the agency its other fields, as the *)
(* call and the connections allow.                                         *)
LEMMA StatesMove ==
  ASSUME NEW r, AgencyOK(r), NEW s \in AgencySet, Len(s.agents) = Len(r.agents),
         s.up = "off" => r.up = "off" /\ s.role = "none",
         \A i \in 1..Len(r.agents) :
           /\ s.agents[i].kind = r.agents[i].kind
           /\ s.agents[i].st = "disconnected" => ~Online(s)
           /\ s.agents[i].kind = "host" /\ s.agents[i].st \in {"ready", "disconnected"}
                => s.call # "pending"
  PROVE  AgencyOK(s) /\ (HasHost(s.agents) <=> HasHost(r.agents))
<1>1. AgentsOK(s.agents, s.call, Online(s)) /\ (HasHost(s.agents) <=> HasHost(r.agents))
  BY DEF AgencyOK, AgentsOK, HasHost
<1>2. s.up = "off" => s.agents = <<>>
  <2>1. r.agents = <<>> => Len(s.agents) = 0 BY DEF AgencyOK
  <2>2. s.agents \in Seq(Media) BY DEF AgencySet
  <2> QED BY <2>1, <2>2, EmptySeq DEF AgencyOK
<1> QED BY <1>1, <1>2 DEF AgencyOK

-----------------------------------------------------------------------------
(* Steps *)

(* Faults are counted. *)
LEMMA FaultsCounted ==
  ASSUME HostInv, NoFault \/ \E what \in HostFaults : Fault(what)
  PROVE  hostFaults' \in 0..MaxHostFaults
BY HostBoundsAssumption DEF HostInv, NoFault, Fault

(* A step in which no agency becomes the master or gets a host agent. *)
LEMMA AgenciesStep ==
  ASSUME HostInv, ag' = [q \in Agencies |-> ag'[q]],
         \A q \in Agencies : AgencyOK(ag'[q]),
         \A q \in Agencies : ag'[q].role = "master" => ag[q].role = "master",
         \A q \in Agencies : HasHost(ag'[q].agents) => HasHost(ag[q].agents),
         hostDoc' = hostDoc, NoFault \/ \E what \in HostFaults : Fault(what)
  PROVE  HostInv'
<1>1. ag' \in [Agencies -> AgencySet] BY DEF AgencyOK
<1>2. hostFaults' \in 0..MaxHostFaults BY FaultsCounted
<1> QED BY <1>1, <1>2 DEF HostInv, Master

(* Such a step of one agency. *)
LEMMA AgencyStep ==
  ASSUME HostInv, NEW p \in Agencies, NEW r, SetAgency(p, r), AgencyOK(r),
         r.role = "master" => ag[p].role = "master",
         HasHost(r.agents) => HasHost(ag[p].agents),
         hostDoc' = hostDoc, NoFault \/ \E what \in HostFaults : Fault(what)
  PROVE  HostInv'
<1>1. ag' = [q \in Agencies |-> ag'[q]] BY DEF HostInv, SetAgency
<1>2. \A q \in Agencies : ag'[q] = IF q = p THEN r ELSE ag[q] BY DEF HostInv, SetAgency
<1>3. \A q \in Agencies : AgencyOK(ag'[q]) BY <1>2 DEF HostInv
<1> QED BY <1>1, <1>2, <1>3, AgenciesStep

(* A step in which only the flag and the timers of one agency change.      *)
LEMMA ChainStep ==
  ASSUME HostInv, NEW p \in Agencies, NEW r, SetAgency(p, r), AgencyOK(r),
         r.agents = ag[p].agents, r.role = ag[p].role, hostDoc' \in BOOLEAN, hostDoc => hostDoc',
         NoFault \/ \E what \in HostFaults : Fault(what)
  PROVE  HostInv'
<1>1. \A q \in Agencies : ag'[q] = IF q = p THEN r ELSE ag[q] BY DEF HostInv, SetAgency
<1>2. \A q \in Agencies : /\ ag'[q].agents = ag[q].agents /\ ag'[q].role = ag[q].role
                          /\ AgencyOK(ag'[q])
  BY <1>1 DEF HostInv
<1>3. ag' \in [Agencies -> AgencySet] BY DEF HostInv, SetAgency, AgencyOK
<1>4. hostFaults' \in 0..MaxHostFaults BY FaultsCounted
<1> QED BY <1>2, <1>3, <1>4 DEF HostInv, Master

(* An agency of a state that satisfies the invariant. *)
LEMMA OfHostInv ==
  ASSUME HostInv, NEW p \in Agencies
  PROVE  /\ AgencyOK(ag[p]) /\ ag[p] \in AgencySet /\ ag[p].agents \in Seq(Media)
         /\ AgentsOK(ag[p].agents, ag[p].call, Online(ag[p])) /\ hostDoc \in BOOLEAN
BY DEF HostInv, AgencyOK, AgencySet

(* _start_host_agent() up to the document. *)
LEMMA ChainKeeps ==
  ASSUME HostInv, NEW p \in Agencies,
         RetryTimerFires(p) \/ AskForHostDoc(p) \/ HostDocAnswered(p) \/ HostRequestFails(p)
  PROVE  HostInv'
<1>0. AgencyOK(ag[p]) /\ ag[p] \in AgencySet /\ hostDoc \in BOOLEAN BY OfHostInv
<1>a. ASSUME NEW s \in AgencySet, s.agents = ag[p].agents, s.role = ag[p].role,
             s.db = ag[p].db, s.msg = ag[p].msg, s.call = ag[p].call, s.up = ag[p].up
      PROVE  AgencyOK(s)
  BY <1>0, <1>a, FieldsMove DEF AgencyOK
<1>b. ASSUME NEW c \in {"no", "scheduled", "get", "save", "remote", "host"}
      PROVE  LET s == [ag[p] EXCEPT !.chain = c]
             IN  AgencyOK(s) /\ s.agents = ag[p].agents /\ s.role = ag[p].role
  <2> DEFINE s == [ag[p] EXCEPT !.chain = c]
  <2>1. /\ s \in AgencySet /\ s.agents = ag[p].agents /\ s.role = ag[p].role
        /\ s.db = ag[p].db /\ s.msg = ag[p].msg /\ s.call = ag[p].call /\ s.up = ag[p].up
    BY <1>0, <1>b DEF AgencySet
  <2> HIDE DEF s
  <2>2. AgencyOK(s) BY <2>1, <1>a
  <2> QED BY <2>1, <2>2 DEF s
<1>1. CASE RetryTimerFires(p)
  <2> DEFINE t == ag[p].timers - 1
             c == [ag[p] EXCEPT !.timers = t]
  <2>1. t \in 0..MaxTimers
    BY <1>0, <1>1, HostBoundsAssumption DEF RetryTimerFires, AgencySet
  <2>2. /\ c \in AgencySet /\ c.agents = ag[p].agents /\ c.role = ag[p].role
        /\ c.db = ag[p].db /\ c.msg = ag[p].msg /\ c.call = ag[p].call /\ c.up = ag[p].up
    <3> HIDE DEF t
    <3> QED BY <1>0, <2>1 DEF AgencySet
  <2>3. SetAgency(p, StartHostAgent(c)) /\ UNCHANGED hostDoc /\ NoFault
    BY <1>1 DEF RetryTimerFires
  <2> HIDE DEF c
  <2>4. AgencyOK(c) BY <2>2, <1>a
  <2>5. AgencyOK(StartHostAgent(c)) /\ StartHostAgent(c).agents = ag[p].agents
        /\ StartHostAgent(c).role = ag[p].role
    BY <2>2, <2>4, StartKeeps
  <2> QED BY <1>0, <2>3, <2>5, ChainStep
<1>2. CASE AskForHostDoc(p)
  BY <1>0, <1>2, <1>b, ChainStep DEF AskForHostDoc
<1>3. CASE HostDocAnswered(p)
  <2>1. CASE hostDoc
    <3>1. AgencyOK(HostRestartFailed(ag[p])) /\ HostRestartFailed(ag[p]).agents = ag[p].agents
          /\ HostRestartFailed(ag[p]).role = ag[p].role
      BY <1>0, <1>3, RestartKeeps DEF HostDocAnswered
    <3> QED BY <1>0, <1>3, <2>1, <3>1, ChainStep DEF HostDocAnswered
  <2>2. CASE ~hostDoc BY <1>0, <1>3, <2>2, <1>b, ChainStep DEF HostDocAnswered
  <2> QED BY <2>1, <2>2
<1>4. CASE HostRequestFails(p)
  <2>1. AgencyOK(HostRestartFailed(ag[p])) /\ HostRestartFailed(ag[p]).agents = ag[p].agents
        /\ HostRestartFailed(ag[p]).role = ag[p].role
    BY <1>0, <1>4, RestartKeeps DEF HostRequestFails
  <2>2. SetAgency(p, HostRestartFailed(ag[p])) /\ hostDoc' \in {TRUE, hostDoc}
        /\ \E what \in HostFaults : Fault(what)
    BY <1>4 DEF HostRequestFails, Fault
  <2>3. hostDoc' = TRUE \/ hostDoc' = hostDoc BY <2>2
  <2>4. hostDoc' \in BOOLEAN /\ (hostDoc => hostDoc') BY <1>0, <2>3, Zenon
  <2> QED BY <2>1, <2>2, <2>4, ChainStep
<1> QED BY <1>1, <1>2, <1>3, <1>4

(* The save of the document: it is not there, so nobody has a host agent,  *)
(* and one agency gets one.                                                *)
LEMMA SaveKeeps ==
  ASSUME HostInv, NEW p \in Agencies, HostDocSaved(p)
  PROVE  HostInv'
<1>0. AgencyOK(ag[p]) /\ ag[p] \in AgencySet /\ hostDoc \in BOOLEAN BY OfHostInv
<1>a. /\ AgencyOK(HostRestartFailed(ag[p])) /\ HostRestartFailed(ag[p]).agents = ag[p].agents
      /\ HostRestartFailed(ag[p]).role = ag[p].role
  BY <1>0, RestartKeeps DEF HostDocSaved
<1>b. hostDoc' = TRUE /\ NoFault BY DEF HostDocSaved
<1>c. hostFaults' \in 0..MaxHostFaults BY <1>b, FaultsCounted
<1>1. CASE hostDoc
  <2>1. SetAgency(p, HostRestartFailed(ag[p])) BY <1>1 DEF HostDocSaved
  <2> QED BY <1>a, <1>b, <2>1, ChainStep
<1>2. CASE ~hostDoc
  <2>0. ag' = StartedAt(p) /\ \A q \in Agencies : ~HasHost(ag[q].agents)
    BY <1>2 DEF HostDocSaved, HostInv
  <2>1. ASSUME NEW q \in Agencies, ag[q].role = "master", NEW r, AgencyOK(r),
               r.agents = ag[q].agents, r.role = ag[q].role, r.up = ag[q].up
        PROVE  AgencyOK(Registered(r, "host", p)) /\ Registered(r, "host", p).role = "master"
    <3>1. r.up # "off" /\ \A i \in 1..Len(r.agents) : r.agents[i].kind # "host"
      BY <2>0, <2>1 DEF AgencyOK, HasHost
    <3> QED BY <2>1, <3>1, RegisteredKeeps
  <2>2. ASSUME NEW c \in {"host", "remote"}
        PROVE  LET s == [ag[p] EXCEPT !.chain = c]
               IN  AgencyOK(s) /\ s.agents = ag[p].agents /\ s.role = ag[p].role /\ s.up = ag[p].up
    <3> DEFINE s == [ag[p] EXCEPT !.chain = c]
    <3>1. /\ s \in AgencySet /\ s.agents = ag[p].agents /\ s.role = ag[p].role
          /\ s.db = ag[p].db /\ s.msg = ag[p].msg /\ s.call = ag[p].call /\ s.up = ag[p].up
      BY <1>0, <2>2 DEF AgencySet
    <3> HIDE DEF s
    <3>2. AgencyOK(s) BY <3>1, <1>0, FieldsMove DEF AgencyOK
    <3> QED BY <3>1, <3>2 DEF s
  <2>3. ASSUME ag' = [q \in Agencies |-> ag'[q]], NEW h \in Agencies,
               \A q \in Agencies : AgencyOK(ag'[q]) /\ ag'[q].role = ag[q].role,
               \A q \in Agencies \ {h} : ag'[q].agents = ag[q].agents
        PROVE  HostInv'
    <3>1. ag' \in [Agencies -> AgencySet] BY <2>3 DEF AgencyOK
    <3>2. \A q \in Agencies : HasHost(ag'[q].agents) => q = h BY <2>0, <2>3
    <3> QED BY <1>b, <1>c, <2>3, <3>1, <3>2 DEF HostInv, Master
  <2>4. CASE Master(p)
    <3> DEFINE s == [ag[p] EXCEPT !.chain = "host"]
    <3>1. ag' = [ag EXCEPT ![p] = Registered(s, "host", p)]
      BY <2>0, <2>4 DEF StartedAt, Master
    <3>2. AgencyOK(s) /\ s.agents = ag[p].agents /\ s.role = ag[p].role /\ s.up = ag[p].up
      BY <2>2
    <3> HIDE DEF s
    <3>3. AgencyOK(Registered(s, "host", p)) /\ Registered(s, "host", p).role = "master"
      BY <2>1, <2>4, <3>2 DEF Master
    <3> QED BY <2>3, <2>4, <3>1, <3>3 DEF HostInv, Master
  <2>5. CASE ag[p].role = "slave"
    <3> DEFINE s == [ag[p] EXCEPT !.chain = "remote"]
    <3>1. ag' = [q \in Agencies |-> CASE q = p -> s
                                      [] Master(q) -> Registered(ag[q], "host", p)
                                      [] OTHER -> ag[q]]
      BY <2>0, <2>5 DEF StartedAt, Master
    <3>2. AgencyOK(s) /\ s.agents = ag[p].agents /\ s.role = ag[p].role
      BY <2>2
    <3> HIDE DEF s
    <3>3. \A q \in Agencies : AgencyOK(ag'[q]) /\ ag'[q].role = ag[q].role
      BY <2>1, <2>5, <3>1, <3>2 DEF HostInv, Master
    <3>4. \A q \in Agencies : Master(q) \/ ag'[q].agents = ag[q].agents
      BY <3>1, <3>2
    <3>5. CASE \E h \in Agencies : Master(h)
      <4>1. PICK h \in Agencies : Master(h) BY <3>5
      <4>2. \A q \in Agencies \ {h} : ag'[q].agents = ag[q].agents
        BY <3>4, <4>1 DEF HostInv
      <4> QED BY <2>3, <3>1, <3>3, <4>2
    <3>6. CASE ~\E h \in Agencies : Master(h)
      BY <2>3, <3>1, <3>3, <3>4, <3>6
    <3> QED BY <3>5, <3>6
  <2>6. CASE ~Master(p) /\ ag[p].role # "slave"
    <3>1. ag' = [ag EXCEPT ![p] = HostRestartFailed(ag[p])] BY <2>0, <2>6 DEF StartedAt
    <3> QED BY <1>a, <2>3, <3>1 DEF HostInv
  <2> QED BY <2>4, <2>5, <2>6
<1> QED BY <1>1, <1>2

(* An agency whose start of the host agent is over. *)
LEMMA FlagKeeps ==
  ASSUME NEW r, AgencyOK(r),
         NEW c \in {"no", "scheduled", "get", "save", "remote", "host"},
         NEW s, s = [r EXCEPT !.chain = c]
  PROVE  AgencyOK(s) /\ s.agents = r.agents /\ s.role = r.role
<1>1. /\ s \in AgencySet /\ s.agents = r.agents /\ s.role = r.role
      /\ s.db = r.db /\ s.msg = r.msg /\ s.call = r.call /\ s.up = r.up
  BY DEF AgencyOK, AgencySet
<1> QED BY <1>1, FieldsMove DEF AgencyOK

(* The starters of agents that are initiated go on. *)
LEMMA StarterGoesOn ==
  ASSUME HostInv, NEW p \in Agencies, NEW r, AgencyOK(r), r.role = ag[p].role,
         HasHost(r.agents) => HasHost(ag[p].agents), NEW by,
         ag' = WithStarter([ag EXCEPT ![p] = r], by),
         hostDoc' = hostDoc, NoFault \/ \E what \in HostFaults : Fault(what)
  PROVE  HostInv'
<1> DEFINE f == [ag EXCEPT ![p] = r]
<1>1. f \in [Agencies -> AgencySet] /\ \A q \in Agencies : f[q] = IF q = p THEN r ELSE ag[q]
  BY DEF HostInv, AgencyOK
<1>2. \A q \in Agencies : AgencyOK(f[q]) BY <1>1 DEF HostInv
<1>3. \A q \in Agencies : ag'[q] \in {f[q], [f[q] EXCEPT !.chain = "no"]}
  BY DEF WithStarter
<1>4. ag' = [q \in Agencies |-> ag'[q]] BY DEF WithStarter
<1> HIDE DEF f
<1>5. \A q \in Agencies :
        AgencyOK(ag'[q]) /\ ag'[q].role = f[q].role /\ ag'[q].agents = f[q].agents
  <2> SUFFICES ASSUME NEW q \in Agencies
               PROVE  AgencyOK(ag'[q]) /\ ag'[q].role = f[q].role /\ ag'[q].agents = f[q].agents
    OBVIOUS
  <2>1. PICK x : x = f[q] OBVIOUS
  <2>2. AgencyOK(x) BY <1>2, <2>1
  <2>3. ag'[q] = x \/ ag'[q] = [x EXCEPT !.chain = "no"] BY <1>3, <2>1
  <2> QED BY <2>1, <2>2, <2>3, FlagKeeps
<1>6. \A q \in Agencies : HasHost(f[q].agents) => HasHost(ag[q].agents) BY <1>1
<1>7. \A q \in Agencies : f[q].role = ag[q].role BY <1>1
<1> QED BY <1>4, <1>5, <1>6, <1>7, AgenciesStep

(* One agent changes its state. *)
LEMMA AgentMoves ==
  ASSUME NEW r, AgencyOK(r), NEW i \in 1..Len(r.agents), NEW x \in Media,
         x.kind = r.agents[i].kind, x.st # "disconnected",
         NEW s \in AgencySet, s.agents = [r.agents EXCEPT ![i] = x], s.role = r.role,
         s.db = r.db, s.msg = r.msg, s.up = r.up, s.call = "pending" => r.call = "pending",
         x.kind = "host" /\ x.st = "ready" => s.call # "pending"
  PROVE  AgencyOK(s) /\ (HasHost(s.agents) <=> HasHost(r.agents))
<1>1. r.agents \in Seq(Media) /\ AgentsOK(r.agents, r.call, Online(r))
  BY DEF AgencyOK, AgencySet
<1>2. Len(s.agents) = Len(r.agents)
      /\ \A k \in 1..Len(r.agents) : s.agents[k] = IF k = i THEN x ELSE r.agents[k]
  BY <1>1
<1>3. Online(s) <=> Online(r) BY DEF Online
<1>4. \A k \in 1..Len(r.agents) :
        /\ s.agents[k].kind = r.agents[k].kind
        /\ s.agents[k].st = "disconnected" => ~Online(s)
        /\ s.agents[k].kind = "host" /\ s.agents[k].st \in {"ready", "disconnected"}
             => s.call # "pending"
  BY <1>1, <1>2, <1>3 DEF AgentsOK
<1>5. s.up = "off" => r.up = "off" /\ s.role = "none" BY DEF AgencyOK
<1> QED BY <1>2, <1>4, <1>5, StatesMove

(* The life of the agents, but for their end. *)
LEMMA AgentsKeep ==
  ASSUME HostInv, NEW p \in Agencies,
         \/ StartOther(p)
         \/ \E i \in 1..Len(ag[p].agents) :
              DbConnected(p, i) \/ Initiated(p, i) \/ InitiateFails(p, i)
              \/ BecomeReady(p, i) \/ AgentTerminates(p, i)
  PROVE  HostInv'
<1> DEFINE r == ag[p]
           Moved(s, i, x) ==
             /\ s \in AgencySet /\ s.agents = [r.agents EXCEPT ![i] = x]
             /\ s.role = r.role /\ s.db = r.db /\ s.msg = r.msg /\ s.up = r.up
<1>0. AgencyOK(r) /\ r \in AgencySet /\ r.agents \in Seq(Media) BY OfHostInv
<1>1. CASE StartOther(p)
  <2>1. r.up # "off" /\ \A k \in 1..Len(r.agents) : r.agents[k].kind # "other"
    BY <1>1 DEF StartOther
  <2>2. AgencyOK(Registered(r, "other", Nobody)) /\ Registered(r, "other", Nobody).role = r.role
        /\ (HasHost(Registered(r, "other", Nobody).agents) => HasHost(r.agents))
    BY <1>0, <2>1, RegisteredKeeps
  <2> QED BY <1>1, <2>2, AgencyStep DEF StartOther
<1>a. ASSUME NEW i \in 1..Len(r.agents), NEW st \in {"initiating", "starting", "terminating"}
      PROVE  LET s == SetSt(r, i, st)
             IN  AgencyOK(s) /\ s.role = r.role /\ (HasHost(s.agents) <=> HasHost(r.agents))
  <2> DEFINE x == [r.agents[i] EXCEPT !.st = st]
  <2>1. r.agents[i] \in Media BY <1>0, <1>a
  <2>2. x \in Media /\ x.kind = r.agents[i].kind /\ x.st = st BY <2>1, <1>a DEF Media
  <2>3. SetSt(r, i, st) = [r EXCEPT !.agents = [r.agents EXCEPT ![i] = x]]
    BY <1>0, <2>1 DEF SetSt, AgencySet
  <2> DEFINE s == SetSt(r, i, st)
  <2>4. Moved(s, i, x) /\ s.call = r.call
    <3> DEFINE w == [r.agents EXCEPT ![i] = x]
    <3>1. w \in Seq(Media) BY <1>0, <1>a, <2>2
    <3>2. s = [r EXCEPT !.agents = w] BY <2>3
    <3> HIDE DEF w, x, s, r
    <3>3. /\ s \in AgencySet /\ s.agents = w /\ s.role = r.role /\ s.db = r.db
          /\ s.msg = r.msg /\ s.up = r.up /\ s.call = r.call
      BY <1>0, <3>1, <3>2 DEF AgencySet
    <3> QED BY <3>3 DEF w, Moved
  <2> HIDE DEF x, s, r
  <2>5. AgencyOK(s) /\ (HasHost(s.agents) <=> HasHost(r.agents)) /\ s.role = r.role
    BY <1>0, <1>a, <2>2, <2>4, AgentMoves DEF Moved
  <2> QED BY <2>5 DEF s
<1>2. ASSUME NEW i \in 1..Len(r.agents), DbConnected(p, i) PROVE HostInv'
  BY <1>0, <1>2, <1>a, AgencyStep DEF DbConnected
<1>3. ASSUME NEW i \in 1..Len(r.agents), Initiated(p, i) PROVE HostInv'
  <2>1. ag' = WithStarter([ag EXCEPT ![p] = SetSt(r, i, "starting")], r.agents[i].by)
        /\ UNCHANGED hostDoc /\ NoFault
    BY <1>3 DEF Initiated
  <2>2. AgencyOK(SetSt(r, i, "starting")) /\ SetSt(r, i, "starting").role = r.role
        /\ (HasHost(SetSt(r, i, "starting").agents) <=> HasHost(r.agents))
    BY <1>a
  <2> QED BY <2>1, <2>2, StarterGoesOn
<1>4. ASSUME NEW i \in 1..Len(r.agents), InitiateFails(p, i) PROVE HostInv'
  <2>1. ag' = WithStarter([ag EXCEPT ![p] = SetSt(r, i, "terminating")], r.agents[i].by)
        /\ UNCHANGED hostDoc /\ \E what \in HostFaults : Fault(what)
    BY <1>4 DEF InitiateFails, Fault
  <2>2. AgencyOK(SetSt(r, i, "terminating")) /\ SetSt(r, i, "terminating").role = r.role
        /\ (HasHost(SetSt(r, i, "terminating").agents) <=> HasHost(r.agents))
    BY <1>a
  <2> QED BY <2>1, <2>2, StarterGoesOn
<1>5. ASSUME NEW i \in 1..Len(r.agents), BecomeReady(p, i) PROVE HostInv'
  <2> DEFINE x == [r.agents[i] EXCEPT !.st = "ready"]
             t == SetSt(r, i, "ready")
             c == IF x.kind = "host" /\ r.call = "pending" THEN "queued" ELSE r.call
             s == IF t.agents[i].kind = "host" THEN CallsFlushed(t) ELSE t
  <2>1. r.agents[i] \in Media BY <1>0
  <2>2. x \in Media /\ x.kind = r.agents[i].kind /\ x.st = "ready" BY <2>1 DEF Media
  <2>3. t = [r EXCEPT !.agents = [r.agents EXCEPT ![i] = x]] /\ t.agents[i] = x /\ t.call = r.call
    BY <1>0, <2>1 DEF SetSt, AgencySet
  <2>4. s = [r EXCEPT !.agents = [r.agents EXCEPT ![i] = x], !.call = c]
    <3> HIDE DEF x
    <3> QED BY <1>0, <2>3 DEF CallsFlushed, AgencySet
  <2>5. c \in {"none", "pending", "queued", "done", "lost"} /\ (c = "pending" => r.call = "pending")
        /\ (x.kind = "host" => c # "pending")
    BY <1>0 DEF AgencySet
  <2>6. SetAgency(p, s) /\ UNCHANGED hostDoc /\ NoFault BY <1>5 DEF BecomeReady
  <2>7. AgencyOK(s) /\ s.role = r.role /\ (HasHost(s.agents) <=> HasHost(r.agents))
    <3>1. Moved(s, i, x) /\ s.call = c
      <4> DEFINE w == [r.agents EXCEPT ![i] = x]
      <4>1. w \in Seq(Media) BY <1>0, <1>5, <2>2
      <4>2. s = [r EXCEPT !.agents = w, !.call = c] BY <2>4
      <4> HIDE DEF w, x, c, s, r
      <4>3. /\ s \in AgencySet /\ s.agents = w /\ s.role = r.role /\ s.db = r.db
            /\ s.msg = r.msg /\ s.up = r.up /\ s.call = c
        BY <1>0, <2>5, <4>1, <4>2 DEF AgencySet
      <4> QED BY <4>3 DEF w, Moved
    <3> HIDE DEF x, c, s, r
    <3> QED BY <1>0, <1>5, <2>2, <2>5, <3>1, AgentMoves
  <2> HIDE DEF s
  <2> QED BY <2>6, <2>7, AgencyStep
<1>6. ASSUME NEW i \in 1..Len(r.agents), AgentTerminates(p, i) PROVE HostInv'
  <2> DEFINE m == r.agents[i]
             x == [m EXCEPT !.st = "terminating", !.hard = FALSE]
             c == IF m.kind = "host" /\ r.call = "queued" THEN "lost" ELSE r.call
  <2>1. m \in Media /\ m.st # "terminating" BY <1>0, <1>6 DEF AgentTerminates
  <2>2. x \in Media /\ x.kind = m.kind /\ x.st = "terminating" BY <2>1 DEF Media
  <2>3. Ending(r, i, FALSE) = [r EXCEPT !.agents = [r.agents EXCEPT ![i] = x], !.call = c]
    BY <1>0, <2>1 DEF Ending, AgencySet
  <2>4. c \in {"none", "pending", "queued", "done", "lost"} /\ (c = "pending" => r.call = "pending")
    BY <1>0 DEF AgencySet
  <2>5. AgencyOK(Ending(r, i, FALSE)) /\ Ending(r, i, FALSE).role = r.role
        /\ (HasHost(Ending(r, i, FALSE).agents) <=> HasHost(r.agents))
    <3> DEFINE s == Ending(r, i, FALSE)
    <3>1. Moved(s, i, x) /\ s.call = c
      <4> DEFINE w == [r.agents EXCEPT ![i] = x]
      <4>1. w \in Seq(Media) BY <1>0, <1>6, <2>2
      <4>2. s = [r EXCEPT !.agents = w, !.call = c] BY <2>3
      <4> HIDE DEF w, x, c, s, r
      <4>3. /\ s \in AgencySet /\ s.agents = w /\ s.role = r.role /\ s.db = r.db
            /\ s.msg = r.msg /\ s.up = r.up /\ s.call = c
        BY <1>0, <2>4, <4>1, <4>2 DEF AgencySet
      <4> QED BY <4>3 DEF w, Moved
    <3> HIDE DEF x, c, r, s
    <3>2. AgencyOK(s) /\ s.role = r.role /\ (HasHost(s.agents) <=> HasHost(r.agents))
      BY <1>0, <1>6, <2>2, <2>4, <3>1, AgentMoves DEF m
    <3> QED BY <3>2 DEF s
  <2>6. SetAgency(p, Ending(r, i, FALSE)) /\ UNCHANGED hostDoc /\ \E what \in HostFaults : Fault(what)
    BY <1>6 DEF AgentTerminates, Fault
  <2> QED BY <2>5, <2>6, AgencyStep
<1> QED BY <1>1, <1>2, <1>3, <1>4, <1>5, <1>6

(* One of the agencies moves, and no agency has a host agent afterwards: a *)
(* step that may delete the descriptor.                                    *)
LEMMA NobodyStep ==
  ASSUME HostInv, NEW p \in Agencies, NEW r, SetAgency(p, r), AgencyOK(r), r.role = ag[p].role,
         ~HasHost(r.agents), HasHost(ag[p].agents), hostDoc' \in BOOLEAN, NoFault
  PROVE  HostInv'
<1>1. \A q \in Agencies : ag'[q] = IF q = p THEN r ELSE ag[q] BY DEF HostInv, SetAgency
<1>2. \A q \in Agencies : AgencyOK(ag'[q]) /\ ag'[q].role = ag[q].role /\ ~HasHost(ag'[q].agents)
  BY <1>1 DEF HostInv
<1>3. ag' \in [Agencies -> AgencySet] BY DEF HostInv, SetAgency, AgencyOK
<1>4. hostFaults' \in 0..MaxHostFaults BY FaultsCounted
<1> QED BY <1>2, <1>3, <1>4 DEF HostInv, Master

(* An agent leaves: the host agent takes the descriptor along, or leaves it, *)
(* and there is no other host agent that would need it.                    *)
LEMMA TerminationKeeps ==
  ASSUME HostInv, NEW p \in Agencies, NEW i \in 1..Len(ag[p].agents), TerminationEnds(p, i)
  PROVE  HostInv'
<1> DEFINE r == ag[p]
           w == RemoveAt(r.agents, i)
           left == [r EXCEPT !.agents = w]
           s == Unregistered(r, i)
<1>0. AgencyOK(r) /\ r \in AgencySet /\ r.agents \in Seq(Media) /\ hostDoc \in BOOLEAN
      /\ AgentsOK(r.agents, r.call, Online(r))
  BY OfHostInv
<1>1. /\ w \in Seq(Media) /\ AgentsOK(w, r.call, Online(r)) /\ (HasHost(w) => HasHost(r.agents))
      /\ r.agents[i].kind = "host" => ~HasHost(w)
  BY <1>0, AgentRemoved
<1>2. r.up # "off"
  <2>1. Len(r.agents) # 0 BY <1>0
  <2> QED BY <1>0, <2>1 DEF AgencyOK
<1>3. AgencyOK(left) /\ left.agents = w /\ left.role = r.role
  <2> HIDE DEF w, r
  <2>1. /\ left \in AgencySet /\ left.agents = w /\ left.role = r.role /\ left.call = r.call
        /\ left.db = r.db /\ left.msg = r.msg /\ left.up = r.up
    BY <1>0, <1>1 DEF AgencySet
  <2> HIDE DEF left
  <2> QED BY <1>1, <1>2, <2>1 DEF AgencyOK, Online
<1>4. s = left \/ s = StartHostAgent(left) BY DEF Unregistered
<1> HIDE DEF left
<1>5. AgencyOK(s) /\ s.agents = w /\ s.role = r.role BY <1>3, <1>4, StartKeeps
<1>6. /\ SetAgency(p, s) /\ NoFault
      /\ hostDoc' = (hostDoc /\ ~(r.agents[i].kind = "host" /\ ~r.agents[i].hard /\ r.db))
  BY DEF TerminationEnds
<1> HIDE DEF s, w
<1>7. CASE r.agents[i].kind = "host"
  <2>1. ~HasHost(s.agents) /\ HasHost(r.agents) BY <1>1, <1>5, <1>7 DEF HasHost
  <2>2. hostDoc' \in BOOLEAN BY <1>6
  <2> QED BY <1>5, <1>6, <2>1, <2>2, NobodyStep
<1>8. CASE r.agents[i].kind # "host"
  <2>1. hostDoc' = hostDoc BY <1>0, <1>6, <1>8
  <2> QED BY <1>1, <1>5, <1>6, <2>1, AgencyStep
<1> QED BY <1>7, <1>8

(* The monitor agents delete the descriptor of nobody. *)
LEMMA MonitorKeeps ==
  ASSUME HostInv, MonitorCleansUp
  PROVE  HostInv'
<1>1. \A p \in Agencies : ~HasHost(ag[p].agents) BY DEF MonitorCleansUp, HostAt, HasHost
<1>2. ag' = ag /\ hostDoc' \in BOOLEAN BY DEF MonitorCleansUp
<1>3. hostFaults' \in 0..MaxHostFaults BY FaultsCounted DEF MonitorCleansUp
<1> QED BY <1>1, <1>2, <1>3 DEF HostInv, Master

(* A call waits only where no host agent is ready. *)
LEMMA CallsKeep ==
  ASSUME HostInv, NEW p \in Agencies, HostAgentCall(p) \/ HostAgentCalled(p)
  PROVE  HostInv'
<1>0. AgencyOK(ag[p]) /\ ag[p] \in AgencySet /\ ag[p].agents \in Seq(Media) BY OfHostInv
<1>1. CASE HostAgentCall(p)
  <2> DEFINE r == [ag[p] EXCEPT !.call = "pending"]
             ready == \E i \in HostAt(r) : r.agents[i].st \in {"starting", "ready", "disconnected"}
             s == IF ready THEN CallsFlushed(r) ELSE r
  <2>1. /\ r \in AgencySet /\ r.agents = ag[p].agents /\ r.role = ag[p].role
        /\ r.db = ag[p].db /\ r.msg = ag[p].msg /\ r.up = ag[p].up /\ r.call = "pending"
    BY <1>0 DEF AgencySet
  <2>2. ready <=> \E i \in HostAt(r) : r.agents[i].st \in {"starting", "ready", "disconnected"}
    OBVIOUS
  <2>3. SetAgency(p, s) /\ UNCHANGED hostDoc /\ NoFault BY <1>1 DEF HostAgentCall
  <2> HIDE DEF r, ready
  <2>4. /\ s \in AgencySet /\ s.agents = ag[p].agents /\ s.role = ag[p].role
        /\ s.db = ag[p].db /\ s.msg = ag[p].msg /\ s.up = ag[p].up
        /\ s.call = IF ready THEN "queued" ELSE "pending"
    BY <2>1 DEF CallsFlushed, AgencySet
  <2> HIDE DEF s
  <2>5. \A i \in 1..Len(ag[p].agents) :
          /\ s.agents[i].kind = ag[p].agents[i].kind
          /\ s.agents[i].st = "disconnected" => ~Online(s)
          /\ s.agents[i].kind = "host" /\ s.agents[i].st \in {"ready", "disconnected"}
               => s.call # "pending"
    BY <1>0, <2>1, <2>2, <2>4 DEF AgencyOK, AgentsOK, Online, HostAt
  <2>6. s.up = "off" => ag[p].up = "off" /\ s.role = "none" BY <1>0, <2>4 DEF AgencyOK
  <2>7. AgencyOK(s) /\ (HasHost(s.agents) <=> HasHost(ag[p].agents))
    BY <1>0, <2>4, <2>5, <2>6, StatesMove
  <2> QED BY <2>3, <2>4, <2>7, AgencyStep
<1>2. CASE HostAgentCalled(p)
  <2> DEFINE s == [ag[p] EXCEPT !.call = "done"]
  <2>1. /\ s \in AgencySet /\ s.agents = ag[p].agents /\ s.role = ag[p].role /\ s.call = "done"
        /\ s.db = ag[p].db /\ s.msg = ag[p].msg /\ s.up = ag[p].up
    BY <1>0 DEF AgencySet
  <2>2. SetAgency(p, s) /\ UNCHANGED hostDoc /\ NoFault BY <1>2 DEF HostAgentCalled
  <2> HIDE DEF s
  <2>3. AgencyOK(s) BY <1>0, <2>1, FieldsMove DEF AgencyOK
  <2> QED BY <2>1, <2>2, <2>3, AgencyStep
<1> QED BY <1>1, <1>2

-----------------------------------------------------------------------------
(* Connections and roles *)

(* The agents are told of the connections: r is the agency before they     *)
(* changed, t after.                                                       *)
LEMMA ToldKeeps ==
  ASSUME NEW r, AgencyOK(r), NEW t \in AgencySet, t.agents = r.agents, t.call = r.call,
         t.up = "off" => r.up = "off" /\ t.role = "none", NEW s,
         \/ s \in {t, Notify(t, "ready", "disconnected")} /\ ~Online(t)
         \/ s = Notify(t, "disconnected", "ready") /\ Online(t)
  PROVE  AgencyOK(s) /\ s.role = t.role /\ (HasHost(s.agents) <=> HasHost(r.agents))
<1>0. r.agents \in Seq(Media) /\ AgentsOK(r.agents, r.call, Online(r))
  BY DEF AgencyOK, AgencySet
<1> DEFINE m == r.agents
           Moved(a, st) ==
             [i \in DOMAIN m |-> IF m[i].st = a THEN [m[i] EXCEPT !.st = st] ELSE m[i]]
           off == Moved("ready", "disconnected")
           on == Moved("disconnected", "ready")
<1>1. DOMAIN m = 1..Len(m) /\ \A i \in 1..Len(m) : m[i] \in Media BY <1>0
<1>2. ASSUME NEW a, NEW st \in {"ready", "disconnected"}, NEW w, w = Moved(a, st)
      PROVE  /\ w \in Seq(Media) /\ Len(w) = Len(m)
             /\ \A i \in 1..Len(m) : /\ w[i].kind = m[i].kind
                                     /\ w[i].st = IF m[i].st = a THEN st ELSE m[i].st
  <2> HIDE DEF m
  <2>1. ASSUME NEW x \in Media
        PROVE  LET y == [x EXCEPT !.st = st]
               IN  y \in Media /\ y.kind = x.kind /\ y.st = st
    BY <1>2, <2>1 DEF Media
  <2>2. w = [i \in 1..Len(m) |-> w[i]] BY <1>1, <1>2
  <2>3. ASSUME NEW i \in 1..Len(m)
        PROVE  /\ w[i] \in Media /\ w[i].kind = m[i].kind
               /\ w[i].st = IF m[i].st = a THEN st ELSE m[i].st
    <3>1. PICK x \in Media : x = m[i] BY <1>1
    <3>2. w[i] = IF x.st = a THEN [x EXCEPT !.st = st] ELSE x BY <1>1, <1>2, <3>1
    <3>3. CASE x.st = a
      <4>1. w[i] = [x EXCEPT !.st = st] BY <3>2, <3>3
      <4> QED BY <2>1, <3>1, <3>3, <4>1
    <3>4. CASE x.st # a BY <3>1, <3>2, <3>4
    <3> QED BY <3>3, <3>4
  <2>4. Len(m) \in Nat BY <1>0 DEF m
  <2>5. w \in Seq(Media) /\ Len(w) = Len(m) BY <2>2, <2>3, <2>4
  <2> QED BY <2>3, <2>5
<1>3. /\ off \in Seq(Media) /\ Len(off) = Len(m)
      /\ \A i \in 1..Len(m) : /\ off[i].kind = m[i].kind
                              /\ off[i].st = IF m[i].st = "ready" THEN "disconnected" ELSE m[i].st
  <2> HIDE DEF Moved
  <2> QED BY <1>2
<1>4. /\ on \in Seq(Media) /\ Len(on) = Len(m)
      /\ \A i \in 1..Len(m) : /\ on[i].kind = m[i].kind
                              /\ on[i].st = IF m[i].st = "disconnected" THEN "ready" ELSE m[i].st
  <2> HIDE DEF Moved
  <2> QED BY <1>2
<1>5. /\ Notify(t, "ready", "disconnected") = [t EXCEPT !.agents = off]
      /\ Notify(t, "disconnected", "ready") = [t EXCEPT !.agents = on]
  BY DEF Notify
<1> HIDE DEF off, on
<1>6. ASSUME NEW w \in Seq(Media), NEW u, u = [t EXCEPT !.agents = w]
      PROVE  /\ u \in AgencySet /\ u.agents = w /\ u.role = t.role /\ u.call = t.call
             /\ u.db = t.db /\ u.msg = t.msg /\ u.up = t.up
  BY <1>6 DEF AgencySet
<1>7. \/ /\ ~Online(t) /\ s.agents = m /\ s \in AgencySet /\ s.role = t.role
         /\ s.call = t.call /\ s.db = t.db /\ s.msg = t.msg /\ s.up = t.up
      \/ /\ ~Online(t) /\ s.agents = off /\ s \in AgencySet /\ s.role = t.role
         /\ s.call = t.call /\ s.db = t.db /\ s.msg = t.msg /\ s.up = t.up
      \/ /\ Online(t) /\ s.agents = on /\ s \in AgencySet /\ s.role = t.role
         /\ s.call = t.call /\ s.db = t.db /\ s.msg = t.msg /\ s.up = t.up
  BY <1>3, <1>4, <1>5, <1>6
<1>8. \A i \in 1..Len(m) :
        /\ s.agents[i].kind = m[i].kind
        /\ s.agents[i].st = "disconnected" => ~Online(s)
        /\ s.agents[i].kind = "host" /\ s.agents[i].st \in {"ready", "disconnected"}
             => s.call # "pending"
  BY <1>0, <1>3, <1>4, <1>7 DEF AgentsOK, Online
<1>9. Len(s.agents) = Len(m) BY <1>3, <1>4, <1>7
<1>10. (s.up = "off" => r.up = "off" /\ s.role = "none") /\ s \in AgencySet /\ s.role = t.role
  BY <1>7
<1> QED BY <1>8, <1>9, <1>10, StatesMove

(* Connections go and come. *)
LEMMA ConnectionsKeep ==
  ASSUME HostInv, NEW p \in Agencies, AgencyDisconnected(p) \/ AgencyReconnected(p)
  PROVE  HostInv'
<1> DEFINE r == ag[p]
<1>0. AgencyOK(r) /\ r \in AgencySet BY OfHostInv
<1>1. ASSUME NEW on \in BOOLEAN, NEW t, t = [r EXCEPT !.db = on] \/ t = [r EXCEPT !.msg = on]
      PROVE  /\ t \in AgencySet /\ t.agents = r.agents /\ t.call = r.call /\ t.role = r.role
             /\ t.up = "off" => r.up = "off" /\ t.role = "none"
             /\ ~on => ~Online(t)
  <2>1. /\ t \in AgencySet /\ t.agents = r.agents /\ t.call = r.call /\ t.role = r.role
        /\ t.up = r.up /\ (t.db = on \/ t.msg = on)
    <3> HIDE DEF r
    <3> QED BY <1>0, <1>1 DEF AgencySet
  <2> HIDE DEF r
  <2> QED BY <1>0, <2>1 DEF AgencyOK, Online
<1>2. ASSUME NEW t \in AgencySet, t.agents = r.agents, t.call = r.call, t.role = r.role,
             t.up = "off" => r.up = "off" /\ t.role = "none", NEW s,
             \/ s \in {t, Notify(t, "ready", "disconnected")} /\ ~Online(t)
             \/ s = Notify(t, "disconnected", "ready") /\ Online(t),
             SetAgency(p, s), hostDoc' = hostDoc, NoFault \/ \E what \in HostFaults : Fault(what)
      PROVE  HostInv'
  <2>1. AgencyOK(s) /\ s.role = r.role /\ (HasHost(s.agents) <=> HasHost(r.agents))
    BY <1>0, <1>2, ToldKeeps
  <2> QED BY <1>2, <2>1, AgencyStep
<1>3. CASE AgencyDisconnected(p)
  <2>1. PICK t : /\ t = [r EXCEPT !.db = FALSE] \/ t = [r EXCEPT !.msg = FALSE]
                 /\ SetAgency(p, OnDisconnected(r, t)) /\ \E what \in HostFaults : Fault(what)
    BY <1>3 DEF AgencyDisconnected, Fault
  <2>2. hostDoc' = hostDoc BY <1>3 DEF AgencyDisconnected
  <2>3. /\ t \in AgencySet /\ t.agents = r.agents /\ t.call = r.call /\ t.role = r.role
        /\ t.up = "off" => r.up = "off" /\ t.role = "none"
        /\ ~Online(t)
    BY <1>1, <2>1
  <2> DEFINE s == OnDisconnected(r, t)
  <2>4. s \in {t, Notify(t, "ready", "disconnected")} BY DEF OnDisconnected
  <2> HIDE DEF r, s
  <2> QED BY <1>2, <2>1, <2>2, <2>3, <2>4 DEF s
<1>4. CASE AgencyReconnected(p)
  <2>1. PICK t : /\ t = [r EXCEPT !.db = TRUE] \/ t = [r EXCEPT !.msg = TRUE]
                 /\ (~r.db \/ ~r.msg) /\ SetAgency(p, CheckMsgAndDbState(r, t))
    BY <1>4 DEF AgencyReconnected
  <2>2. hostDoc' = hostDoc /\ NoFault BY <1>4 DEF AgencyReconnected
  <2>3. /\ t \in AgencySet /\ t.agents = r.agents /\ t.call = r.call /\ t.role = r.role
        /\ t.up = "off" => r.up = "off" /\ t.role = "none"
    BY <1>1, <2>1
  <2> DEFINE s == CheckMsgAndDbState(r, t)
  <2>4. \/ s = t /\ ~Online(t)
        \/ s = Notify(t, "disconnected", "ready") /\ Online(t)
    BY <2>1 DEF CheckMsgAndDbState, OnDisconnected, OnConnected, Online
  <2> HIDE DEF r, s
  <2> QED BY <1>2, <2>1, <2>2, <2>3, <2>4 DEF s
<1> QED BY <1>3, <1>4

(* An agency without a role: a start that was asked of a master fails. *)
LEMMA AloneKeeps ==
  ASSUME NEW r, AgencyOK(r), r.timers < MaxTimers, NEW s, s = Alone(r)
  PROVE  /\ AgencyOK(s) /\ s.role = "none" /\ s.agents = r.agents
         /\ s.up = r.up /\ s.call = r.call
<1> DEFINE t == [r EXCEPT !.role = "none"]
<1>1. /\ t \in AgencySet /\ t.agents = r.agents /\ t.role = "none" /\ t.timers = r.timers
      /\ t.db = r.db /\ t.msg = r.msg /\ t.call = r.call /\ t.up = r.up
  BY DEF AgencyOK, AgencySet
<1>2. s = t \/ s = HostRestartFailed(t) BY DEF Alone
<1> HIDE DEF t
<1>3. AgencyOK(t) BY <1>1, FieldsMove
<1>4. HostRestartFailed(t).up = t.up /\ HostRestartFailed(t).call = t.call
  BY <1>1 DEF HostRestartFailed, AgencySet
<1> QED BY <1>1, <1>2, <1>3, <1>4, RestartKeeps

(* An agency leaves the broker, and a master's slaves are alone. *)
LEMMA LeftKeeps ==
  ASSUME HostInv, NEW p \in Agencies, NEW r, AgencyOK(r), r.role = "none",
         HasHost(r.agents) => HasHost(ag[p].agents), RoomForTimers,
         ag' = Left(p, r), hostDoc' = hostDoc, NoFault \/ \E what \in HostFaults : Fault(what)
  PROVE  HostInv'
<1>1. ag' = [q \in Agencies |-> ag'[q]] BY DEF Left
<1>2. \A q \in Agencies : \/ q = p /\ ag'[q] = r
                          \/ q # p /\ (ag'[q] = ag[q] \/ ag'[q] = Alone(ag[q]))
  BY DEF Left
<1>3. \A q \in Agencies : LET s == Alone(ag[q])
                          IN  AgencyOK(s) /\ s.role = "none" /\ s.agents = ag[q].agents
  BY AloneKeeps DEF HostInv, RoomForTimers
<1>4. \A q \in Agencies :
        /\ AgencyOK(ag'[q])
        /\ ag'[q].role = "master" => ag[q].role = "master"
        /\ HasHost(ag'[q].agents) => HasHost(ag[q].agents)
  BY <1>2, <1>3 DEF HostInv
<1> QED BY <1>1, <1>4, AgenciesStep

(* The broker gives the roles, one master at a time. *)
LEMMA RolesKeep ==
  ASSUME HostInv, NEW p \in Agencies,
         OnBecomeMaster(p) \/ BecameMaster(p) \/ OnBecomeSlave(p) \/ LoseRole(p)
  PROVE  HostInv'
<1> DEFINE r == ag[p]
<1>0. AgencyOK(r) /\ r \in AgencySet BY OfHostInv
<1>1. CASE OnBecomeMaster(p)
  <2> DEFINE s == [r EXCEPT !.role = "master", !.promoted = TRUE]
  <2>1. /\ s \in AgencySet /\ s.agents = r.agents /\ s.call = r.call
        /\ s.db = r.db /\ s.msg = r.msg /\ s.up = r.up
    BY <1>0 DEF AgencySet
  <2>2. SetAgency(p, s) /\ Up(p) /\ NoMaster /\ UNCHANGED hostDoc /\ NoFault
    BY <1>1 DEF OnBecomeMaster
  <2> HIDE DEF s
  <2>3. AgencyOK(s) BY <1>0, <2>1, <2>2, FieldsMove DEF Up
  <2>4. \A q \in Agencies : ag'[q] = IF q = p THEN s ELSE ag[q]
    BY <2>2 DEF HostInv, SetAgency
  <2>5. \A q \in Agencies : AgencyOK(ag'[q]) /\ ag'[q].agents = ag[q].agents
                            /\ (ag'[q].role = "master" => q = p)
    BY <2>1, <2>2, <2>3, <2>4 DEF HostInv, NoMaster, Master
  <2>6. ag' \in [Agencies -> AgencySet] BY <2>2, <2>3 DEF HostInv, SetAgency, AgencyOK
  <2>7. hostFaults' \in 0..MaxHostFaults BY <2>2, FaultsCounted
  <2> QED BY <2>2, <2>5, <2>6, <2>7 DEF HostInv, Master
<1>2. CASE BecameMaster(p)
  <2> DEFINE t == [r EXCEPT !.promoted = FALSE]
  <2>1. /\ t \in AgencySet /\ t.agents = r.agents /\ t.call = r.call /\ t.role = r.role
        /\ t.db = r.db /\ t.msg = r.msg /\ t.up = r.up
    BY <1>0 DEF AgencySet
  <2>2. SetAgency(p, StartHostAgent(t)) /\ UNCHANGED hostDoc /\ NoFault
    BY <1>2 DEF BecameMaster
  <2> HIDE DEF t
  <2>3. AgencyOK(t) BY <1>0, <2>1, FieldsMove DEF AgencyOK
  <2>4. AgencyOK(StartHostAgent(t)) /\ StartHostAgent(t).agents = r.agents
        /\ StartHostAgent(t).role = r.role
    BY <2>1, <2>3, StartKeeps
  <2> QED BY <2>2, <2>4, AgencyStep
<1>3. CASE OnBecomeSlave(p)
  <2> DEFINE s == [r EXCEPT !.role = "slave"]
  <2>1. /\ s \in AgencySet /\ s.agents = r.agents /\ s.call = r.call /\ s.role = "slave"
        /\ s.db = r.db /\ s.msg = r.msg /\ s.up = r.up
    BY <1>0 DEF AgencySet
  <2>2. SetAgency(p, s) /\ Up(p) /\ UNCHANGED hostDoc /\ NoFault BY <1>3 DEF OnBecomeSlave
  <2> HIDE DEF s
  <2>3. AgencyOK(s) BY <1>0, <2>1, <2>2, FieldsMove DEF Up
  <2> QED BY <2>1, <2>2, <2>3, AgencyStep
<1>4. CASE LoseRole(p)
  <2> DEFINE s == Alone(r)
  <2>1. /\ ag' = Left(p, s) /\ RoomForTimers /\ hostDoc' = hostDoc
        /\ \E what \in HostFaults : Fault(what)
    BY <1>4 DEF LoseRole, Fault
  <2>2. r.timers < MaxTimers BY <2>1 DEF RoomForTimers
  <2>3. AgencyOK(s) /\ s.role = "none" /\ s.agents = r.agents BY <1>0, <2>2, AloneKeeps
  <2> HIDE DEF s
  <2> QED BY <2>1, <2>3, LeftKeeps
<1> QED BY <1>1, <1>2, <1>3, <1>4

-----------------------------------------------------------------------------
(* Start, crash and shutdown *)

(* An agency that has just been started. *)
LEMMA FreshIsOK ==
  /\ FreshAgency \in AgencySet /\ FreshAgency.agents = <<>> /\ FreshAgency.role = "none"
  /\ AgencyOK(FreshAgency) /\ ~HasHost(FreshAgency.agents)
<1>1. 0 \in 0..MaxTimers BY HostBoundsAssumption
<1>2. <<>> \in Seq(Media) /\ Len(<<>>) = 0 OBVIOUS
<1>3. FreshAgency \in AgencySet /\ FreshAgency.agents = <<>> /\ FreshAgency.role = "none"
      /\ FreshAgency.up = "starting"
  BY <1>1, <1>2 DEF FreshAgency, AgencySet
<1> QED BY <1>2, <1>3 DEF AgencyOK, AgentsOK, HasHost

(* The process starts, dies, and is told to shut down. *)
LEMMA ProcessKeeps ==
  ASSUME HostInv, NEW p \in Agencies,
         \/ StartupEnds(p) \/ AgencyCrash(p) \/ Launch(p)
         \/ ShutdownCalled(p, TRUE) \/ ShutdownCalled(p, FALSE) \/ StageInternals(p)
  PROVE  HostInv'
<1> DEFINE r == ag[p]
<1>0. AgencyOK(r) /\ r \in AgencySet BY OfHostInv
<1>1. CASE StartupEnds(p)
  <2> DEFINE t == [r EXCEPT !.up = "running"]
  <2>1. /\ t \in AgencySet /\ t.agents = r.agents /\ t.call = r.call /\ t.role = r.role
        /\ t.db = r.db /\ t.msg = r.msg /\ t.up = "running"
    BY <1>0 DEF AgencySet
  <2>2. SetAgency(p, StartHostAgent(t)) /\ UNCHANGED hostDoc /\ NoFault
    BY <1>1 DEF StartupEnds
  <2> HIDE DEF t
  <2>3. AgencyOK(t) BY <1>0, <2>1, FieldsMove
  <2>4. AgencyOK(StartHostAgent(t)) /\ StartHostAgent(t).agents = r.agents
        /\ StartHostAgent(t).role = r.role
    BY <2>1, <2>3, StartKeeps
  <2> QED BY <2>2, <2>4, AgencyStep
<1>2. CASE AgencyCrash(p)
  <2> DEFINE s == [FreshAgency EXCEPT !.up = "off", !.call = "lost"]
  <2>1. /\ ag' = Left(p, s) /\ RoomForTimers /\ hostDoc' = hostDoc
        /\ \E what \in HostFaults : Fault(what)
    BY <1>2 DEF AgencyCrash, Fault
  <2>2. /\ s.up = "off" /\ s.role = "none" /\ s.agents = <<>> /\ s \in AgencySet
    BY FreshIsOK DEF AgencySet
  <2> HIDE DEF s
  <2>3. Len(s.agents) = 0 BY <2>2
  <2>4. AgencyOK(s) /\ ~HasHost(s.agents) BY <2>2, <2>3 DEF AgencyOK, AgentsOK, HasHost
  <2> QED BY <2>1, <2>2, <2>4, LeftKeeps
<1>3. CASE Launch(p)
  <2> DEFINE s == [r EXCEPT !.up = "starting"]
  <2>1. /\ s \in AgencySet /\ s.agents = r.agents /\ s.call = r.call /\ s.role = r.role
        /\ s.db = r.db /\ s.msg = r.msg /\ s.up = "starting"
    BY <1>0 DEF AgencySet
  <2>2. SetAgency(p, s) /\ UNCHANGED hostDoc /\ NoFault BY <1>3 DEF Launch
  <2> HIDE DEF s
  <2>3. AgencyOK(s) BY <1>0, <2>1, FieldsMove
  <2> QED BY <2>1, <2>2, <2>3, AgencyStep
<1>4. ASSUME NEW gentle \in BOOLEAN, ShutdownCalled(p, gentle) PROVE HostInv'
  <2> DEFINE shut == IF r.shut = "no" THEN "initiated" ELSE r.shut
             s == [r EXCEPT !.shut = shut, !.gentle = gentle]
  <2>1. SetAgency(p, s) /\ Up(p) /\ hostDoc' = hostDoc /\ \E what \in HostFaults : Fault(what)
    <3>1. SetAgency(p, s) /\ Up(p) /\ hostDoc' = hostDoc BY <1>4 DEF ShutdownCalled
    <3>2. Fault(IF gentle THEN "shutdown" ELSE "kill") BY <1>4 DEF ShutdownCalled
    <3> QED BY <3>1, <3>2 DEF Fault
  <2>2. shut \in {"no", "initiated", "agents", "done"} BY <1>0 DEF AgencySet
  <2> HIDE DEF shut
  <2>3. /\ s \in AgencySet /\ s.agents = r.agents /\ s.call = r.call /\ s.role = r.role
        /\ s.db = r.db /\ s.msg = r.msg /\ s.up = r.up
    BY <1>0, <2>2 DEF AgencySet
  <2> HIDE DEF s
  <2>4. AgencyOK(s) BY <1>0, <2>1, <2>3, FieldsMove DEF Up
  <2> QED BY <2>1, <2>3, <2>4, AgencyStep
<1>5. CASE StageInternals(p)
  <2> DEFINE a == Alone(r)
             t == [a EXCEPT !.shut = "done", !.db = FALSE, !.msg = FALSE]
  <2>1. ag' = Left(p, t) /\ RoomForTimers /\ hostDoc' = hostDoc /\ NoFault
    BY <1>5 DEF StageInternals
  <2>2. r.timers < MaxTimers BY <2>1 DEF RoomForTimers
  <2>3. AgencyOK(a) /\ a \in AgencySet /\ a.role = "none" /\ a.agents = r.agents
    BY <1>0, <2>2, AloneKeeps DEF AgencyOK
  <2> HIDE DEF a
  <2>4. /\ t \in AgencySet /\ t.agents = a.agents /\ t.call = a.call /\ t.up = a.up
        /\ t.role = "none" /\ ~t.db
    BY <2>3 DEF AgencySet
  <2> HIDE DEF t
  <2>5. AgencyOK(t) /\ (HasHost(t.agents) <=> HasHost(a.agents))
    BY <2>3, <2>4, ToldKeeps DEF Online
  <2> QED BY <2>1, <2>3, <2>4, <2>5, LeftKeeps
<1> QED BY <1>1, <1>2, <1>3, <1>4, <1>5

(* There are at most two agents, and those of a set of them are counted    *)
(* off in their order.                                                     *)
LEMMA CountedOff ==
  ASSUME NEW len \in 0..2, NEW S \in SUBSET (1..len)
  PROVE  /\ Cardinality(S) \in Nat
         /\ \A k \in 1..Cardinality(S) : \E i \in S : Cardinality({j \in S : j <= i}) = k
<1>0. \A x : Cardinality({x}) = 1 BY FS_Singleton
<1>1. Cardinality({1, 2}) = 2
  <2>1. IsFiniteSet({1}) /\ Cardinality({1}) = 1 BY FS_Singleton
  <2>2. {1, 2} = {1} \cup {2} OBVIOUS
  <2> QED BY <2>1, <2>2, FS_AddElement
<1>2. S = {} \/ S = {1} \/ S = {2} \/ S = {1, 2}
  <2>1. \A x \in S : x = 1 \/ x = 2 OBVIOUS
  <2> QED BY <2>1
<1>3. CASE S = {} BY <1>3, FS_EmptySet
<1>4. CASE S = {1}
  <2>1. {j \in S : j <= 1} = {1} /\ Cardinality(S) = 1 BY <1>0, <1>4
  <2> QED BY <1>0, <1>4, <2>1
<1>5. CASE S = {2}
  <2>1. {j \in S : j <= 2} = {2} /\ Cardinality(S) = 1 BY <1>0, <1>5
  <2> QED BY <1>0, <1>5, <2>1
<1>6. CASE S = {1, 2}
  <2>1. {j \in S : j <= 1} = {1} /\ {j \in S : j <= 2} = {1, 2} /\ Cardinality(S) = 2
    BY <1>1, <1>6
  <2> QED BY <1>0, <1>1, <1>6, <2>1
<1> QED BY <1>2, <1>3, <1>4, <1>5, <1>6

(* The stage walks through the agents: what remains of them remains in its *)
(* order.  Which ones the walk reaches does not matter.                    *)
LEMMA StageKeeps ==
  ASSUME HostInv, NEW p \in Agencies, StageAgents(p)
  PROVE  HostInv'
<1> DEFINE r == ag[p]
           m == r.agents
           len == Len(m)
           visited == {i \in 1..len : Reaches(r)[i]}
           waits == \A i \in visited : m[i].st # "terminating"
           ended(i) == [m[i] EXCEPT !.st = "terminating", !.hard = ~r.gentle, !.awaited = waits]
           after == [i \in 1..len |->
                       IF i \in visited /\ m[i].st # "terminating" THEN ended(i) ELSE m[i]]
           stays == {i \in 1..len : ~(i \in visited /\ EndsAtOnce(r, m[i]))}
           before(i) == {j \in stays : j <= i}
           f == [k \in 1..Cardinality(stays) |->
                   CHOOSE i \in stays : Cardinality(before(i)) = k]
           w == [k \in 1..Cardinality(stays) |->
                   after[CHOOSE i \in stays : Cardinality(before(i)) = k]]
           c == IF r.call = "queued" /\ HostAt(r) \cap visited # {} THEN "lost" ELSE r.call
           s == [r EXCEPT !.shut = "agents", !.agents = w, !.call = c]
<1>0. AgencyOK(r) /\ r \in AgencySet /\ m \in Seq(Media) /\ AgentsOK(m, r.call, Online(r))
  BY OfHostInv
<1>1. SetAgency(p, s) /\ hostDoc' = hostDoc /\ NoFault
  <2>1. s = [r EXCEPT !.shut = "agents", !.agents = w,
                      !.call = IF @ = "queued" /\ HostAt(r) \cap visited # {} THEN "lost" ELSE @]
    BY <1>0 DEF AgencySet
  <2> HIDE DEF s
  <2> QED BY <2>1 DEF StageAgents
<1>2. len \in 0..2
  <2> HIDE DEF m
  <2>0. len \in Nat /\ \A i \in 1..len : m[i] \in Media BY <1>0
  <2>1. \A i \in 1..len : m[i].kind \in {"host", "other"} BY <2>0 DEF Media
  <2>2. ~(len > 2)
    <3> SUFFICES ASSUME len > 2 PROVE FALSE
      OBVIOUS
    <3>1. 1 \in 1..len /\ 2 \in 1..len /\ 3 \in 1..len BY <2>0
    <3>2. m[1].kind # m[2].kind /\ m[1].kind # m[3].kind /\ m[2].kind # m[3].kind
      BY <1>0, <3>1 DEF AgentsOK
    <3> QED BY <2>1, <3>1, <3>2
  <2> HIDE DEF len
  <2> QED BY <2>0, <2>2
<1>3. stays \in SUBSET (1..len) OBVIOUS
<1>4. ASSUME NEW i \in 1..len
      PROVE  after[i] \in Media /\ after[i].kind = m[i].kind
             /\ after[i].st \in {m[i].st, "terminating"}
  <2>1. m[i] \in Media /\ waits \in BOOLEAN /\ r.gentle \in BOOLEAN BY <1>0, <1>4 DEF AgencySet
  <2>2. ASSUME NEW x \in Media, NEW hard \in BOOLEAN, NEW awaited \in BOOLEAN, NEW y,
               y = [x EXCEPT !.st = "terminating", !.hard = hard, !.awaited = awaited]
        PROVE  y \in Media /\ y.kind = x.kind /\ y.st = "terminating"
    BY <2>2 DEF Media
  <2>3. after[i] = m[i] \/ after[i] = ended(i) BY <1>4
  <2> DEFINE hard == ~r.gentle
  <2>4. hard \in BOOLEAN OBVIOUS
  <2>5. ended(i) \in Media /\ ended(i).kind = m[i].kind /\ ended(i).st = "terminating"
    <3> DEFINE x == m[i]
               y == ended(i)
    <3>1. y = [x EXCEPT !.st = "terminating", !.hard = hard, !.awaited = waits]
      OBVIOUS
    <3>2. x \in Media BY <2>1
    <3> HIDE DEF x, y, hard, waits
    <3>3. y \in Media /\ y.kind = x.kind /\ y.st = "terminating"
      BY <2>1, <2>2, <2>4, <3>1, <3>2
    <3> QED BY <3>3 DEF x, y
  <2> DEFINE z == ended(i)
  <2> HIDE DEF after, z
  <2> QED BY <2>1, <2>3, <2>5 DEF z
<1> HIDE DEF after, stays
<1>5. /\ Cardinality(stays) \in Nat
      /\ \A k \in 1..Cardinality(stays) : \E i \in stays : Cardinality(before(i)) = k
  BY <1>2, <1>3, CountedOff
<1>6. \A k \in 1..Cardinality(stays) :
        f[k] \in stays /\ Cardinality(before(f[k])) = k /\ w[k] = after[f[k]]
  <2> SUFFICES ASSUME NEW k \in 1..Cardinality(stays)
               PROVE  f[k] \in stays /\ Cardinality(before(f[k])) = k /\ w[k] = after[f[k]]
    OBVIOUS
  <2>1. f[k] = CHOOSE i \in stays : Cardinality(before(i)) = k OBVIOUS
  <2>2. w[k] = after[CHOOSE i \in stays : Cardinality(before(i)) = k] OBVIOUS
  <2>3. \E i \in stays : Cardinality(before(i)) = k BY <1>5
  <2> HIDE DEF f, w, before
  <2> QED BY <2>1, <2>2, <2>3
<1>7. w = [k \in 1..Cardinality(stays) |-> w[k]] OBVIOUS
<1>8. f = [k \in 1..Cardinality(stays) |-> f[k]] OBVIOUS
<1> HIDE DEF f, w, before, len
<1>9. w \in Seq(Media) /\ Len(w) = Cardinality(stays)
  <2>1. \A k \in 1..Cardinality(stays) : w[k] \in Media BY <1>3, <1>4, <1>6
  <2> QED BY <1>5, <1>7, <2>1
<1>10. f \in [1..Len(w) -> 1..len] /\ \A i, j \in 1..Len(w) : f[i] = f[j] => i = j
  <2>1. \A k \in 1..Cardinality(stays) : f[k] \in 1..len BY <1>3, <1>6
  <2>2. \A i, j \in 1..Cardinality(stays) : f[i] = f[j] => i = j BY <1>6
  <2> QED BY <1>8, <1>9, <2>1, <2>2
<1>11. \A k \in 1..Len(w) : w[k].kind = m[f[k]].kind /\ w[k].st \in {m[f[k]].st, "terminating"}
  BY <1>3, <1>4, <1>6, <1>9
<1>12. AgentsOK(w, r.call, Online(r)) /\ (HasHost(w) => HasHost(m))
  <2> HIDE DEF m, r
  <2> QED BY <1>0, <1>10, <1>11, AgentsShrink DEF len
<1>13. c \in {"none", "pending", "queued", "done", "lost"} /\ (c = "pending" => r.call = "pending")
  BY <1>0 DEF AgencySet
<1> HIDE DEF c, m, visited, waits
<1>14. /\ s \in AgencySet /\ s.agents = w /\ s.call = c /\ s.role = r.role
       /\ s.db = r.db /\ s.msg = r.msg /\ s.up = r.up
  <2> HIDE DEF r
  <2> QED BY <1>0, <1>9, <1>13 DEF AgencySet
<1> HIDE DEF s
<1>15. AgentsOK(s.agents, s.call, Online(s))
  BY <1>12, <1>13, <1>14 DEF AgentsOK, Online
<1>16. s.up = "off" => s.agents = <<>> /\ s.role = "none"
  <2>1. ASSUME s.up = "off" PROVE Len(w) = 0
    <3>1. m = <<>> BY <1>0, <1>14, <2>1 DEF AgencyOK, m
    <3>2. len = 0 BY <3>1 DEF len
    <3>3. Len(w) \in Nat /\ \A k \in 1..Len(w) : FALSE BY <1>9, <1>10, <3>2
    <3> QED BY <3>3
  <2> QED BY <1>0, <1>9, <1>14, <2>1, EmptySeq DEF AgencyOK
<1>17. AgencyOK(s) BY <1>14, <1>15, <1>16 DEF AgencyOK
<1> QED BY <1>1, <1>12, <1>14, <1>17, AgencyStep DEF m

-----------------------------------------------------------------------------
(* The theorem *)

LEMMA InitIsOK == HostInit => HostInv
<1> SUFFICES ASSUME HostInit PROVE HostInv
  OBVIOUS
<1>1. /\ ag \in [Agencies -> AgencySet]
      /\ \A p \in Agencies : /\ ag[p] = FreshAgency /\ AgencyOK(ag[p]) /\ ~HasHost(ag[p].agents)
                             /\ ~Master(p)
  BY FreshIsOK DEF HostInit, Master
<1>2. hostDoc \in BOOLEAN BY DEF HostInit
<1>3. hostFaults \in 0..MaxHostFaults BY HostBoundsAssumption DEF HostInit
<1> QED BY <1>1, <1>2, <1>3 DEF HostInv

(* Every step of the agencies preserves the invariant. *)
LEMMA NextIsOK == HostInv /\ [HostNext]_hostVars => HostInv'
<1> SUFFICES ASSUME HostInv, [HostNext]_hostVars PROVE HostInv'
  OBVIOUS
<1>1. CASE UNCHANGED hostVars
  BY <1>1 DEF hostVars, HostInv, Master, AgencyOK
<1>2. CASE MonitorCleansUp BY <1>2, MonitorKeeps
<1>3. ASSUME NEW p \in Agencies,
             \/ ChainRuns(p) \/ HostRequestFails(p) \/ RetryTimerFires(p)
             \/ StartOther(p) \/ AgentsRun(p)
             \/ \E i \in 1..Len(ag[p].agents) : InitiateFails(p, i) \/ AgentTerminates(p, i)
             \/ HostAgentCall(p) \/ HostAgentCalled(p)
             \/ AgencyDisconnected(p) \/ AgencyReconnected(p)
             \/ OnBecomeMaster(p) \/ BecameMaster(p) \/ OnBecomeSlave(p) \/ LoseRole(p)
             \/ StartupEnds(p) \/ AgencyCrash(p) \/ Launch(p)
             \/ ShutdownCalled(p, TRUE) \/ ShutdownCalled(p, FALSE) \/ ShutdownRuns(p)
      PROVE  HostInv'
  <2>1. CASE ChainRuns(p) BY <2>1, ChainKeeps, SaveKeeps DEF ChainRuns
  <2>2. CASE HostRequestFails(p) \/ RetryTimerFires(p) BY <2>2, ChainKeeps
  <2>3. CASE StartOther(p) BY <2>3, AgentsKeep
  <2>4. CASE AgentsRun(p) BY <2>4, AgentsKeep, TerminationKeeps DEF AgentsRun, AgentRuns
  <2>5. CASE \E i \in 1..Len(ag[p].agents) : InitiateFails(p, i) \/ AgentTerminates(p, i)
    BY <2>5, AgentsKeep
  <2>6. CASE HostAgentCall(p) \/ HostAgentCalled(p) BY <2>6, CallsKeep
  <2>7. CASE AgencyDisconnected(p) \/ AgencyReconnected(p) BY <2>7, ConnectionsKeep
  <2>8. CASE OnBecomeMaster(p) \/ BecameMaster(p) \/ OnBecomeSlave(p) \/ LoseRole(p)
    BY <2>8, RolesKeep
  <2>9. CASE \/ StartupEnds(p) \/ AgencyCrash(p) \/ Launch(p)
             \/ ShutdownCalled(p, TRUE) \/ ShutdownCalled(p, FALSE)
    BY <2>9, ProcessKeeps
  <2>10. CASE ShutdownRuns(p) BY <2>10, ProcessKeeps, StageKeeps DEF ShutdownRuns
  <2> QED BY <1>3, <2>1, <2>2, <2>3, <2>4, <2>5, <2>6, <2>7, <2>8, <2>9, <2>10
<1> QED BY <1>1, <1>2, <1>3 DEF HostNext

(* The host never has two host agents, no call waits for an agent that is  *)
(* ready, and an agent that was told of a lost connection is told of its   *)
(* return (Agency._start_host_agent, host_agent_call and                   *)
(* _check_msg_and_db_state): for any agencies, faults and timers.          *)
THEOREM OneHostAgent == HostSpec => []HostSafe
<1>1. HostSpec => []HostInv
  BY InitIsOK, NextIsOK, PTL DEF HostSpec
<1> QED BY <1>1, InvIsSafe, PTL

-----------------------------------------------------------------------------
(***************************************************************************)
(* The agencies of a host agree (Broker!AgenciesAgree), for any number of  *)
(* processes, starts, crashes, agents and writes.                          *)
(*                                                                         *)
(* The argument: a connection is a conversation.  The slave has one        *)
(* request outstanding at most, its place in the conversation says what it *)
(* may hear, and the master has it among its slaves from the handshake on. *)
(* From then on, whatever is still on its way settles what the two have in *)
(* common: the last value that the slave will hear is the master's, unless *)
(* the slave has sent one itself, which the master will tell it again; and *)
(* the last that the slave has said about its agent is true.               *)
(***************************************************************************)

(* What is sent by a slave, and what is sent to it. *)
Told == {<<k>> : k \in {"root", "backend", "handshake", "register", "unregister"}}
        \cup {<<"set", v>> : v \in 0..MaxCalls}
Answers == {<<k>> : k \in {"root", "backend"}}
           \cup {<<k, v>> : k \in {"items", "set"}, v \in 0..MaxCalls}

BrokerSet ==
  [pc : Pcs, role : Roles, master : Procs \cup {NoProc}, cut : BOOLEAN,
   slaves : SUBSET Procs, known : SUBSET Procs, agent : BOOLEAN, listed : BOOLEAN,
   shared : 0..MaxCalls, sent : Seq(Told), got : Seq(Answers)]

Calls == {"register", "unregister", "set"}
OfAgent == {"register", "unregister"}

(* The request that a slave waits for at each place of the conversation.   *)
Request(pc) ==
  CASE pc = "greeting"  -> "root"
    [] pc = "entering"  -> "backend"
    [] pc = "handshake" -> "handshake"
    [] OTHER            -> "nothing"

Outstanding(r) == \E i \in 1..Len(r.sent) : r.sent[i][1] = Request(r.pc)

(* What a slave may hear: r.got is what it has not read yet. *)
Hearing(r) ==
  /\ r.pc \in {"greeting", "entering"} =>
       Len(r.got) <= 1 /\ \A i \in 1..Len(r.got) : r.got[i][1] = Request(r.pc)
  /\ r.pc = "handshake" => \A i \in 1..Len(r.got) : r.got[i][1] = IF i = 1 THEN "items" ELSE "set"
  /\ r.pc = "up" => \A i \in 1..Len(r.got) : r.got[i][1] = "set"

(* A broker by itself. *)
Shape(r) ==
  /\ r.pc = "down" => r.role = "disconnected" /\ r.got = <<>> /\ ~r.cut
  /\ r.pc \in {"entering", "handshake"} => r.role = "slave"
  /\ r.pc = "up" => r.role # "disconnected"
  /\ r.role = "master" => r.pc = "up" /\ r.master = NoProc
  /\ r.role = "slave" => r.pc \in {"entering", "handshake", "up"} /\ r.master # NoProc
  /\ r.pc = "greeting" => r.master # NoProc
  /\ r.master = NoProc => r.got = <<>> /\ r.sent = <<>> /\ ~r.cut
  /\ r.master # NoProc => r.pc \in {"down", "greeting", "entering", "handshake", "up"}
  /\ r.cut => r.sent = <<>>
  /\ r.role # "master" => r.slaves = {}
  /\ r.known \subseteq r.slaves
  /\ Hearing(r)

(* The conversation of the slave p, whose broker is r, with the master s.  *)
Talk(p, r, s) ==
  /\ \A i \in 1..Len(r.sent) : r.sent[i][1] \in Calls \cup {Request(r.pc)}
  /\ \A i, j \in 1..Len(r.sent) :
       r.sent[i][1] = Request(r.pc) /\ r.sent[j][1] = Request(r.pc) => i = j
  /\ Outstanding(r) => r.got = <<>>
  /\ p \in s.slaves <=> (r.pc = "up" \/ (r.pc = "handshake" /\ ~Outstanding(r)))
  /\ p \in s.slaves /\ r.pc = "handshake" => r.got # <<>>

(* The value that the slave has when it has read everything. *)
Final(r) == IF r.got = <<>> THEN r.shared ELSE r.got[Len(r.got)][2]

Shares(p, r, s) ==
  p \in s.slaves /\ (\A i \in 1..Len(r.sent) : r.sent[i][1] # "set") => Final(r) = s.shared

(* The last that q says of the agent is k, or it says nothing of it. *)
Silent(q) == \A i \in 1..Len(q) : q[i][1] \notin OfAgent
Tells(q, k) ==
  \E i \in 1..Len(q) : q[i][1] = k /\ \A j \in i + 1..Len(q) : q[j][1] \notin OfAgent

Tracks(p, r, s) ==
  /\ r.pc = "greeting" => Silent(r.sent)
  /\ r.pc = "entering" => Silent(r.sent) /\ (r.listed <=> r.agent)
  /\ r.pc = "handshake" =>
       /\ \/ Silent(r.sent) /\ (r.agent <=> (r.listed \/ p \in s.known))
          \/ r.agent /\ Tells(r.sent, "register")
       /\ \A i, j \in 1..Len(r.sent) :
            r.sent[i][1] = "handshake" /\ r.sent[j][1] \in OfAgent => i < j
  /\ r.pc = "up" => \/ Silent(r.sent) /\ (r.agent <=> p \in s.known)
                    \/ r.agent /\ Tells(r.sent, "register")
                    \/ ~r.agent /\ Tells(r.sent, "unregister")

Link(p, r, s) ==
  /\ s.role = "master"
  /\ r.pc # "down" =>
       Talk(p, r, s) /\ Shares(p, r, s) /\ ("hasty" \notin Habits => Tracks(p, r, s))

BrokersInv ==
  /\ br \in [Procs -> BrokerSet]
  /\ \A p \in Procs : Shape(br[p])
  /\ \A p \in Procs : Linked(p) => Link(p, br[p], br[br[p].master])
  /\ \A m \in Procs : \A p \in br[m].slaves : br[p].master = m /\ ~br[p].cut

(* Whoever has bound the socket file has it still, if nobody removed it. *)
FileInv ==
  /\ file \in {"none", "stale"} \cup Procs /\ robbed \in BOOLEAN
  /\ ~robbed => \A p \in Procs : br[p].role = "master" \/ br[p].pc = "listen" => file = p

CountInv == n \in [starts : Nat, stops : Nat, calls : 0..MaxCalls]

Inv == BrokersInv /\ FileInv /\ CountInv

-----------------------------------------------------------------------------
(* The invariant implies what the run checks. *)

LEMMA InvIsTyped == Inv => TypeOK
<1> SUFFICES ASSUME Inv PROVE TypeOK
  OBVIOUS
<1>1. ASSUME NEW p \in Procs
      PROVE  /\ br[p].pc \in Pcs /\ br[p].role \in Roles /\ br[p].master \in Procs \cup {NoProc}
             /\ br[p].shared \in 0..MaxCalls /\ br[p].agent \in BOOLEAN
             /\ br[p].slaves \subseteq Procs /\ br[p].known \subseteq br[p].slaves
             /\ br[p].slaves # {} => br[p].role = "master"
  <2>1. br[p] \in BrokerSet /\ Shape(br[p]) BY DEF Inv, BrokersInv
  <2> QED BY <2>1 DEF BrokerSet, Shape
<1>2. ASSUME NEW p \in Procs, p \in br[p].slaves PROVE FALSE
  <2>1. br[p].master = p /\ br[p].role = "master" /\ br[p].master = NoProc
    BY <1>1, <1>2 DEF Inv, BrokersInv, Shape
  <2> QED BY <2>1, ProcsAssumption
<1> QED BY <1>1, <1>2 DEF TypeOK, Inv, FileInv

LEMMA InvIsSocket == Inv => MasterHasTheSocket
BY DEF Inv, FileInv, MasterHasTheSocket, Masters

LEMMA InvConverges == Inv => Converged
<1> SUFFICES ASSUME Inv, NEW p \in Procs, Settled(p)
             PROVE  br[p].shared = br[br[p].master].shared
  BY DEF Converged
<1> DEFINE r == br[p]
           s == br[br[p].master]
<1>1. Link(p, r, s) /\ r.pc = "up" /\ r.sent = <<>> /\ r.got = <<>>
  BY DEF Inv, BrokersInv, Settled
<1>2. Len(r.sent) = 0 BY <1>1
<1>3. p \in s.slaves /\ Final(r) = s.shared BY <1>1, <1>2 DEF Link, Talk, Shares
<1> QED BY <1>1, <1>3 DEF Final

LEMMA InvTracks == Inv /\ "hasty" \notin Habits => Tracked
<1> SUFFICES ASSUME Inv, "hasty" \notin Habits, NEW p \in Procs, Settled(p)
             PROVE  p \in br[br[p].master].slaves /\ (br[p].agent <=> p \in br[br[p].master].known)
  BY DEF Tracked
<1> DEFINE r == br[p]
           s == br[br[p].master]
<1>1. Link(p, r, s) /\ r.pc = "up" /\ r.sent = <<>> /\ r.got = <<>>
  BY DEF Inv, BrokersInv, Settled
<1>2. Len(r.sent) = 0 BY <1>1
<1>3. p \in s.slaves BY <1>1 DEF Link, Talk
<1>4. ~Tells(r.sent, "register") /\ ~Tells(r.sent, "unregister") BY <1>2 DEF Tells
<1>5. Tracks(p, r, s) BY <1>1 DEF Link
<1>6. r.agent <=> p \in s.known BY <1>1, <1>4, <1>5 DEF Tracks
<1> QED BY <1>3, <1>6

-----------------------------------------------------------------------------
(* Queues *)

LEMMA ToldKinds ==
  ASSUME NEW x \in Told
  PROVE  /\ x[1] \in {"root", "backend", "handshake", "register", "unregister", "set"}
         /\ x[1] = "set" => x[2] \in 0..MaxCalls
         /\ x[1] = "root" => <<"root">> \in Answers /\ x = <<"root">>
         /\ x[1] = "backend" => <<"backend">> \in Answers /\ x = <<"backend">>
BY DEF Told, Answers

LEMMA AnswersKinds ==
  ASSUME NEW x \in Answers
  PROVE  /\ x[1] \in {"root", "backend", "items", "set"}
         /\ x[1] \in {"items", "set"} => x[2] \in 0..MaxCalls
BY DEF Answers

LEMMA Tails ==
  ASSUME NEW S, NEW q \in Seq(S), q # <<>>
  PROVE  /\ Tail(q) \in Seq(S) /\ Len(q) \in Nat \ {0} /\ Len(Tail(q)) = Len(q) - 1
         /\ Head(q) = q[1] /\ Head(q) \in S
         /\ \A i \in 1..Len(Tail(q)) : Tail(q)[i] = q[i + 1] /\ i + 1 \in 1..Len(q)
OBVIOUS

LEMMA Appends ==
  ASSUME NEW S, NEW q \in Seq(S), NEW x \in S
  PROVE  LET t == Append(q, x)
         IN  /\ t \in Seq(S) /\ Len(q) \in Nat /\ Len(t) = Len(q) + 1 /\ t # <<>>
             /\ \A i \in 1..Len(q) : t[i] = q[i]
             /\ t[Len(q) + 1] = x /\ t[Len(t)] = x
             /\ \A i \in 1..Len(t) : i \in 1..Len(q) \/ i = Len(q) + 1
<1>1. Len(q) \in Nat OBVIOUS
<1> DEFINE t == Append(q, x)
<1>2. t \in Seq(S) /\ Len(t) = Len(q) + 1 OBVIOUS
<1>3. \A i \in 1..Len(q) : t[i] = q[i] OBVIOUS
<1>4. t[Len(q) + 1] = x OBVIOUS
<1> HIDE DEF t
<1>5. t # <<>> BY <1>1, <1>2
<1> QED BY <1>1, <1>2, <1>3, <1>4, <1>5 DEF t

LEMMA OneMore ==
  ASSUME NEW S, NEW q \in Seq(S), NEW x \in S
  PROVE  q \o <<x>> = Append(q, x) /\ q \o <<>> = q
OBVIOUS

(* What is said of the agent when something is added, or the first thing   *)
(* has been heard.                                                         *)
LEMMA SaidMore ==
  ASSUME NEW q \in Seq(Told), NEW x \in Told
  PROVE  LET t == Append(q, x)
         IN  /\ Silent(q) /\ x[1] \notin OfAgent => Silent(t)
             /\ \A k : Tells(q, k) /\ x[1] \notin OfAgent => Tells(t, k)
             /\ \A k : x[1] = k => Tells(t, k)
<1> DEFINE t == Append(q, x)
<1>1. /\ Len(q) \in Nat /\ Len(t) = Len(q) + 1
      /\ \A i \in 1..Len(q) : t[i] = q[i]
      /\ t[Len(q) + 1] = x
      /\ \A i \in 1..Len(t) : i \in 1..Len(q) \/ i = Len(q) + 1
  BY Appends
<1> HIDE DEF t
<1>2. Silent(q) /\ x[1] \notin OfAgent => Silent(t) BY <1>1 DEF Silent
<1>3. ASSUME NEW k, Tells(q, k), x[1] \notin OfAgent PROVE Tells(t, k)
  <2>1. PICK i \in 1..Len(q) : q[i][1] = k /\ \A j \in i + 1..Len(q) : q[j][1] \notin OfAgent
    BY <1>3 DEF Tells
  <2>2. i \in 1..Len(t) /\ t[i][1] = k BY <1>1, <2>1
  <2>3. \A j \in i + 1..Len(t) : t[j][1] \notin OfAgent BY <1>1, <1>3, <2>1
  <2> QED BY <2>2, <2>3 DEF Tells
<1>4. ASSUME NEW k, x[1] = k PROVE Tells(t, k)
  <2>1. Len(t) \in 1..Len(t) /\ t[Len(t)][1] = k /\ \A j \in Len(t) + 1..Len(t) : FALSE
    BY <1>1, <1>4
  <2> QED BY <2>1 DEF Tells
<1> QED BY <1>2, <1>3, <1>4 DEF t

LEMMA SaidLess ==
  ASSUME NEW q \in Seq(Told), q # <<>>
  PROVE  /\ Silent(q) => Silent(Tail(q)) /\ Head(q)[1] \notin OfAgent
         /\ \A k : Tells(q, k) => Tells(Tail(q), k) \/ (Head(q)[1] = k /\ Silent(Tail(q)))
<1> DEFINE t == Tail(q)
<1>1. /\ Len(q) \in Nat \ {0} /\ Len(t) = Len(q) - 1
      /\ Head(q) = q[1] /\ \A i \in 1..Len(t) : t[i] = q[i + 1] /\ i + 1 \in 1..Len(q)
  BY Tails
<1> HIDE DEF t
<1>2. Silent(q) => Silent(t) /\ Head(q)[1] \notin OfAgent BY <1>1 DEF Silent
<1>3. ASSUME NEW k, Tells(q, k) PROVE Tells(t, k) \/ (Head(q)[1] = k /\ Silent(t))
  <2>1. PICK i \in 1..Len(q) : q[i][1] = k /\ \A j \in i + 1..Len(q) : q[j][1] \notin OfAgent
    BY <1>3 DEF Tells
  <2>2. CASE i = 1 BY <1>1, <2>1, <2>2 DEF Silent
  <2>3. CASE i # 1
    <3>1. i - 1 \in 1..Len(t) /\ t[i - 1][1] = k BY <1>1, <2>1, <2>3
    <3>2. \A j \in (i - 1) + 1..Len(t) : t[j][1] \notin OfAgent BY <1>1, <2>1, <2>3
    <3> QED BY <3>1, <3>2 DEF Tells
  <2> QED BY <2>2, <2>3
<1> QED BY <1>2, <1>3 DEF t

-----------------------------------------------------------------------------
(* Steps of one broker *)

LEMMA OfBrokersInv ==
  ASSUME BrokersInv, NEW p \in Procs
  PROVE  /\ br[p] \in BrokerSet /\ Shape(br[p])
         /\ br[p].master = NoProc \/ br[p].cut => \A m \in Procs : p \notin br[m].slaves
         /\ br[p].master # NoProc /\ ~br[p].cut =>
              br[p].master \in Procs /\ br[br[p].master].role = "master"
              /\ Link(p, br[p], br[br[p].master])
<1>1. br[p] \in BrokerSet /\ Shape(br[p]) BY DEF BrokersInv
<1>2. br[p].master \in Procs \cup {NoProc} BY <1>1 DEF BrokerSet
<1>3. br[p].master = NoProc \/ br[p].cut => \A m \in Procs : p \notin br[m].slaves
  BY ProcsAssumption DEF BrokersInv
<1>4. br[p].master # NoProc /\ ~br[p].cut =>
        br[p].master \in Procs /\ br[br[p].master].role = "master"
        /\ Link(p, br[p], br[br[p].master])
  BY <1>2 DEF BrokersInv, Linked, Link
<1> QED BY <1>1, <1>3, <1>4

(* What the slaves of a broker depend on does not change. *)
LEMMA LinkStays ==
  ASSUME NEW q, NEW r, NEW s, Link(q, r, s), NEW t, t.role = s.role,
         q \in t.slaves <=> q \in s.slaves, q \in t.known <=> q \in s.known, t.shared = s.shared
  PROVE  Link(q, r, t)
<1>1. Talk(q, r, s) => Talk(q, r, t) BY DEF Talk
<1>2. Shares(q, r, s) => Shares(q, r, t) BY DEF Shares
<1>3. Tracks(q, r, s) => Tracks(q, r, t) BY DEF Tracks
<1> QED BY <1>1, <1>2, <1>3 DEF Link

(* One broker changes, and if it is a master only what its slaves do not   *)
(* depend on.                                                              *)
LEMMA LocalStep ==
  ASSUME BrokersInv, NEW p \in Procs, NEW r \in BrokerSet, br' = [br EXCEPT ![p] = r], Shape(r),
         r.slaves = br[p].slaves,
         \A m \in Procs : p \in br[m].slaves => r.master = m /\ ~r.cut,
         r.master # NoProc /\ ~r.cut => Link(p, r, br[r.master]),
         br[p].role = "master" =>
           r.role = "master" /\ r.known = br[p].known /\ r.shared = br[p].shared
  PROVE  BrokersInv'
<1>1. br' \in [Procs -> BrokerSet] /\ \A q \in Procs : br'[q] = IF q = p THEN r ELSE br[q]
  BY DEF BrokersInv
<1>2. \A q \in Procs : Shape(br'[q]) BY <1>1 DEF BrokersInv
<1>3. \A m \in Procs : br'[m].slaves = br[m].slaves BY <1>1
<1>4. \A m \in Procs : \A q \in br'[m].slaves : br'[q].master = m /\ ~br'[q].cut
  <2> SUFFICES ASSUME NEW m \in Procs, NEW q \in br[m].slaves
               PROVE  br'[q].master = m /\ ~br'[q].cut
    BY <1>3
  <2>1. q \in Procs BY DEF BrokersInv, BrokerSet
  <2> QED BY <1>1, <2>1 DEF BrokersInv
<1>5. ASSUME NEW q \in Procs, br'[q].master # NoProc /\ ~br'[q].cut
      PROVE  Link(q, br'[q], br'[br'[q].master])
  <2>1. br'[q].master \in Procs BY <1>1, <1>5 DEF BrokerSet
  <2>2. CASE q = p
    <3>1. Link(p, r, br[r.master]) /\ r.master \in Procs BY <1>1, <1>5, <2>1, <2>2
    <3>2. r.master # p BY <3>1, ProcsAssumption DEF Link, Shape
    <3> QED BY <1>1, <2>2, <3>1, <3>2
  <2>3. CASE q # p
    <3>1. br'[q] = br[q] /\ Link(q, br[q], br[br[q].master]) /\ br[q].master \in Procs
      BY <1>1, <1>5, <2>3, OfBrokersInv
    <3>2. CASE br[q].master # p BY <1>1, <3>1, <3>2
    <3>3. CASE br[q].master = p
      <4>1. Link(q, br[q], br[p]) /\ br[p].role = "master" BY <3>1, <3>3 DEF Link
      <4>2. Link(q, br[q], r) BY <4>1, LinkStays
      <4> QED BY <1>1, <3>1, <3>3, <4>2
    <3> QED BY <3>2, <3>3
  <2> QED BY <2>2, <2>3
<1> QED BY <1>1, <1>2, <1>4, <1>5 DEF BrokersInv, Linked

(* A broker that is not connected. *)
LEMMA AloneStep ==
  ASSUME BrokersInv, NEW p \in Procs, NEW r \in BrokerSet, br' = [br EXCEPT ![p] = r], Shape(r),
         br[p].master = NoProc \/ br[p].cut, r.master = NoProc \/ r.cut,
         br[p].role # "master", r.slaves = {}
  PROVE  BrokersInv'
<1>1. br[p].slaves = {} /\ \A m \in Procs : p \notin br[m].slaves
  BY OfBrokersInv DEF Shape
<1> QED BY <1>1, LocalStep

LEMMA PcStep ==
  ASSUME BrokersInv, NEW p \in Procs,
         br[p].pc \in {"listenUNIX", "listen", "connectUNIX", "missing", "refused", "refused again"},
         NEW pc \in {"listenUNIX", "listen", "connectUNIX", "missing", "refused", "refused again",
                     "stuck"},
         br' = [br EXCEPT ![p].pc = pc]
  PROVE  BrokersInv'
<1> DEFINE r == [br[p] EXCEPT !.pc = pc]
<1>0. br[p] \in BrokerSet /\ Shape(br[p]) BY OfBrokersInv
<1>1. /\ r \in BrokerSet /\ r.pc = pc /\ r.role = br[p].role /\ r.master = br[p].master
      /\ r.cut = br[p].cut /\ r.slaves = br[p].slaves /\ r.known = br[p].known
      /\ r.sent = br[p].sent /\ r.got = br[p].got
  BY <1>0 DEF BrokerSet, Pcs
<1>2. br' = [br EXCEPT ![p] = r] BY DEF BrokersInv
<1> HIDE DEF r
<1>3. br[p].master = NoProc /\ br[p].role = "disconnected" /\ br[p].slaves = {} /\ br[p].got = <<>>
  BY <1>0 DEF Shape, BrokerSet, Roles
<1>4. Shape(r) BY <1>0, <1>1, <1>3 DEF Shape, Hearing
<1> QED BY <1>1, <1>2, <1>3, <1>4, AloneStep

LEMMA FreshBrokerOK ==
  ASSUME NEW pc \in {"down", "listenUNIX"}, NEW r, r = [Fresh EXCEPT !.pc = pc]
  PROVE  r \in BrokerSet /\ Shape(r) /\ r.master = NoProc /\ r.slaves = {} /\ r.role = "disconnected"
<1>1. 0 \in 0..MaxCalls BY BoundsAssumption
<1>2. <<>> \in Seq(Told) /\ <<>> \in Seq(Answers) OBVIOUS
<1>3. /\ r \in BrokerSet /\ r.pc = pc /\ r.role = "disconnected" /\ r.master = NoProc
      /\ ~r.cut /\ r.slaves = {} /\ r.known = {} /\ r.sent = <<>> /\ r.got = <<>>
  BY <1>1, <1>2 DEF Fresh, BrokerSet, Pcs, Roles
<1> QED BY <1>3 DEF Shape, Hearing

LEMMA FreshDown ==
  /\ Fresh \in BrokerSet /\ Shape(Fresh) /\ Fresh.pc = "down" /\ Fresh.role = "disconnected"
  /\ Fresh.master = NoProc /\ ~Fresh.cut /\ Fresh.slaves = {} /\ Fresh.known = {}
  /\ Fresh.sent = <<>> /\ Fresh.got = <<>>
<1>1. 0 \in 0..MaxCalls BY BoundsAssumption
<1>2. <<>> \in Seq(Told) /\ <<>> \in Seq(Answers) OBVIOUS
<1>3. Fresh \in BrokerSet BY <1>1, <1>2 DEF Fresh, BrokerSet, Pcs, Roles
<1>4. /\ Fresh.pc = "down" /\ Fresh.role = "disconnected"
      /\ Fresh.master = NoProc /\ ~Fresh.cut /\ Fresh.slaves = {} /\ Fresh.known = {}
      /\ Fresh.sent = <<>> /\ Fresh.got = <<>>
  BY DEF Fresh
<1> QED BY <1>3, <1>4 DEF Shape, Hearing

(* Until it is a master, or knows the master. *)
LEMMA ConnectingKeeps ==
  ASSUME BrokersInv, NEW p \in Procs,
         Start(p) \/ Bind(p) \/ BecomeMaster(p) \/ Connect(p) \/ Unlink(p) \/ ConnectionLost(p)
  PROVE  BrokersInv'
<1>0. br[p] \in BrokerSet /\ Shape(br[p]) BY OfBrokersInv
<1>1. CASE Start(p)
  <2> DEFINE r == [Fresh EXCEPT !.pc = "listenUNIX"]
  <2>1. br' = [br EXCEPT ![p] = r] /\ br[p].master = NoProc /\ br[p].pc = "down"
    BY <1>1 DEF Start, Alive
  <2>2. r \in BrokerSet /\ Shape(r) /\ r.master = NoProc /\ r.slaves = {} BY FreshBrokerOK
  <2> HIDE DEF r
  <2> QED BY <1>0, <2>1, <2>2, AloneStep DEF Shape
<1>2. CASE Bind(p) BY <1>2, PcStep DEF Bind
<1>3. CASE BecomeMaster(p)
  <2> DEFINE r == [br[p] EXCEPT !.pc = "up", !.role = "master"]
  <2>1. br' = [br EXCEPT ![p] = r] /\ br[p].pc = "listen" BY <1>3 DEF BecomeMaster, BrokersInv
  <2>2. /\ r \in BrokerSet /\ r.pc = "up" /\ r.role = "master" /\ r.master = br[p].master
        /\ r.cut = br[p].cut /\ r.slaves = br[p].slaves /\ r.known = br[p].known
        /\ r.sent = br[p].sent /\ r.got = br[p].got
    BY <1>0 DEF BrokerSet, Pcs, Roles
  <2> HIDE DEF r
  <2>3. br[p].master = NoProc /\ br[p].role = "disconnected" /\ br[p].slaves = {}
        /\ br[p].got = <<>>
    BY <1>0, <2>1 DEF Shape, BrokerSet, Roles
  <2>4. Len(br[p].got) = 0 BY <2>3
  <2>5. Shape(r) BY <1>0, <2>1, <2>2, <2>3, <2>4 DEF Shape, Hearing
  <2> QED BY <2>1, <2>2, <2>3, <2>5, AloneStep
<1>4. CASE Connect(p)
  <2>1. CASE Listening
    <3> DEFINE r == [br[p] EXCEPT !.pc = "greeting", !.master = file, !.sent = <<<<"root">>>>]
    <3>1. br' = [br EXCEPT ![p] = r] /\ br[p].pc = "connectUNIX" /\ file \in Procs
          /\ br[file].role = "master"
      BY <1>4, <2>1, ProcsAssumption DEF Connect, Listening, BrokersInv
    <3>2. <<<<"root">>>> \in Seq(Told) /\ Len(<<<<"root">>>>) = 1 /\ <<<<"root">>>>[1] = <<"root">>
          /\ <<"root">>[1] = "root"
      <4>1. <<"root">> \in Told BY DEF Told
      <4> QED BY <4>1
    <3> DEFINE sent == <<<<"root">>>>
    <3> HIDE DEF sent
    <3>3. /\ r \in BrokerSet /\ r.pc = "greeting" /\ r.role = br[p].role /\ r.master = file
          /\ r.cut = br[p].cut /\ r.slaves = br[p].slaves /\ r.known = br[p].known
          /\ r.sent = sent /\ r.got = br[p].got
      BY <1>0, <3>1, <3>2 DEF BrokerSet, Pcs, sent
    <3> HIDE DEF r
    <3>4. br[p].master = NoProc /\ br[p].role = "disconnected" /\ br[p].slaves = {}
          /\ br[p].got = <<>> /\ ~br[p].cut
      BY <1>0, <3>1 DEF Shape, BrokerSet, Roles
    <3>5. Len(br[p].got) = 0 BY <3>4
    <3>6. Shape(r) BY <1>0, <3>1, <3>3, <3>4, <3>5, ProcsAssumption DEF Shape, Hearing
    <3>7. \A m \in Procs : p \notin br[m].slaves BY <3>4, OfBrokersInv
    <3>8. Len(r.sent) = 1 /\ r.sent[1][1] = "root" BY <3>2, <3>3 DEF sent
    <3>9. Talk(p, r, br[file]) BY <3>1, <3>3, <3>4, <3>7, <3>8 DEF Talk, Request
    <3>10. Shares(p, r, br[file]) BY <3>1, <3>7 DEF Shares
    <3>11. Tracks(p, r, br[file]) BY <3>3, <3>8 DEF Tracks, Silent, OfAgent
    <3>12. Link(p, r, br[r.master]) BY <3>1, <3>3, <3>9, <3>10, <3>11 DEF Link
    <3> QED BY <3>1, <3>3, <3>4, <3>6, <3>7, <3>12, LocalStep
  <2>2. CASE ~Listening /\ file = "none"
    BY <1>4, <2>2, PcStep DEF Connect
  <2>3. CASE ~Listening /\ file # "none"
    BY <1>4, <2>3, PcStep DEF Connect
  <2> QED BY <2>1, <2>2, <2>3
<1>5. CASE Unlink(p)
  <2> DEFINE pc == AfterUnlink(br[p].pc)
  <2>1. br' = [br EXCEPT ![p].pc = pc] /\ br[p].pc \in {"missing", "refused", "refused again"}
    BY <1>5 DEF Unlink, Failed
  <2>2. pc \in {"stuck", "refused again", "listenUNIX"} BY DEF AfterUnlink
  <2> HIDE DEF pc
  <2> QED BY <2>1, <2>2, PcStep
<1>6. CASE ConnectionLost(p)
  <2> DEFINE pc == IF br[p].role = "disconnected" THEN "stuck" ELSE "listenUNIX"
             r == [br[p] EXCEPT !.pc = pc, !.role = "disconnected", !.master = NoProc,
                                !.cut = FALSE, !.sent = <<>>, !.listed = FALSE]
  <2>1. br' = [br EXCEPT ![p] = r] /\ br[p].cut /\ br[p].got = <<>>
    BY <1>6 DEF ConnectionLost, BrokersInv
  <2>2. pc \in {"stuck", "listenUNIX"} OBVIOUS
  <2> HIDE DEF pc
  <2>3. <<>> \in Seq(Told) OBVIOUS
  <2>4. /\ r \in BrokerSet /\ r.pc = pc /\ r.role = "disconnected" /\ r.master = NoProc
        /\ ~r.cut /\ r.slaves = br[p].slaves /\ r.known = br[p].known
        /\ r.sent = <<>> /\ r.got = br[p].got
    BY <1>0, <2>2, <2>3 DEF BrokerSet, Pcs, Roles
  <2> HIDE DEF r
  <2>5. br[p].master # NoProc /\ br[p].role # "master" /\ br[p].slaves = {}
    BY <1>0, <2>1 DEF Shape
  <2>6. Shape(r) BY <1>0, <2>1, <2>2, <2>4, <2>5 DEF Shape, Hearing
  <2> QED BY <2>1, <2>4, <2>5, <2>6, AloneStep
<1> QED BY <1>1, <1>2, <1>3, <1>4, <1>5, <1>6

-----------------------------------------------------------------------------
(* What a slave hears *)

(* What it hears says where it is. *)
LEMMA HeadSays ==
  ASSUME BrokersInv, NEW p \in Procs, Heard(p)
  PROVE  LET r == br[p]
             x == Head(r.got)
             t == Tail(r.got)
         IN  /\ x \in Answers /\ r.master # NoProc /\ r.role # "master"
             /\ r.pc \in {"greeting", "entering", "handshake", "up"}
             /\ t \in Seq(Answers)
             /\ x[1] = "root" <=> r.pc = "greeting"
             /\ x[1] = "backend" <=> r.pc = "entering"
             /\ x[1] = "items" <=> r.pc = "handshake"
             /\ x[1] = "set" <=> r.pc = "up"
             /\ r.pc \in {"greeting", "entering"} => t = <<>>
             /\ r.pc \in {"handshake", "up"} => \A i \in 1..Len(t) : t[i][1] = "set"
<1> DEFINE r == br[p]
           x == Head(r.got)
           t == Tail(r.got)
<1>1. r \in BrokerSet /\ Shape(r) /\ r.got \in Seq(Answers) /\ r.got # <<>>
  BY OfBrokersInv DEF Heard, BrokerSet
<1>2. /\ t \in Seq(Answers) /\ Len(r.got) \in Nat \ {0} /\ Len(t) = Len(r.got) - 1
      /\ x = r.got[1] /\ x \in Answers
      /\ \A i \in 1..Len(t) : t[i] = r.got[i + 1] /\ i + 1 \in 1..Len(r.got)
  BY <1>1, Tails
<1> HIDE DEF r, x, t
<1>3. /\ r.master # NoProc /\ r.role # "master"
      /\ r.pc \in {"greeting", "entering", "handshake", "up"}
  BY <1>1 DEF Shape
<1>4. 1 \in 1..Len(r.got) /\ Hearing(r) BY <1>1, <1>2 DEF Shape
<1>5. /\ r.pc = "greeting" => x[1] = "root"
      /\ r.pc = "entering" => x[1] = "backend"
      /\ r.pc = "handshake" => x[1] = "items"
      /\ r.pc = "up" => x[1] = "set"
  BY <1>2, <1>4 DEF Hearing, Request
<1>6. r.pc \in {"greeting", "entering"} => t = <<>>
  <2>1. r.pc \in {"greeting", "entering"} => Len(r.got) <= 1 BY <1>4 DEF Hearing
  <2> DEFINE l == Len(r.got)
  <2>2. l \in Nat \ {0} /\ Len(t) = l - 1 BY <1>2
  <2> HIDE DEF l
  <2>3. l <= 1 => Len(t) = 0 BY <2>2
  <2> QED BY <1>2, <2>1, <2>3, EmptySeq DEF l
<1>7. r.pc \in {"handshake", "up"} => \A i \in 1..Len(t) : t[i][1] = "set"
  BY <1>2, <1>4 DEF Hearing
<1> QED BY <1>2, <1>3, <1>5, <1>6, <1>7 DEF r, x, t

(* What is read is where it ends, or on the way. *)
LEMMA Reads ==
  ASSUME NEW r \in BrokerSet, r.got # <<>>, NEW u, u.got = Tail(r.got), u.shared = Head(r.got)[2]
  PROVE  Final(u) = Final(r)
<1>1. r.got \in Seq(Answers) BY DEF BrokerSet
<1> DEFINE g == r.got
           t == Tail(g)
<1>2. /\ t \in Seq(Answers) /\ Len(g) \in Nat \ {0} /\ Len(t) = Len(g) - 1 /\ Head(g) = g[1]
      /\ \A i \in 1..Len(t) : t[i] = g[i + 1]
  BY <1>1, Tails
<1>3. u.got = t /\ u.shared = g[1][2] BY <1>2
<1> HIDE DEF g, t
<1>4. CASE t = <<>>
  <2>1. Len(g) = 1 BY <1>2, <1>4
  <2> QED BY <1>3, <1>4, <2>1 DEF Final, g
<1>5. CASE t # <<>>
  <2>1. Len(t) # 0 BY <1>2, <1>5, EmptySeq
  <2>2. Len(t) \in 1..Len(t) /\ Len(t) + 1 = Len(g) BY <1>2, <2>1
  <2>3. t[Len(t)] = g[Len(g)] BY <1>2, <2>2
  <2> QED BY <1>3, <1>5, <2>3 DEF Final, g
<1> QED BY <1>4, <1>5

(* A request after nothing but calls. *)
LEMMA Asks ==
  ASSUME NEW q \in Seq(Told), \A i \in 1..Len(q) : q[i][1] \in Calls,
         NEW x \in Told, x[1] \notin Calls
  PROVE  LET t == Append(q, x)
         IN  /\ \A i \in 1..Len(t) : t[i][1] \in Calls \cup {x[1]}
             /\ \A i, j \in 1..Len(t) : t[i][1] = x[1] /\ t[j][1] = x[1] => i = j
             /\ \E i \in 1..Len(t) : t[i][1] = x[1]
<1> DEFINE t == Append(q, x)
<1>1. /\ Len(q) \in Nat /\ Len(t) = Len(q) + 1
      /\ \A i \in 1..Len(q) : t[i] = q[i]
      /\ t[Len(q) + 1] = x
      /\ \A i \in 1..Len(t) : i \in 1..Len(q) \/ i = Len(q) + 1
  BY Appends
<1> HIDE DEF t
<1>2. \A i \in 1..Len(t) : \/ i \in 1..Len(q) /\ t[i][1] \in Calls /\ t[i][1] = q[i][1]
                           \/ i = Len(q) + 1 /\ t[i][1] = x[1]
  BY <1>1
<1>3. Len(q) + 1 \in 1..Len(t) BY <1>1
<1>4. \A i \in 1..Len(t) : t[i][1] \in Calls \cup {x[1]} BY <1>2
<1>5. \A i, j \in 1..Len(t) : t[i][1] = x[1] /\ t[j][1] = x[1] => i = j BY <1>2
<1>6. \E i \in 1..Len(t) : t[i][1] = x[1] BY <1>1, <1>3
<1> QED BY <1>4, <1>5, <1>6 DEF t

(* A slave changes, and its place in the conversation with it. *)
LEMMA SlaveStep ==
  ASSUME BrokersInv, NEW p \in Procs, br[p].master # NoProc, br[p].role # "master",
         NEW r \in BrokerSet, br' = [br EXCEPT ![p] = r], Shape(r),
         r.master = br[p].master, r.cut = br[p].cut, r.slaves = br[p].slaves,
         ~r.cut => Link(p, r, br[r.master])
  PROVE  BrokersInv'
<1>1. \A m \in Procs : p \in br[m].slaves => r.master = m /\ ~r.cut BY DEF BrokersInv
<1> QED BY <1>1, LocalStep

LEMMA BecomeSlaveKeeps ==
  ASSUME BrokersInv, NEW p \in Procs, BecomeSlave(p)
  PROVE  BrokersInv'
<1> DEFINE o == br[p]
           x == <<"backend">>
           sent == IF o.cut THEN o.sent ELSE Append(o.sent, x)
           got == Tail(o.got)
           r == [o EXCEPT !.pc = "entering", !.role = "slave", !.listed = o.agent,
                          !.got = got, !.sent = sent]
<1>0. o \in BrokerSet /\ Shape(o) /\ o.sent \in Seq(Told) /\ o.agent \in BOOLEAN
  BY OfBrokersInv DEF BrokerSet
<1>1. Head(o.got)[1] = "root" /\ Heard(p)
  <2>1. Head(o.got) = <<"root">> /\ Heard(p) BY DEF BecomeSlave
  <2> QED BY <2>1
<1>2. o.pc = "greeting" /\ o.master # NoProc /\ o.role # "master" /\ got = <<>>
      /\ got \in Seq(Answers) /\ o.got # <<>>
  BY <1>1, HeadSays DEF Heard
<1>3. x \in Told /\ x[1] = "backend" BY DEF Told
<1>4. o.sent \o <<x>> = Append(o.sent, x) /\ Append(o.sent, x) \in Seq(Told)
  BY <1>0, <1>3, OneMore, Appends
<1> HIDE DEF x
<1>5. br' = [br EXCEPT ![p] = r]
  <2> DEFINE r0 == [o EXCEPT !.got = got, !.pc = "entering", !.role = "slave", !.listed = o.agent]
             b == [Read(p) EXCEPT ![p].pc = "entering", ![p].role = "slave", ![p].listed = o.agent]
  <2>1. b = [br EXCEPT ![p] = r0] /\ b[p] = r0 BY <1>0 DEF BrokersInv, Read, BrokerSet
  <2>2. br' = Tell(b, p, <<x>>) BY DEF BecomeSlave, x
  <2> HIDE DEF b
  <2>3. b[p].cut = o.cut /\ b[p].sent = o.sent BY <1>0, <2>1 DEF BrokerSet
  <2> HIDE DEF r0
  <2>4. br' = IF o.cut THEN b ELSE [b EXCEPT ![p].sent = o.sent \o <<x>>]
    BY <2>2, <2>3 DEF Tell
  <2>5. CASE o.cut
    <3>1. r = r0 BY <1>0, <2>5 DEF BrokerSet, r0
    <3> QED BY <2>1, <2>4, <2>5, <3>1
  <2>6. CASE ~o.cut
    <3>1. r = [r0 EXCEPT !.sent = Append(o.sent, x)] BY <1>0, <2>6 DEF BrokerSet, r0
    <3> HIDE DEF r
    <3>2. br' = [br EXCEPT ![p] = [r0 EXCEPT !.sent = Append(o.sent, x)]]
      BY <1>4, <2>1, <2>4, <2>6 DEF BrokersInv
    <3> QED BY <3>1, <3>2
  <2> QED BY <2>5, <2>6
<1>6. sent \in Seq(Told) BY <1>0, <1>4
<1> HIDE DEF sent, got
<1>7. /\ r \in BrokerSet /\ r.pc = "entering" /\ r.role = "slave" /\ r.master = o.master
      /\ r.cut = o.cut /\ r.slaves = o.slaves /\ r.known = o.known /\ r.got = got
      /\ r.sent = sent /\ r.listed = o.agent /\ r.agent = o.agent
  BY <1>0, <1>2, <1>6 DEF BrokerSet, Pcs, Roles
<1> HIDE DEF r
<1>8. Shape(r)
  <2>1. Len(r.got) = 0 BY <1>2, <1>7
  <2>2. r.cut => r.sent = <<>> BY <1>0, <1>7 DEF Shape, sent
  <2> QED BY <1>0, <1>2, <1>7, <2>1, <2>2 DEF Shape, Hearing
<1>9. ASSUME ~r.cut PROVE Link(p, r, br[r.master])
  <2> DEFINE s == br[o.master]
  <2>1. s.role = "master" /\ Talk(p, o, s) /\ ("hasty" \notin Habits => Tracks(p, o, s))
    BY <1>2, <1>7, <1>9, OfBrokersInv DEF Link
  <2> HIDE DEF s
  <2>2. ~Outstanding(o) /\ p \notin s.slaves BY <1>2, <2>1 DEF Talk
  <2>3. \A i \in 1..Len(o.sent) : o.sent[i][1] \in Calls BY <2>1, <2>2 DEF Talk, Outstanding
  <2>4. r.sent = Append(o.sent, x) BY <1>7, <1>9 DEF sent
  <2>5. Request(r.pc) = x[1] /\ x[1] \notin Calls BY <1>3, <1>7 DEF Request, Calls
  <2>6. /\ \A i \in 1..Len(r.sent) : r.sent[i][1] \in Calls \cup {x[1]}
        /\ \A i, j \in 1..Len(r.sent) : r.sent[i][1] = x[1] /\ r.sent[j][1] = x[1] => i = j
    BY <1>0, <1>3, <2>3, <2>4, <2>5, Asks
  <2>7. Talk(p, r, s) BY <1>2, <1>7, <2>2, <2>5, <2>6 DEF Talk
  <2>8. Shares(p, r, s) BY <2>2 DEF Shares
  <2>9. "hasty" \notin Habits => Tracks(p, r, s)
    <3>1. ASSUME Silent(o.sent) PROVE Silent(r.sent)
      BY <1>0, <1>3, <2>4, <3>1, SaidMore DEF OfAgent
    <3> QED BY <1>2, <1>7, <2>1, <3>1 DEF Tracks
  <2> QED BY <1>7, <2>1, <2>7, <2>8, <2>9 DEF Link, s
<1> QED BY <1>2, <1>5, <1>7, <1>8, <1>9, SlaveStep

LEMMA HandshakeKeeps ==
  ASSUME BrokersInv, NEW p \in Procs, Handshake(p)
  PROVE  BrokersInv'
<1> DEFINE o == br[p]
           x == <<"handshake">>
           sent == IF o.cut THEN o.sent ELSE Append(o.sent, x)
           got == Tail(o.got)
           r == [o EXCEPT !.pc = "handshake", !.got = got, !.sent = sent]
<1>0. o \in BrokerSet /\ Shape(o) /\ o.sent \in Seq(Told)
  BY OfBrokersInv DEF BrokerSet
<1>1. Head(o.got)[1] = "backend" /\ Heard(p)
  <2>1. Head(o.got) = <<"backend">> /\ Heard(p) BY DEF Handshake
  <2> QED BY <2>1
<1>2. o.pc = "entering" /\ o.master # NoProc /\ o.role # "master" /\ got = <<>>
      /\ got \in Seq(Answers) /\ o.got # <<>>
  BY <1>1, HeadSays DEF Heard
<1>3. x \in Told /\ x[1] = "handshake" BY DEF Told
<1>4. o.sent \o <<x>> = Append(o.sent, x) /\ Append(o.sent, x) \in Seq(Told)
  BY <1>0, <1>3, OneMore, Appends
<1> HIDE DEF x
<1>5. br' = [br EXCEPT ![p] = r]
  <2> DEFINE r0 == [o EXCEPT !.got = got, !.pc = "handshake"]
             b == [Read(p) EXCEPT ![p].pc = "handshake"]
  <2>1. b = [br EXCEPT ![p] = r0] /\ b[p] = r0 BY <1>0 DEF BrokersInv, Read, BrokerSet
  <2>2. br' = Tell(b, p, <<x>>) BY DEF Handshake, x
  <2> HIDE DEF b
  <2>3. b[p].cut = o.cut /\ b[p].sent = o.sent BY <1>0, <2>1 DEF BrokerSet
  <2> HIDE DEF r0
  <2>4. br' = IF o.cut THEN b ELSE [b EXCEPT ![p].sent = o.sent \o <<x>>]
    BY <2>2, <2>3 DEF Tell
  <2>5. CASE o.cut
    <3>1. r = r0 BY <1>0, <2>5 DEF BrokerSet, r0
    <3> QED BY <2>1, <2>4, <2>5, <3>1
  <2>6. CASE ~o.cut
    <3>1. r = [r0 EXCEPT !.sent = Append(o.sent, x)] BY <1>0, <2>6 DEF BrokerSet, r0
    <3> HIDE DEF r
    <3>2. br' = [br EXCEPT ![p] = [r0 EXCEPT !.sent = Append(o.sent, x)]]
      BY <1>4, <2>1, <2>4, <2>6 DEF BrokersInv
    <3> QED BY <3>1, <3>2
  <2> QED BY <2>5, <2>6
<1>6. sent \in Seq(Told) BY <1>0, <1>4
<1> HIDE DEF sent, got
<1>7. /\ r \in BrokerSet /\ r.pc = "handshake" /\ r.role = o.role /\ r.master = o.master
      /\ r.cut = o.cut /\ r.slaves = o.slaves /\ r.known = o.known /\ r.got = got
      /\ r.sent = sent /\ r.listed = o.listed /\ r.agent = o.agent
  BY <1>0, <1>2, <1>6 DEF BrokerSet, Pcs, Roles
<1> HIDE DEF r
<1>8. Shape(r)
  <2>1. Len(r.got) = 0 BY <1>2, <1>7
  <2>2. r.cut => r.sent = <<>> BY <1>0, <1>7 DEF Shape, sent
  <2> QED BY <1>0, <1>2, <1>7, <2>1, <2>2 DEF Shape, Hearing
<1>9. ASSUME ~r.cut PROVE Link(p, r, br[r.master])
  <2> DEFINE s == br[o.master]
  <2>1. /\ s.role = "master" /\ Talk(p, o, s) /\ ("hasty" \notin Habits => Tracks(p, o, s))
        /\ s.known \subseteq s.slaves
    BY <1>2, <1>7, <1>9, OfBrokersInv DEF Link, BrokersInv, Shape
  <2> HIDE DEF s
  <2>2. ~Outstanding(o) /\ p \notin s.slaves BY <1>2, <2>1 DEF Talk
  <2>3. \A i \in 1..Len(o.sent) : o.sent[i][1] \in Calls BY <2>1, <2>2 DEF Talk, Outstanding
  <2>4. r.sent = Append(o.sent, x) BY <1>7, <1>9 DEF sent
  <2>5. Request(r.pc) = x[1] /\ x[1] \notin Calls BY <1>3, <1>7 DEF Request, Calls
  <2>6. /\ \A i \in 1..Len(r.sent) : r.sent[i][1] \in Calls \cup {x[1]}
        /\ \A i, j \in 1..Len(r.sent) : r.sent[i][1] = x[1] /\ r.sent[j][1] = x[1] => i = j
        /\ \E i \in 1..Len(r.sent) : r.sent[i][1] = x[1]
    BY <1>0, <1>3, <2>3, <2>4, <2>5, Asks
  <2>7. Talk(p, r, s) BY <1>2, <1>7, <2>2, <2>5, <2>6 DEF Talk, Outstanding
  <2>8. Shares(p, r, s) BY <2>2 DEF Shares
  <2>9. ASSUME "hasty" \notin Habits PROVE Tracks(p, r, s)
    <3>1. Silent(o.sent) /\ (o.listed <=> o.agent) BY <1>2, <2>1, <2>9 DEF Tracks
    <3>2. Silent(r.sent) BY <1>0, <1>3, <2>4, <3>1, SaidMore DEF OfAgent
    <3>3. p \notin s.known BY <2>1, <2>2
    <3>4. r.agent <=> (r.listed \/ p \in s.known) BY <1>7, <3>1, <3>3
    <3>5. \A j \in 1..Len(r.sent) : r.sent[j][1] \notin OfAgent BY <3>2 DEF Silent
    <3> QED BY <1>7, <3>2, <3>4, <3>5 DEF Tracks
  <2> QED BY <1>7, <2>1, <2>7, <2>8, <2>9 DEF Link, s
<1> QED BY <1>2, <1>5, <1>7, <1>8, <1>9, SlaveStep

LEMMA HandshakeDoneKeeps ==
  ASSUME BrokersInv, NEW p \in Procs, HandshakeDone(p)
  PROVE  BrokersInv'
<1> DEFINE o == br[p]
           x == <<"register">>
           sent == IF ~o.cut /\ o.listed THEN Append(o.sent, x) ELSE o.sent
           got == Tail(o.got)
           v == Head(o.got)[2]
           r == [o EXCEPT !.pc = "up", !.shared = v, !.listed = FALSE, !.got = got, !.sent = sent]
<1>0. o \in BrokerSet /\ Shape(o) /\ o.sent \in Seq(Told) /\ o.listed \in BOOLEAN
  BY OfBrokersInv DEF BrokerSet
<1>1. Head(o.got)[1] = "items" /\ Heard(p) BY DEF HandshakeDone
<1>2. /\ o.pc = "handshake" /\ o.master # NoProc /\ o.role # "master"
      /\ got \in Seq(Answers) /\ o.got # <<>> /\ v \in 0..MaxCalls
      /\ \A i \in 1..Len(got) : got[i][1] = "set"
  BY <1>1, HeadSays, AnswersKinds DEF Heard
<1>3. x \in Told /\ x[1] = "register" BY DEF Told
<1>4. o.sent \o <<x>> = Append(o.sent, x) /\ Append(o.sent, x) \in Seq(Told) /\ o.sent \o <<>> = o.sent
  BY <1>0, <1>3, OneMore, Appends
<1> HIDE DEF x
<1>5. br' = [br EXCEPT ![p] = r]
  <2> DEFINE r0 == [o EXCEPT !.got = got, !.pc = "up", !.shared = v, !.listed = FALSE]
             b == [Read(p) EXCEPT ![p].pc = "up", ![p].shared = v, ![p].listed = FALSE]
             more == IF o.listed THEN <<x>> ELSE <<>>
  <2>1. b = [br EXCEPT ![p] = r0] /\ b[p] = r0 BY <1>0 DEF BrokersInv, Read, BrokerSet
  <2>2. br' = Tell(b, p, more) BY DEF HandshakeDone, x
  <2> HIDE DEF b
  <2>3. b[p].cut = o.cut /\ b[p].sent = o.sent BY <1>0, <2>1 DEF BrokerSet
  <2>a. o.sent \o more = IF o.listed THEN Append(o.sent, x) ELSE o.sent BY <1>4
  <2> HIDE DEF r0, more
  <2>4. br' = IF o.cut THEN b ELSE [b EXCEPT ![p].sent = o.sent \o more]
    BY <2>2, <2>3 DEF Tell
  <2>5. CASE o.cut
    <3>1. r = r0 BY <1>0, <2>5 DEF BrokerSet, r0
    <3> QED BY <2>1, <2>4, <2>5, <3>1
  <2>6. CASE ~o.cut
    <3>1. r = [r0 EXCEPT !.sent = sent] BY <1>0, <2>6 DEF BrokerSet, r0
    <3>2. sent = o.sent \o more BY <2>6, <2>a
    <3> HIDE DEF r, sent
    <3>3. br' = [br EXCEPT ![p] = [r0 EXCEPT !.sent = sent]]
      BY <3>2, <2>1, <2>4, <2>6 DEF BrokersInv
    <3> QED BY <3>1, <3>3
  <2> QED BY <2>5, <2>6
<1>6. sent \in Seq(Told) BY <1>0, <1>4
<1>a. got = Tail(o.got) /\ v = Head(o.got)[2] OBVIOUS
<1> HIDE DEF sent, got, v
<1>7. /\ r \in BrokerSet /\ r.pc = "up" /\ r.role = o.role /\ r.master = o.master
      /\ r.cut = o.cut /\ r.slaves = o.slaves /\ r.known = o.known /\ r.got = got
      /\ r.sent = sent /\ r.shared = v /\ r.agent = o.agent
  BY <1>0, <1>2, <1>6 DEF BrokerSet, Pcs, Roles
<1> HIDE DEF r
<1>8. Shape(r)
  <2>1. r.cut => r.sent = <<>> BY <1>0, <1>7 DEF Shape, sent
  <2> QED BY <1>0, <1>2, <1>7, <2>1 DEF Shape, Hearing
<1>9. ASSUME ~r.cut PROVE Link(p, r, br[r.master])
  <2> DEFINE s == br[o.master]
  <2>1. /\ s.role = "master" /\ Talk(p, o, s) /\ Shares(p, o, s)
        /\ ("hasty" \notin Habits => Tracks(p, o, s))
    BY <1>2, <1>7, <1>9, OfBrokersInv DEF Link
  <2> HIDE DEF s
  <2>2. ~Outstanding(o) /\ p \in s.slaves BY <1>2, <2>1 DEF Talk
  <2>3. \A i \in 1..Len(o.sent) : o.sent[i][1] \in Calls BY <2>1, <2>2 DEF Talk, Outstanding
  <2>4. r.sent = IF o.listed THEN Append(o.sent, x) ELSE o.sent BY <1>7, <1>9 DEF sent
  <2>5. /\ Len(r.sent) \in Nat
        /\ \A i \in 1..Len(r.sent) : r.sent[i][1] \in Calls
        /\ (\A i \in 1..Len(r.sent) : r.sent[i][1] # "set")
             => (\A i \in 1..Len(o.sent) : o.sent[i][1] # "set")
    <3>1. CASE ~o.listed BY <1>0, <2>3, <2>4, <3>1
    <3>2. CASE o.listed
      <4> DEFINE q == o.sent
                 t == Append(q, x)
      <4>1. /\ Len(q) \in Nat /\ Len(t) = Len(q) + 1 /\ \A i \in 1..Len(q) : t[i] = q[i]
            /\ t[Len(q) + 1] = x /\ \A i \in 1..Len(t) : i \in 1..Len(q) \/ i = Len(q) + 1
        BY <1>0, <1>3, Appends
      <4>2. r.sent = t /\ \A i \in 1..Len(q) : q[i][1] \in Calls BY <2>3, <2>4, <3>2
      <4> HIDE DEF q, t
      <4>3. \A i \in 1..Len(q) : i \in 1..Len(t) /\ t[i] = q[i] BY <4>1
      <4>4. \A i \in 1..Len(t) : t[i][1] \in Calls BY <1>3, <4>1, <4>2 DEF Calls
      <4> QED BY <4>1, <4>2, <4>3, <4>4 DEF q
    <3> QED BY <3>1, <3>2
  <2>6. Talk(p, r, s) BY <1>7, <2>2, <2>5 DEF Talk, Outstanding, Request, Calls
  <2>7. Final(r) = Final(o) BY <1>0, <1>2, <1>7, <1>a, Reads
  <2>8. Shares(p, r, s) BY <2>1, <2>5, <2>7 DEF Shares
  <2>9. ASSUME "hasty" \notin Habits PROVE Tracks(p, r, s)
    <3>1. \/ Silent(o.sent) /\ (o.agent <=> (o.listed \/ p \in s.known))
          \/ o.agent /\ Tells(o.sent, "register")
      BY <1>2, <2>1, <2>9 DEF Tracks
    <3>2. CASE o.listed
      <4>1. o.agent BY <3>1, <3>2
      <4>2. Tells(r.sent, "register") BY <1>0, <1>3, <2>4, <3>2, SaidMore
      <4> QED BY <1>7, <4>1, <4>2 DEF Tracks
    <3>3. CASE ~o.listed
      <4>1. r.sent = o.sent BY <2>4, <3>3
      <4> QED BY <1>7, <3>1, <3>3, <4>1 DEF Tracks
    <3> QED BY <3>2, <3>3
  <2> QED BY <1>7, <2>1, <2>6, <2>8, <2>9 DEF Link, s
<1> QED BY <1>2, <1>5, <1>7, <1>8, <1>9, SlaveStep

LEMMA UpdatedKeeps ==
  ASSUME BrokersInv, NEW p \in Procs, Updated(p)
  PROVE  BrokersInv'
<1> DEFINE o == br[p]
           got == Tail(o.got)
           v == Head(o.got)[2]
           r == [o EXCEPT !.shared = v, !.got = got]
<1>0. o \in BrokerSet /\ Shape(o) BY OfBrokersInv
<1>1. Head(o.got)[1] = "set" /\ Heard(p) BY DEF Updated
<1>2. /\ o.pc = "up" /\ o.master # NoProc /\ o.role # "master"
      /\ got \in Seq(Answers) /\ o.got # <<>> /\ v \in 0..MaxCalls
      /\ \A i \in 1..Len(got) : got[i][1] = "set"
  BY <1>1, HeadSays, AnswersKinds DEF Heard
<1>3. br' = [br EXCEPT ![p] = r] BY <1>0 DEF Updated, Read, BrokersInv, BrokerSet
<1>a. got = Tail(o.got) /\ v = Head(o.got)[2] OBVIOUS
<1> HIDE DEF got, v
<1>4. /\ r \in BrokerSet /\ r.pc = "up" /\ r.role = o.role /\ r.master = o.master
      /\ r.cut = o.cut /\ r.slaves = o.slaves /\ r.known = o.known /\ r.got = got
      /\ r.sent = o.sent /\ r.shared = v /\ r.agent = o.agent
  BY <1>0, <1>2 DEF BrokerSet
<1> HIDE DEF r
<1>5. Shape(r) BY <1>0, <1>2, <1>4 DEF Shape, Hearing
<1>6. ASSUME ~r.cut PROVE Link(p, r, br[r.master])
  <2> DEFINE s == br[o.master]
  <2>1. /\ s.role = "master" /\ Talk(p, o, s) /\ Shares(p, o, s)
        /\ ("hasty" \notin Habits => Tracks(p, o, s))
    BY <1>2, <1>4, <1>6, OfBrokersInv DEF Link
  <2> HIDE DEF s
  <2>2. ~Outstanding(o) BY <1>2, <2>1 DEF Talk
  <2>3. Talk(p, r, s) BY <1>2, <1>4, <2>1, <2>2 DEF Talk, Outstanding
  <2>4. Final(r) = Final(o) BY <1>0, <1>2, <1>4, <1>a, Reads
  <2>5. Shares(p, r, s) BY <1>4, <2>1, <2>4 DEF Shares
  <2>6. Tracks(p, o, s) => Tracks(p, r, s) BY <1>2, <1>4 DEF Tracks
  <2> QED BY <1>4, <2>1, <2>3, <2>5, <2>6 DEF Link, s
<1> QED BY <1>2, <1>3, <1>4, <1>5, <1>6, SlaveStep

-----------------------------------------------------------------------------
(* What a slave says *)

(* A call goes behind what has been sent. *)
LEMMA CallSays ==
  ASSUME NEW q \in Seq(Told), NEW x \in Told, x[1] \in Calls
  PROVE  LET t == Append(q, x)
         IN  /\ (\A i \in 1..Len(t) : t[i][1] # "set")
                  => x[1] # "set" /\ \A i \in 1..Len(q) : q[i][1] # "set"
             /\ \A i \in 1..Len(t) : t[i][1] = "handshake" =>
                  i \in 1..Len(q) /\ q[i][1] = "handshake" /\ i < Len(q) + 1
             /\ \A i \in 1..Len(t) : \/ i \in 1..Len(q) /\ t[i] = q[i]
                                     \/ i = Len(q) + 1 /\ t[i] = x
             /\ \A i \in 1..Len(q) : i \in 1..Len(t) /\ t[i] = q[i]
<1> DEFINE t == Append(q, x)
<1>1. /\ Len(q) \in Nat /\ Len(t) = Len(q) + 1 /\ \A i \in 1..Len(q) : t[i] = q[i]
      /\ t[Len(q) + 1] = x /\ \A i \in 1..Len(t) : i \in 1..Len(q) \/ i = Len(q) + 1
  BY Appends
<1> HIDE DEF t
<1>2. \A i \in 1..Len(q) : i \in 1..Len(t) /\ t[i] = q[i] BY <1>1
<1>3. \A i \in 1..Len(t) : \/ i \in 1..Len(q) /\ t[i] = q[i]
                           \/ i = Len(q) + 1 /\ t[i] = x
  BY <1>1
<1>4. (\A i \in 1..Len(t) : t[i][1] # "set") => x[1] # "set" /\ \A i \in 1..Len(q) : q[i][1] # "set"
  <2>1. Len(q) + 1 \in 1..Len(t) BY <1>1
  <2> QED BY <1>1, <1>2, <2>1
<1>5. \A i \in 1..Len(t) : t[i][1] = "handshake" =>
        i \in 1..Len(q) /\ q[i][1] = "handshake" /\ i < Len(q) + 1
  <2>1. x[1] # "handshake" BY DEF Calls
  <2> QED BY <1>1, <1>3, <2>1
<1> QED BY <1>2, <1>3, <1>4, <1>5 DEF t

LEMMA CallTalk ==
  ASSUME NEW p, NEW o \in BrokerSet, NEW s, Talk(p, o, s), NEW x \in Told, x[1] \in Calls,
         NEW r, r.pc = o.pc, r.got = o.got, r.sent = Append(o.sent, x)
  PROVE  Talk(p, r, s)
<1> DEFINE q == o.sent
           t == r.sent
<1>1. q \in Seq(Told) BY DEF BrokerSet
<1>2. /\ \A i \in 1..Len(t) : \/ i \in 1..Len(q) /\ t[i] = q[i]
                              \/ i = Len(q) + 1 /\ t[i] = x
      /\ \A i \in 1..Len(q) : i \in 1..Len(t) /\ t[i] = q[i]
  BY <1>1, CallSays
<1> HIDE DEF q, t
<1>4. Request(o.pc) \notin Calls BY DEF Request, Calls
<1>5. \A i \in 1..Len(t) : \/ i \in 1..Len(q) /\ t[i] = q[i]
                           \/ i = Len(q) + 1 /\ t[i] = x /\ t[i][1] # Request(o.pc)
  BY <1>2, <1>4
<1>6. (\E i \in 1..Len(t) : t[i][1] = Request(o.pc)) <=> (\E i \in 1..Len(q) : q[i][1] = Request(o.pc))
  BY <1>2, <1>5
<1>7. Outstanding(r) <=> Outstanding(o) BY <1>6 DEF Outstanding, q, t
<1>8. \A i \in 1..Len(t) : t[i][1] \in Calls \cup {Request(o.pc)}
  <2>1. \A i \in 1..Len(q) : q[i][1] \in Calls \cup {Request(o.pc)} BY DEF Talk, q
  <2> QED BY <1>5, <2>1
<1>9. \A i, j \in 1..Len(t) : t[i][1] = Request(o.pc) /\ t[j][1] = Request(o.pc) => i = j
  <2>1. \A i, j \in 1..Len(q) : q[i][1] = Request(o.pc) /\ q[j][1] = Request(o.pc) => i = j
    BY DEF Talk, q
  <2> QED BY <1>5, <2>1
<1> QED BY <1>7, <1>8, <1>9 DEF Talk, t

(* A slave changes its agent or its state and says so. *)
LEMMA CallStep ==
  ASSUME BrokersInv, NEW p \in Procs, br[p].role = "slave", NEW x \in Told, x[1] \in Calls,
         NEW agent \in BOOLEAN, NEW shared \in 0..MaxCalls,
         NEW r, r = [br[p] EXCEPT !.agent = agent, !.shared = shared,
                                  !.sent = IF br[p].cut THEN br[p].sent ELSE Append(br[p].sent, x)],
         br' = [br EXCEPT ![p] = r],
         x[1] # "set" => shared = br[p].shared,
         x[1] = "set" => agent = br[p].agent,
         x[1] = "register" => agent,
         x[1] = "unregister" => ~agent,
         "hasty" \notin Habits =>
           /\ x[1] = "register" => br[p].pc \in {"handshake", "up"}
           /\ x[1] = "unregister" => br[p].pc = "up"
  PROVE  BrokersInv'
<1> DEFINE o == br[p]
           sent == IF o.cut THEN o.sent ELSE Append(o.sent, x)
<1>0. o \in BrokerSet /\ Shape(o) /\ o.sent \in Seq(Told) /\ o.master # NoProc /\ o.slaves = {}
  BY OfBrokersInv DEF BrokerSet, Shape
<1>1. sent \in Seq(Told) BY <1>0, Appends
<1>2. r = [o EXCEPT !.agent = agent, !.shared = shared, !.sent = sent] OBVIOUS
<1> HIDE DEF sent
<1>3. /\ r \in BrokerSet /\ r.pc = o.pc /\ r.role = o.role /\ r.master = o.master
      /\ r.cut = o.cut /\ r.slaves = o.slaves /\ r.known = o.known /\ r.got = o.got
      /\ r.sent = sent /\ r.shared = shared /\ r.agent = agent /\ r.listed = o.listed
  BY <1>0, <1>1, <1>2 DEF BrokerSet
<1>4. Shape(r)
  <2>1. r.cut => r.sent = <<>> BY <1>0, <1>3 DEF Shape, sent
  <2> QED BY <1>0, <1>3, <2>1 DEF Shape, Hearing
<1>5. ASSUME ~r.cut PROVE Link(p, r, br[r.master])
  <2> DEFINE s == br[o.master]
  <2>1. /\ s.role = "master" /\ Talk(p, o, s) /\ Shares(p, o, s) /\ o.pc # "down"
        /\ ("hasty" \notin Habits => Tracks(p, o, s))
    BY <1>0, <1>3, <1>5, OfBrokersInv DEF Link, Shape
  <2> HIDE DEF s
  <2>2. r.sent = Append(o.sent, x) BY <1>3, <1>5 DEF sent
  <2>3. /\ (\A i \in 1..Len(r.sent) : r.sent[i][1] # "set")
             => x[1] # "set" /\ \A i \in 1..Len(o.sent) : o.sent[i][1] # "set"
        /\ \A i \in 1..Len(r.sent) : r.sent[i][1] = "handshake" =>
             i \in 1..Len(o.sent) /\ o.sent[i][1] = "handshake" /\ i < Len(o.sent) + 1
        /\ \A i \in 1..Len(r.sent) : \/ i \in 1..Len(o.sent) /\ r.sent[i] = o.sent[i]
                                     \/ i = Len(o.sent) + 1 /\ r.sent[i] = x
    BY <1>0, <2>2, CallSays
  <2>6. Talk(p, r, s)
    <3>1. o \in BrokerSet /\ Talk(p, o, s) /\ r.pc = o.pc /\ r.got = o.got
      BY <1>0, <1>3, <2>1
    <3> HIDE DEF o
    <3> QED BY ONLY <2>2, <3>1, x \in Told, x[1] \in Calls, CallTalk
  <2>4. Shares(p, r, s)
    <3>1. shared = o.shared => Final(r) = Final(o) BY <1>3 DEF Final
    <3> QED BY <2>1, <2>3, <3>1 DEF Shares
  <2>5. ASSUME "hasty" \notin Habits PROVE Tracks(p, r, s)
    <3>1. Tracks(p, o, s) BY <2>1, <2>5
    <3>2. /\ x[1] \notin OfAgent /\ Silent(o.sent) => Silent(r.sent)
          /\ x[1] \notin OfAgent => \A k : Tells(o.sent, k) => Tells(r.sent, k)
          /\ Tells(r.sent, x[1])
      BY <1>0, <2>2, SaidMore
    <3>3. ASSUME r.pc = "handshake"
          PROVE  \A i, j \in 1..Len(r.sent) :
                   r.sent[i][1] = "handshake" /\ r.sent[j][1] \in OfAgent => i < j
      <4>1. \A i, j \in 1..Len(o.sent) :
              o.sent[i][1] = "handshake" /\ o.sent[j][1] \in OfAgent => i < j
        BY <1>3, <3>1, <3>3 DEF Tracks
      <4> SUFFICES ASSUME NEW i \in 1..Len(r.sent), NEW j \in 1..Len(r.sent),
                          r.sent[i][1] = "handshake", r.sent[j][1] \in OfAgent
                   PROVE  i < j
        OBVIOUS
      <4>2. i \in 1..Len(o.sent) /\ o.sent[i][1] = "handshake" /\ i < Len(o.sent) + 1 BY <2>3
      <4>3. \/ j \in 1..Len(o.sent) /\ r.sent[j] = o.sent[j]
            \/ j = Len(o.sent) + 1
        BY <2>3
      <4> QED BY <4>1, <4>2, <4>3
    <3>4. CASE x[1] = "set"
      <4>1. x[1] \notin OfAgent /\ r.agent = o.agent BY <1>3, <3>4 DEF OfAgent
      <4> QED BY <1>3, <3>1, <3>2, <3>3, <4>1 DEF Tracks
    <3>5. CASE x[1] = "register"
      <4>1. r.agent /\ Tells(r.sent, "register") /\ r.pc \in {"handshake", "up"}
        BY <1>3, <2>5, <3>2, <3>5
      <4> QED BY <3>3, <4>1 DEF Tracks
    <3>6. CASE x[1] = "unregister"
      <4>1. ~r.agent /\ Tells(r.sent, "unregister") /\ r.pc = "up"
        BY <1>3, <2>5, <3>2, <3>6
      <4> QED BY <4>1 DEF Tracks
    <3> QED BY <3>4, <3>5, <3>6 DEF Calls
  <2> QED BY <1>3, <2>1, <2>4, <2>5, <2>6 DEF Link, s
<1> QED BY <1>0, <1>3, <1>4, <1>5, SlaveStep

(* Another broker does, and tells nobody. *)
LEMMA QuietStep ==
  ASSUME BrokersInv, NEW p \in Procs, br[p].role # "slave",
         NEW agent \in BOOLEAN, NEW shared \in 0..MaxCalls,
         br[p].role = "master" => shared = br[p].shared,
         NEW r, r = [br[p] EXCEPT !.agent = agent, !.shared = shared],
         br' = [br EXCEPT ![p] = r]
  PROVE  BrokersInv'
<1> DEFINE o == br[p]
<1>0. o \in BrokerSet /\ Shape(o) BY OfBrokersInv
<1>3. /\ r \in BrokerSet /\ r.pc = o.pc /\ r.role = o.role /\ r.master = o.master
      /\ r.cut = o.cut /\ r.slaves = o.slaves /\ r.known = o.known /\ r.got = o.got
      /\ r.sent = o.sent /\ r.shared = shared /\ r.agent = agent /\ r.listed = o.listed
  BY <1>0 DEF BrokerSet
<1>4. Shape(r) BY <1>0, <1>3 DEF Shape, Hearing
<1>5. ASSUME r.master # NoProc, ~r.cut PROVE Link(p, r, br[r.master])
  <2> DEFINE s == br[o.master]
  <2>1. Link(p, o, s) BY <1>3, <1>5, OfBrokersInv
  <2> HIDE DEF s
  <2>2. CASE r.pc = "down" BY <1>3, <2>1, <2>2 DEF Link, s
  <2>3. CASE r.pc # "down"
    <3>1. r.pc = "greeting" BY <1>0, <1>3, <1>5, <2>3 DEF Shape, BrokerSet, Roles
    <3>2. Talk(p, o, s) BY <1>3, <2>1, <2>3 DEF Link
    <3>3. Talk(p, r, s) BY <1>3, <3>2 DEF Talk, Outstanding
    <3>4. p \notin s.slaves BY <3>1, <3>3 DEF Talk
    <3>5. Shares(p, r, s) BY <3>4 DEF Shares
    <3>6. Tracks(p, o, s) => Tracks(p, r, s) BY <1>3, <3>1 DEF Tracks
    <3> QED BY <1>3, <2>1, <3>1, <3>3, <3>5, <3>6 DEF Link, s
  <2> QED BY <2>2, <2>3
<1>6. \A m \in Procs : p \in br[m].slaves => r.master = m /\ ~r.cut BY <1>3 DEF BrokersInv
<1> QED BY <1>3, <1>4, <1>5, <1>6, LocalStep

LEMMA AgentCallsKeep ==
  ASSUME BrokersInv, NEW p \in Procs, RegisterAgent(p) \/ UnregisterAgent(p)
  PROVE  BrokersInv'
<1> DEFINE o == br[p]
<1>0. o \in BrokerSet /\ o.shared \in 0..MaxCalls /\ Shape(o) BY OfBrokersInv DEF BrokerSet
<1>1. ASSUME NEW agent \in BOOLEAN, NEW x, x = IF agent THEN <<"register">> ELSE <<"unregister">>,
             NEW b, b = [br EXCEPT ![p].agent = agent],
             br' = IF br[p].role = "slave" THEN Tell(b, p, <<x>>) ELSE b,
             "hasty" \notin Habits => IF agent THEN InTime(p) ELSE InTime(p) /\ o.pc # "handshake"
      PROVE  BrokersInv'
  <2> DEFINE r0 == [o EXCEPT !.agent = agent, !.shared = o.shared]
  <2>1. b = [br EXCEPT ![p] = r0] BY <1>0, <1>1 DEF BrokersInv, BrokerSet
  <2>2. x \in Told /\ x[1] = IF agent THEN "register" ELSE "unregister" BY <1>1 DEF Told
  <2>a. r0 = [br[p] EXCEPT !.agent = agent, !.shared = br[p].shared] OBVIOUS
  <2>3. CASE o.role # "slave"
    <3>1. br' = [br EXCEPT ![p] = r0] BY <1>1, <2>1, <2>3
    <3>2. br[p].role # "slave" /\ br[p].shared \in 0..MaxCalls BY <1>0, <2>3
    <3> HIDE DEF r0
    <3> QED BY <2>a, <3>1, <3>2, QuietStep
  <2>4. CASE o.role = "slave"
    <3> DEFINE r == [o EXCEPT !.agent = agent, !.shared = o.shared,
                              !.sent = IF o.cut THEN o.sent ELSE Append(o.sent, x)]
    <3>a. r = [br[p] EXCEPT !.agent = agent, !.shared = br[p].shared,
                            !.sent = IF br[p].cut THEN br[p].sent ELSE Append(br[p].sent, x)]
      OBVIOUS
    <3>1. br' = Tell(b, p, <<x>>) BY <1>1, <2>4
    <3>b. br[p].shared \in 0..MaxCalls /\ br[p].role = "slave" /\ x \in Told BY <1>0, <2>2, <2>4
    <3>2. Tell(b, p, <<x>>) = [br EXCEPT ![p] = r]
      <4>1. r0.cut = o.cut /\ r0.sent = o.sent /\ o.sent \in Seq(Told) BY <1>0 DEF BrokerSet
      <4>2. r = [r0 EXCEPT !.sent = IF o.cut THEN o.sent ELSE Append(o.sent, x)]
            /\ (o.cut => r = r0)
        BY <1>0 DEF BrokerSet
      <4> HIDE DEF r, r0, o
      <4>3. b[p] = r0 /\ b \in [Procs -> BrokerSet \cup {r0}] /\ br \in [Procs -> BrokerSet]
        BY <2>1 DEF BrokersInv
      <4>4. o.sent \o <<x>> = Append(o.sent, x) BY <2>2, <4>1, OneMore
      <4>5. CASE o.cut
        <5>1. Tell(b, p, <<x>>) = b BY <4>1, <4>3, <4>5 DEF Tell
        <5> QED BY <2>1, <4>2, <4>5, <5>1
      <4>6. CASE ~o.cut
        <5>1. Tell(b, p, <<x>>) = [b EXCEPT ![p].sent = Append(o.sent, x)]
          BY <4>1, <4>3, <4>4, <4>6 DEF Tell
        <5>2. r = [r0 EXCEPT !.sent = Append(o.sent, x)] BY <4>2, <4>6
        <5> QED BY <2>1, <4>3, <5>1, <5>2
      <4> QED BY <4>5, <4>6
    <3>3. x[1] \in Calls /\ (x[1] # "set" => br[p].shared = br[p].shared)
          /\ (x[1] = "set" => agent = br[p].agent)
          /\ (x[1] = "register" => agent) /\ (x[1] = "unregister" => ~agent)
      BY <2>2 DEF Calls
    <3>4. "hasty" \notin Habits =>
            /\ x[1] = "register" => br[p].pc \in {"handshake", "up"}
            /\ x[1] = "unregister" => br[p].pc = "up"
      BY <1>1, <2>2, <2>4 DEF InTime
    <3>5. br' = [br EXCEPT ![p] = r] BY <3>1, <3>2
    <3> HIDE DEF r
    <3> QED BY ONLY BrokersInv, p \in Procs, agent \in BOOLEAN, <3>a, <3>b, <3>3, <3>4, <3>5, CallStep
  <2> QED BY <2>3, <2>4
<1>2. CASE RegisterAgent(p)
  <2> DEFINE b == [br EXCEPT ![p].agent = TRUE]
  <2>1. br' = (IF br[p].role = "slave" THEN Tell(b, p, <<<<"register">>>>) ELSE b) /\ InTime(p)
    BY <1>2 DEF RegisterAgent
  <2> HIDE DEF b
  <2>2. b = [br EXCEPT ![p].agent = TRUE] BY DEF b
  <2> QED BY <1>1, <2>1, <2>2
<1>3. CASE UnregisterAgent(p)
  <2> DEFINE b == [br EXCEPT ![p].agent = FALSE]
  <2>1. /\ br' = (IF br[p].role = "slave" THEN Tell(b, p, <<<<"unregister">>>>) ELSE b)
        /\ "hasty" \notin Habits => InTime(p) /\ o.pc # "handshake"
    BY <1>3 DEF UnregisterAgent
  <2> HIDE DEF b
  <2>2. b = [br EXCEPT ![p].agent = FALSE] BY DEF b
  <2> QED BY <1>1, <2>1, <2>2
<1> QED BY <1>2, <1>3

(* A slave is told a new value. *)
LEMMA HearsMore ==
  ASSUME NEW q, NEW o \in BrokerSet, Shape(o), NEW s, q \in s.slaves, ~o.cut, o.pc # "down",
         o.master # NoProc, Talk(q, o, s), NEW v, s.shared = v,
         NEW x \in Answers, x[1] = "set", x[2] = v, NEW r, r = [o EXCEPT !.got = Append(o.got, x)]
  PROVE  /\ r \in BrokerSet /\ r.pc = o.pc /\ r.role = o.role /\ r.master = o.master
         /\ r.cut = o.cut /\ r.slaves = o.slaves /\ r.known = o.known
         /\ Shape(r) /\ Talk(q, r, s) /\ Shares(q, r, s)
         /\ (Tracks(q, o, s) => Tracks(q, r, s))
<1> DEFINE g == o.got
           h == Append(g, x)
<1>1. g \in Seq(Answers) /\ (g # <<>> => Len(g) # 0) BY EmptySeq DEF BrokerSet
<1>2. /\ h \in Seq(Answers) /\ Len(g) \in Nat /\ Len(h) = Len(g) + 1 /\ h # <<>>
      /\ \A i \in 1..Len(g) : h[i] = g[i]
      /\ h[Len(g) + 1] = x
      /\ \A i \in 1..Len(h) : i \in 1..Len(g) \/ i = Len(g) + 1
  BY <1>1, Appends
<1>a. r = [o EXCEPT !.got = h] OBVIOUS
<1> HIDE DEF h
<1>3. /\ r \in BrokerSet /\ r.pc = o.pc /\ r.role = o.role /\ r.master = o.master
      /\ r.cut = o.cut /\ r.slaves = o.slaves /\ r.known = o.known /\ r.got = h
      /\ r.sent = o.sent /\ r.shared = o.shared /\ r.agent = o.agent /\ r.listed = o.listed
  BY <1>a, <1>2 DEF BrokerSet
<1>b. g = o.got OBVIOUS
<1> HIDE DEF g
<1>4. o.pc = "up" \/ (o.pc = "handshake" /\ g # <<>>) BY <1>b DEF Talk
<1>5. o.role # "master" /\ Hearing(o) BY DEF Shape
<1>6. ~Outstanding(o)
  <2>1. o.pc # "up" => ~Outstanding(o) BY <1>4 DEF Talk
  <2>2. ASSUME NEW i \in 1..Len(o.sent), o.sent[i][1] = "nothing" PROVE FALSE
    <3>1. o.sent[i] \in Told BY DEF BrokerSet
    <3> QED BY <2>2, <3>1, ToldKinds
  <2> QED BY <2>1, <2>2 DEF Outstanding, Request
<1>7. Hearing(r)
  <2>1. CASE o.pc = "up"
    <3>1. \A i \in 1..Len(g) : g[i][1] = "set" BY <1>5, <1>b, <2>1 DEF Hearing
    <3>2. \A i \in 1..Len(h) : h[i][1] = "set" BY <1>2, <3>1
    <3> QED BY <1>3, <2>1, <3>2 DEF Hearing
  <2>2. CASE o.pc = "handshake"
    <3>1. \A i \in 1..Len(g) : g[i][1] = IF i = 1 THEN "items" ELSE "set"
      BY <1>5, <1>b, <2>2 DEF Hearing
    <3>2. Len(g) # 0 BY <1>1, <1>4, <2>2
    <3>3. \A i \in 1..Len(h) : h[i][1] = IF i = 1 THEN "items" ELSE "set"
      BY <1>2, <3>1, <3>2
    <3> QED BY <1>3, <2>2, <3>3 DEF Hearing
  <2> QED BY <1>4, <2>1, <2>2
<1>8. Shape(r) BY <1>3, <1>7 DEF Shape
<1>9. Outstanding(r) <=> Outstanding(o) BY <1>3 DEF Outstanding
<1>10. Talk(q, r, s) BY <1>2, <1>3, <1>6, <1>9 DEF Talk
<1>11. Final(r) = v BY <1>2, <1>3 DEF Final
<1>12. Shares(q, r, s) BY <1>11 DEF Shares
<1>13. Tracks(q, o, s) => Tracks(q, r, s) BY <1>3 DEF Tracks
<1> QED BY <1>3, <1>8, <1>10, <1>12, <1>13

(* What is left when the master has the value, and before it is broadcast: *)
(* whatever the slaves have had in common with it, they do not any more.   *)
Untold(b, m) ==
  /\ b \in [Procs -> BrokerSet] /\ b[m].role = "master"
  /\ \A q \in Procs : Shape(b[q])
  /\ \A q \in Procs : b[q].master # NoProc /\ ~b[q].cut =>
       /\ b[b[q].master].role = "master"
       /\ b[q].pc # "down" =>
            /\ Talk(q, b[q], b[b[q].master])
            /\ b[q].master # m => Shares(q, b[q], b[b[q].master])
            /\ "hasty" \notin Habits => Tracks(q, b[q], b[b[q].master])
  /\ \A k \in Procs : \A q \in b[k].slaves : b[q].master = k /\ ~b[q].cut

LEMMA BroadcastStep ==
  ASSUME NEW m \in Procs, NEW b, Untold(b, m), NEW v \in 0..MaxCalls, b[m].shared = v,
         NEW p, br' = Broadcast(b, m, v, p)
  PROVE  BrokersInv'
<1> DEFINE x == <<"set", v>>
<1>1. b \in [Procs -> BrokerSet] /\ b[m].role = "master" BY DEF Untold
<1>2. x \in Answers /\ x[1] = "set" /\ x[2] = v BY DEF Answers
<1>3. \A q \in Procs : br'[q] = IF q \in b[m].slaves /\ ~b[q].cut /\ b[q].pc # "down"
                                THEN [b[q] EXCEPT !.got = Append(@, x)] ELSE b[q]
  BY DEF Broadcast, Hears
<1>a. br' = [q \in Procs |-> br'[q]] BY DEF Broadcast
<1> HIDE DEF x
<1>4. ASSUME NEW q \in Procs
      PROVE  /\ br'[q] \in BrokerSet /\ Shape(br'[q])
             /\ br'[q].pc = b[q].pc /\ br'[q].role = b[q].role
             /\ br'[q].master = b[q].master /\ br'[q].cut = b[q].cut
             /\ br'[q].slaves = b[q].slaves
             /\ b[q].role = "master" => br'[q] = b[q]
             /\ q \in b[m].slaves /\ b[q].pc # "down" =>
                  /\ b[q].master = m /\ ~b[q].cut
                  /\ Talk(q, br'[q], b[m]) /\ Shares(q, br'[q], b[m])
                  /\ "hasty" \notin Habits => Tracks(q, br'[q], b[m])
             /\ q \notin b[m].slaves => br'[q] = b[q]
  <2> DEFINE o == b[q]
  <2>1. o \in BrokerSet /\ Shape(o) BY <1>1 DEF Untold
  <2>2. CASE ~(q \in b[m].slaves /\ o.pc # "down")
    <3>1. br'[q] = o BY <1>3, <2>2
    <3> QED BY <2>1, <2>2, <3>1
  <2>3. CASE q \in b[m].slaves /\ o.pc # "down"
    <3>1. o.master = m /\ ~o.cut BY <2>3 DEF Untold
    <3>2. o.master # NoProc BY <3>1, ProcsAssumption
    <3>3. Talk(q, o, b[m]) /\ ("hasty" \notin Habits => Tracks(q, o, b[m]))
      BY <2>3, <3>1, <3>2 DEF Untold
    <3>4. br'[q] = [o EXCEPT !.got = Append(o.got, x)] BY <1>3, <2>3, <3>1
    <3>5. o.role # "master" BY <2>1, <3>2 DEF Shape
    <3> DEFINE r == br'[q]
               s == b[m]
    <3>6. r = [o EXCEPT !.got = Append(o.got, x)] /\ s.shared = v /\ q \in s.slaves
          /\ Talk(q, o, s) /\ o.pc # "down"
      BY <2>3, <3>3, <3>4
    <3> HIDE DEF o, r, s
    <3>7. /\ r \in BrokerSet /\ r.pc = o.pc /\ r.role = o.role /\ r.master = o.master
          /\ r.cut = o.cut /\ r.slaves = o.slaves
          /\ Shape(r) /\ Talk(q, r, s) /\ Shares(q, r, s)
          /\ (Tracks(q, o, s) => Tracks(q, r, s))
      BY <1>2, <2>1, <3>1, <3>2, <3>6, HearsMore
    <3> QED BY <2>3, <3>1, <3>3, <3>5, <3>7 DEF o, r, s
  <2> QED BY <2>2, <2>3
<1>5. br' \in [Procs -> BrokerSet]
  <2>1. \A q \in Procs : br'[q] \in BrokerSet BY <1>4
  <2> QED BY <1>a, <2>1
<1>6. ASSUME NEW q \in Procs, br'[q].master # NoProc, ~br'[q].cut
      PROVE  Link(q, br'[q], br'[br'[q].master])
  <2> DEFINE k == b[q].master
  <2>1. b[q].master # NoProc /\ ~b[q].cut /\ br'[q].master = k /\ br'[q].pc = b[q].pc
    BY <1>4, <1>6
  <2>2. k \in Procs BY <1>1, <2>1 DEF BrokerSet
  <2>3. b[k].role = "master" BY <2>1 DEF Untold
  <2>4. br'[k] = b[k] BY <1>4, <2>2, <2>3
  <2>5. CASE b[q].pc = "down" BY <2>1, <2>3, <2>4, <2>5 DEF Link
  <2>6. CASE b[q].pc # "down" /\ q \in b[m].slaves
    <3>1. k = m BY <1>4, <2>6
    <3> QED BY <1>4, <2>1, <2>3, <2>4, <2>6, <3>1 DEF Link
  <2>7. CASE b[q].pc # "down" /\ q \notin b[m].slaves
    <3>1. br'[q] = b[q] BY <1>4, <2>7
    <3>2. /\ Talk(q, b[q], b[k]) /\ (k # m => Shares(q, b[q], b[k]))
          /\ ("hasty" \notin Habits => Tracks(q, b[q], b[k]))
      BY <2>1, <2>7 DEF Untold
    <3>3. k = m => Shares(q, b[q], b[k]) BY <2>7 DEF Shares
    <3> QED BY <2>3, <2>4, <3>1, <3>2, <3>3 DEF Link
  <2> QED BY <2>5, <2>6, <2>7
<1>7. \A k \in Procs : \A q \in br'[k].slaves : br'[q].master = k /\ ~br'[q].cut
  <2> SUFFICES ASSUME NEW k \in Procs, NEW q \in br'[k].slaves
               PROVE  br'[q].master = k /\ ~br'[q].cut
    OBVIOUS
  <2>1. q \in b[k].slaves BY <1>4
  <2>2. q \in Procs BY <1>1, <2>1 DEF BrokerSet
  <2> QED BY <1>4, <2>1, <2>2 DEF Untold
<1> QED BY <1>4, <1>5, <1>6, <1>7 DEF BrokersInv, Linked

LEMMA SetItemKeeps ==
  ASSUME BrokersInv, CountInv, NEW p \in Procs, SetItem(p)
  PROVE  BrokersInv'
<1> DEFINE o == br[p]
           v == n.calls + 1
           x == <<"set", v>>
           r0 == [o EXCEPT !.shared = v]
           b == [br EXCEPT ![p].shared = v]
<1>0. o \in BrokerSet /\ o.agent \in BOOLEAN /\ o.sent \in Seq(Told) /\ Shape(o)
      /\ br \in [Procs -> BrokerSet]
  BY OfBrokersInv DEF BrokerSet, BrokersInv
<1>1. v \in 0..MaxCalls
  <2>1. n.calls \in 0..MaxCalls /\ n.calls < MaxCalls BY DEF CountInv, SetItem
  <2> QED BY <2>1, BoundsAssumption
<1>2. br' = CASE br[p].role = "master" -> Broadcast(b, p, v, p)
              [] br[p].role = "slave" -> Tell(b, p, <<x>>)
              [] OTHER -> b
  BY DEF SetItem
<1>3. x \in Told /\ x[1] = "set" BY <1>1 DEF Told
<1>4. b = [br EXCEPT ![p] = r0] BY <1>0
<1> HIDE DEF v, x, b
<1>5. /\ r0 \in BrokerSet /\ r0.pc = o.pc /\ r0.role = o.role /\ r0.master = o.master
      /\ r0.cut = o.cut /\ r0.slaves = o.slaves /\ r0.known = o.known /\ r0.got = o.got
      /\ r0.sent = o.sent /\ r0.shared = v /\ r0.agent = o.agent /\ r0.listed = o.listed
  BY <1>0, <1>1 DEF BrokerSet
<1>6. r0 = [br[p] EXCEPT !.agent = br[p].agent, !.shared = v] BY <1>0 DEF BrokerSet
<1>7. CASE o.role \notin {"slave", "master"}
  <2>1. br' = [br EXCEPT ![p] = r0] BY <1>2, <1>4, <1>7
  <2>2. br[p].agent \in BOOLEAN /\ br[p].role # "slave" /\ br[p].role # "master" BY <1>0, <1>7
  <2> HIDE DEF r0
  <2> QED BY <1>1, <1>6, <2>1, <2>2, QuietStep
<1>8. CASE o.role = "slave"
  <2> DEFINE r == [o EXCEPT !.agent = o.agent, !.shared = v,
                            !.sent = IF o.cut THEN o.sent ELSE Append(o.sent, x)]
  <2>1. r = [br[p] EXCEPT !.agent = br[p].agent, !.shared = v,
                          !.sent = IF br[p].cut THEN br[p].sent ELSE Append(br[p].sent, x)]
    OBVIOUS
  <2>2. br' = [br EXCEPT ![p] = r]
    <3>1. br' = Tell(b, p, <<x>>) BY <1>2, <1>8
    <3>2. r = [r0 EXCEPT !.sent = IF o.cut THEN o.sent ELSE Append(o.sent, x)]
          /\ (o.cut => r = r0)
      BY <1>0 DEF BrokerSet
    <3>3. r0.cut = o.cut /\ r0.sent = o.sent BY <1>5
    <3> HIDE DEF r, r0, o
    <3>4. b[p] = r0 /\ b \in [Procs -> BrokerSet] BY <1>0, <1>4, <1>5
    <3>5. o.sent \o <<x>> = Append(o.sent, x) BY <1>0, <1>3, OneMore
    <3>6. CASE o.cut
      <4>1. Tell(b, p, <<x>>) = b BY <3>3, <3>4, <3>6 DEF Tell
      <4> QED BY <1>4, <3>1, <3>2, <3>6, <4>1
    <3>7. CASE ~o.cut
      <4>1. Tell(b, p, <<x>>) = [b EXCEPT ![p].sent = Append(o.sent, x)]
        BY <3>3, <3>4, <3>5, <3>7 DEF Tell
      <4>2. r = [r0 EXCEPT !.sent = Append(o.sent, x)] BY <3>2, <3>7
      <4> QED BY <1>0, <1>4, <3>1, <3>4, <4>1, <4>2
    <3> QED BY <3>6, <3>7
  <2>3. x[1] \in Calls /\ x[1] # "register" /\ x[1] # "unregister" BY <1>3 DEF Calls
  <2>4. br[p].agent \in BOOLEAN /\ br[p].role = "slave" BY <1>0, <1>8
  <2> HIDE DEF r
  <2> QED BY <1>1, <1>3, <2>1, <2>2, <2>3, <2>4, CallStep
<1>9. CASE o.role = "master"
  <2>1. br' = Broadcast(b, p, v, p) BY <1>2, <1>9
  <2>2. b \in [Procs -> BrokerSet] /\ \A q \in Procs : b[q] = IF q = p THEN r0 ELSE br[q]
    BY <1>0, <1>4, <1>5
  <2>3. o.master = NoProc BY <1>0, <1>9 DEF Shape
  <2> HIDE DEF r0
  <2>4. \A q \in Procs : Shape(b[q])
    <3>1. Shape(r0) BY <1>0, <1>5 DEF Shape, Hearing
    <3> QED BY <2>2, <3>1 DEF BrokersInv
  <2>5. \A k \in Procs : \A q \in b[k].slaves : b[q].master = k /\ ~b[q].cut
    <3> SUFFICES ASSUME NEW k \in Procs, NEW q \in b[k].slaves
                 PROVE  b[q].master = k /\ ~b[q].cut
      OBVIOUS
    <3>1. q \in br[k].slaves /\ q \in Procs BY <1>0, <1>5, <2>2 DEF BrokerSet
    <3> QED BY <1>5, <2>2, <3>1 DEF BrokersInv
  <2>6. ASSUME NEW q \in Procs, b[q].master # NoProc /\ ~b[q].cut
        PROVE  /\ b[b[q].master].role = "master"
               /\ b[q].pc # "down" =>
                    /\ Talk(q, b[q], b[b[q].master])
                    /\ b[q].master # p => Shares(q, b[q], b[b[q].master])
                    /\ "hasty" \notin Habits => Tracks(q, b[q], b[b[q].master])
    <3>1. b[q] = br[q] /\ br[q].master \in Procs /\ br[br[q].master].role = "master"
          /\ Link(q, br[q], br[br[q].master])
      BY <1>5, <2>2, <2>3, <2>6, OfBrokersInv
    <3>2. CASE br[q].master # p BY <2>2, <3>1, <3>2 DEF Link
    <3>3. CASE br[q].master = p
      <4>1. Talk(q, br[q], o) => Talk(q, br[q], r0) BY <1>5 DEF Talk
      <4>2. Tracks(q, br[q], o) => Tracks(q, br[q], r0) BY <1>5 DEF Tracks
      <4> QED BY <1>5, <2>2, <3>1, <3>3, <4>1, <4>2 DEF Link
    <3> QED BY <3>2, <3>3
  <2>7. Untold(b, p) BY <1>5, <1>9, <2>2, <2>4, <2>5, <2>6 DEF Untold
  <2>8. b[p].shared = v BY <1>5, <2>2
  <2> QED BY <1>1, <2>1, <2>7, <2>8, BroadcastStep
<1> QED BY <1>7, <1>8, <1>9

-----------------------------------------------------------------------------
(* What a master hears *)

(* A slave and its master change. *)
LEMMA PairStep ==
  ASSUME BrokersInv, NEW p \in Procs, NEW m \in Procs, br[p].master = m, ~br[p].cut,
         NEW r \in BrokerSet, NEW t \in BrokerSet, br' = [br EXCEPT ![p] = r, ![m] = t],
         Shape(r), Shape(t), r.slaves = {}, t.role = "master", t.shared = br[m].shared,
         \A q \in Procs : q # p => /\ q \in t.slaves <=> q \in br[m].slaves
                                   /\ q \in t.known <=> q \in br[m].known,
         r.master # NoProc => r.master = m /\ ~r.cut /\ Link(p, r, t),
         p \in t.slaves => r.master = m
  PROVE  BrokersInv'
<1>1. /\ br[m].role = "master" /\ br[m].master = NoProc /\ br[p].role # "master" /\ m # p
      /\ m # NoProc
  BY OfBrokersInv, ProcsAssumption DEF Shape
<1>2. /\ br' \in [Procs -> BrokerSet] /\ br'[p] = r /\ br'[m] = t
      /\ \A q \in Procs \ {p, m} : br'[q] = br[q]
  BY <1>1 DEF BrokersInv
<1>3. \A q \in Procs : Shape(br'[q])
  <2> SUFFICES ASSUME NEW q \in Procs PROVE Shape(br'[q]) OBVIOUS
  <2> QED BY <1>2 DEF BrokersInv
<1>4. t.master = NoProc BY DEF Shape
<1>5. ASSUME NEW q \in Procs, br'[q].master # NoProc /\ ~br'[q].cut
      PROVE  Link(q, br'[q], br'[br'[q].master])
  <2>1. CASE q = p BY <1>2, <1>5, <2>1
  <2>2. CASE q # p
    <3>1. q # m /\ br'[q] = br[q] BY <1>2, <1>4, <1>5, <2>2
    <3> DEFINE k == br[q].master
    <3>2. k \in Procs /\ br[k].role = "master" /\ Link(q, br[q], br[k])
      BY <1>5, <3>1, OfBrokersInv
    <3>3. CASE k # m
      <4>1. br'[k] = br[k] BY <1>1, <1>2, <3>2, <3>3
      <4> QED BY <3>1, <3>2, <4>1
    <3>4. CASE k = m
      <4>1. Link(q, br[q], br[m]) BY <3>2, <3>4
      <4>2. Link(q, br[q], t) BY <1>1, <2>2, <4>1, LinkStays
      <4> QED BY <1>2, <3>1, <3>4, <4>2
    <3> QED BY <3>3, <3>4
  <2> QED BY <2>1, <2>2
<1>6. \A k \in Procs : \A q \in br'[k].slaves : br'[q].master = k /\ ~br'[q].cut
  <2> SUFFICES ASSUME NEW k \in Procs, NEW q \in br'[k].slaves
               PROVE  br'[q].master = k /\ ~br'[q].cut
    OBVIOUS
  <2>1. k # p /\ q \in Procs BY <1>2 DEF BrokerSet
  <2>2. CASE k = m /\ q = p BY <1>1, <1>2, <2>2
  <2>3. CASE ~(k = m /\ q = p)
    <3>1. q \in br[k].slaves BY <1>2, <2>1, <2>3
    <3>2. br[q].master = k /\ ~br[q].cut BY <3>1 DEF BrokersInv
    <3>3. q # p /\ q # m BY <1>1, <2>3, <3>2, ProcsAssumption
    <3> QED BY <1>2, <2>1, <3>2, <3>3
  <2> QED BY <2>2, <2>3
<1> QED BY <1>2, <1>3, <1>5, <1>6 DEF BrokersInv, Linked

(* What is left of a conversation when the first thing has been heard: q    *)
(* of o.sent, after x; k is the request that the slave waits for.          *)
LeftBehind(q, x, k, o) ==
  /\ x[1] \in Calls \cup {k}
  /\ \A i \in 1..Len(q) : q[i][1] \in Calls \cup {k}
  /\ \A i, j \in 1..Len(q) : q[i][1] = k /\ q[j][1] = k => i = j
  /\ x[1] = k => (\A i \in 1..Len(q) : q[i][1] # k) /\ Outstanding(o)
  /\ x[1] # k => ((\E i \in 1..Len(q) : q[i][1] = k) <=> Outstanding(o))
  /\ x[1] # "set" =>
       ((\A i \in 1..Len(q) : q[i][1] # "set") => (\A i \in 1..Len(o.sent) : o.sent[i][1] # "set"))

LEMMA ServedTalk ==
  ASSUME NEW p, NEW o \in BrokerSet, NEW s, Talk(p, o, s), o.sent # <<>>,
         NEW q, q = Tail(o.sent), NEW x, x = Head(o.sent), NEW k, k = Request(o.pc)
  PROVE  LeftBehind(q, x, k, o)
<1> DEFINE t == o.sent
<1>1. t \in Seq(Told) /\ t # <<>> BY DEF BrokerSet
<1>2. /\ q \in Seq(Told) /\ Len(t) \in Nat \ {0} /\ Len(q) = Len(t) - 1
      /\ x = t[1] /\ x \in Told
      /\ \A i \in 1..Len(q) : q[i] = t[i + 1] /\ i + 1 \in 1..Len(t)
  BY <1>1, Tails
<1>3. /\ \A i \in 1..Len(t) : t[i][1] \in Calls \cup {k}
      /\ \A i, j \in 1..Len(t) : t[i][1] = k /\ t[j][1] = k => i = j
      /\ Outstanding(o) <=> \E i \in 1..Len(t) : t[i][1] = k
  BY DEF Talk, Outstanding
<1> HIDE DEF t
<1>4. 1 \in 1..Len(t) BY <1>2
<1>5. \A i \in 1..Len(t) : i = 1 \/ (i - 1 \in 1..Len(q) /\ t[i] = q[i - 1])
  <2> SUFFICES ASSUME NEW i \in 1..Len(t), i # 1
               PROVE  i - 1 \in 1..Len(q) /\ t[i] = q[i - 1]
    OBVIOUS
  <2>1. i - 1 \in 1..Len(q) /\ (i - 1) + 1 = i BY <1>2
  <2> QED BY <1>2, <2>1
<1>6. x[1] \in Calls \cup {k} BY <1>2, <1>3, <1>4
<1>7. \A i \in 1..Len(q) : q[i][1] \in Calls \cup {k} BY <1>2, <1>3
<1>8. \A i, j \in 1..Len(q) : q[i][1] = k /\ q[j][1] = k => i = j
  <2> SUFFICES ASSUME NEW i \in 1..Len(q), NEW j \in 1..Len(q), q[i][1] = k, q[j][1] = k
               PROVE  i = j
    OBVIOUS
  <2>1. i + 1 = j + 1 BY <1>2, <1>3
  <2> QED BY <2>1
<1>9. ASSUME x[1] = k PROVE (\A i \in 1..Len(q) : q[i][1] # k) /\ Outstanding(o)
  <2>1. ASSUME NEW i \in 1..Len(q), q[i][1] = k PROVE FALSE
    <3>1. i + 1 = 1 BY <1>2, <1>3, <1>4, <1>9, <2>1
    <3> QED BY <3>1
  <2> QED BY <1>2, <1>3, <1>4, <1>9, <2>1
<1>10. ASSUME x[1] # k PROVE (\E i \in 1..Len(q) : q[i][1] = k) <=> Outstanding(o)
  <2>1. (\E i \in 1..Len(q) : q[i][1] = k) => (\E i \in 1..Len(t) : t[i][1] = k) BY <1>2
  <2>2. (\E i \in 1..Len(t) : t[i][1] = k) => (\E i \in 1..Len(q) : q[i][1] = k)
    BY <1>2, <1>5, <1>10
  <2> QED BY <1>3, <2>1, <2>2
<1>11. x[1] # "set" =>
         ((\A i \in 1..Len(q) : q[i][1] # "set") => (\A i \in 1..Len(t) : t[i][1] # "set"))
  BY <1>2, <1>5
<1> QED BY <1>6, <1>7, <1>8, <1>9, <1>10, <1>11 DEF t, LeftBehind

LEMMA ServeKeeps ==
  ASSUME BrokersInv, NEW p \in Procs, Serve(p)
  PROVE  BrokersInv'
<1> DEFINE o == br[p]
           m == o.master
           s == br[m]
           q == Tail(o.sent)
           x == Head(o.sent)
           k == Request(o.pc)
           u == [o EXCEPT !.sent = q]
           b == [br EXCEPT ![p].sent = Tail(@)]
<1>0. o \in BrokerSet /\ Shape(o) /\ o.sent \in Seq(Told) /\ o.sent # <<>> /\ m # NoProc
      /\ br \in [Procs -> BrokerSet] /\ br' = Handled(b, m, p, x)
  BY OfBrokersInv DEF BrokerSet, BrokersInv, Serve
<1>1. ~o.cut BY <1>0 DEF Shape
<1>2. m \in Procs /\ s.role = "master" /\ Link(p, o, s) /\ s \in BrokerSet /\ Shape(s)
  BY <1>0, <1>1, OfBrokersInv
<1>3. s.master = NoProc /\ o.role # "master" /\ m # p /\ o.slaves = {} BY <1>0, <1>2 DEF Shape
<1>4. q \in Seq(Told) /\ x \in Told BY <1>0, Tails
<1>5. b = [br EXCEPT ![p] = u] BY <1>0
<1>6. q = Tail(o.sent) /\ x = Head(o.sent) /\ k = Request(o.pc) OBVIOUS
<1> HIDE DEF q, x, b, k
<1>7. /\ u \in BrokerSet /\ u.pc = o.pc /\ u.role = o.role /\ u.master = m
      /\ ~u.cut /\ u.cut = o.cut /\ u.slaves = o.slaves /\ u.slaves = {} /\ u.known = o.known /\ u.got = o.got
      /\ u.sent = q /\ u.shared = o.shared /\ u.agent = o.agent /\ u.listed = o.listed
  BY <1>0, <1>1, <1>3, <1>4 DEF BrokerSet
<1>8. Shape(u) BY <1>0, <1>3, <1>7 DEF Shape, Hearing
<1> HIDE DEF u
<1>9. b \in [Procs -> BrokerSet] /\ b[p] = u /\ \A i \in Procs \ {p} : b[i] = br[i]
  BY <1>0, <1>5, <1>7
<1>a. b[m] = s BY <1>2, <1>3, <1>9
(* What is said if the slave still runs. *)
<1>10. ASSUME o.pc # "down"
       PROVE
         /\ Talk(p, o, s) /\ Shares(p, o, s) /\ ("hasty" \notin Habits => Tracks(p, o, s))
         /\ x[1] \in Calls \cup {k}
         /\ \A i \in 1..Len(q) : q[i][1] \in Calls \cup {k}
         /\ \A i, j \in 1..Len(q) : q[i][1] = k /\ q[j][1] = k => i = j
         /\ x[1] = k => (\A i \in 1..Len(q) : q[i][1] # k) /\ Outstanding(o)
         /\ x[1] # k => ((\E i \in 1..Len(q) : q[i][1] = k) <=> Outstanding(o))
         /\ x[1] # "set" =>
              ((\A i \in 1..Len(q) : q[i][1] # "set") => (\A i \in 1..Len(o.sent) : o.sent[i][1] # "set"))
  <2>1. Talk(p, o, s) /\ Shares(p, o, s) /\ ("hasty" \notin Habits => Tracks(p, o, s))
    BY <1>2, <1>10 DEF Link
  <2> HIDE DEF o, s
  <2>2. LeftBehind(q, x, k, o) BY <1>0, <1>6, <2>1, ServedTalk
  <2> QED BY <2>1, <2>2 DEF LeftBehind
<1>11. /\ Silent(o.sent) => Silent(q) /\ x[1] \notin OfAgent
       /\ \A w : Tells(o.sent, w) => Tells(q, w) \/ (x[1] = w /\ Silent(q))
  BY <1>0, <1>6, SaidLess
<1>12. CASE x[1] \in {"root", "backend"}
  <2>1. br' = IF o.pc # "down" THEN [b EXCEPT ![p].got = Append(@, x)] ELSE b
    BY <1>0, <1>7, <1>9, <1>12 DEF Handled, Answer, Hears
  <2>2. CASE o.pc = "down"
    <3>1. br' = [br EXCEPT ![p] = u] BY <1>5, <2>1, <2>2
    <3>2. Link(p, u, br[u.master]) BY <1>2, <1>7, <2>2 DEF Link
    <3> QED BY <1>0, <1>1, <1>3, <1>7, <1>8, <3>1, <3>2, SlaveStep
  <2>3. CASE o.pc # "down"
    <3>1. x[1] = k /\ x[1] \notin Calls BY <1>10, <1>12, <2>3 DEF Calls
    <3>2. \/ o.pc = "greeting" /\ x[1] = "root"
          \/ o.pc = "entering" /\ x[1] = "backend"
      BY <1>6, <1>12, <3>1 DEF Request
    <3>3. o.got = <<>> /\ p \notin s.slaves BY <1>10, <2>3, <3>1, <3>2 DEF Talk
    <3> DEFINE g == <<x>>
               r == [u EXCEPT !.got = g]
    <3>4. x \in Answers BY <1>4, <3>2, ToldKinds
    <3>5. g \in Seq(Answers) /\ Len(g) = 1 /\ g[1] = x /\ Append(<<>>, x) = g BY <3>4
    <3> HIDE DEF g
    <3>c. Len(g) <= 1 /\ \A i \in 1..Len(g) : g[i] = x
      <4>1. \A i \in 1..1 : i = 1 OBVIOUS
      <4> QED BY <3>5, <4>1
    <3>7. /\ r \in BrokerSet /\ r.pc = o.pc /\ r.role = o.role /\ r.master = m
          /\ ~r.cut /\ r.cut = o.cut /\ r.slaves = o.slaves /\ r.slaves = {} /\ r.known = o.known /\ r.got = g
          /\ r.sent = q /\ r.shared = o.shared /\ r.agent = o.agent /\ r.listed = o.listed
      BY <1>7, <3>5 DEF BrokerSet
    <3>a. [b[p] EXCEPT !.got = Append(@, x)] = r BY <1>7, <1>9, <3>3, <3>5
    <3> HIDE DEF r
    <3>b. br' = [b EXCEPT ![p] = r] BY <2>1, <2>3, <3>a
    <3>6. br' = [br EXCEPT ![p] = r] BY <1>0, <1>5, <3>b
    <3>8. Hearing(r)
      <4>1. Len(r.got) <= 1 /\ \A i \in 1..Len(r.got) : r.got[i][1] = x[1] BY <3>7, <3>c
      <4> QED BY <1>6, <3>1, <3>2, <3>7, <4>1 DEF Hearing
    <3>9. Shape(r) BY <1>0, <1>3, <3>2, <3>7, <3>8 DEF Shape
    <3>10. ~Outstanding(r) BY <1>6, <1>10, <2>3, <3>1, <3>7 DEF Outstanding
    <3>11. Talk(p, r, s) BY <1>6, <1>10, <2>3, <3>2, <3>3, <3>7, <3>10 DEF Talk
    <3>12. Shares(p, r, s) BY <3>3 DEF Shares
    <3>13. Tracks(p, o, s) => Tracks(p, r, s) BY <1>11, <3>2, <3>7 DEF Tracks
    <3>14. Link(p, r, br[r.master]) BY <1>2, <1>10, <2>3, <3>7, <3>11, <3>12, <3>13 DEF Link
    <3> QED BY <1>0, <1>1, <1>3, <3>6, <3>7, <3>9, <3>14, SlaveStep
  <2> QED BY <2>2, <2>3
<1>13. CASE x[1] = "handshake"
  <2> DEFINE y == <<"items", s.shared>>
             g == <<y>>
             t == [s EXCEPT !.slaves = s.slaves \cup {p}]
             r == IF o.pc # "down" THEN [u EXCEPT !.got = g] ELSE u
             c == [b EXCEPT ![m].slaves = @ \cup {p}]
  <2>1. br' = Answer(c, p, y) BY <1>0, <1>13, <1>a DEF Handled, AppendSlave
  <2>2. /\ t \in BrokerSet /\ t.pc = s.pc /\ t.role = s.role /\ t.master = s.master
        /\ t.cut = s.cut /\ t.slaves = s.slaves \cup {p} /\ t.known = s.known /\ t.got = s.got
        /\ t.sent = s.sent /\ t.shared = s.shared
    BY <1>2 DEF BrokerSet
  <2>3. Shape(t) BY <1>2, <2>2 DEF Shape, Hearing
  <2>4. y \in Answers /\ y[1] = "items" /\ y[2] = s.shared BY <1>2 DEF Answers, BrokerSet
  <2> HIDE DEF y
  <2>5. g \in Seq(Answers) /\ Len(g) = 1 /\ g[1] = y /\ g # <<>> /\ Append(<<>>, y) = g BY <2>4
  <2> HIDE DEF g
  <2>6. c = [br EXCEPT ![p] = u, ![m] = t] BY <1>0, <1>2, <1>3, <1>5, <1>9, <1>a
  <2>a. r = IF o.pc # "down" THEN [u EXCEPT !.got = g] ELSE u OBVIOUS
  <2> HIDE DEF t, c, r
  <2>7. c[p] = u /\ c \in [Procs -> BrokerSet] BY <1>0, <1>3, <1>7, <2>2, <2>6
  <2>8. o.pc # "down" =>
          /\ o.pc = "handshake" /\ x[1] = k /\ o.got = <<>> /\ p \notin s.slaves
          /\ \A i \in 1..Len(q) : q[i][1] # "handshake"
    <3> SUFFICES ASSUME o.pc # "down"
                 PROVE  /\ o.pc = "handshake" /\ x[1] = k /\ o.got = <<>> /\ p \notin s.slaves
                        /\ \A i \in 1..Len(q) : q[i][1] # "handshake"
      OBVIOUS
    <3>1. x[1] = k BY <1>10, <1>13 DEF Calls
    <3>2. o.pc = "handshake" BY <1>6, <1>13, <3>1 DEF Request
    <3> QED BY <1>10, <1>13, <3>1, <3>2 DEF Talk
  <2>9. br' = [br EXCEPT ![p] = r, ![m] = t]
    <3>1. CASE o.pc = "down"
      <4>1. br' = c BY <1>7, <2>1, <2>7, <3>1 DEF Answer, Hears
      <4> QED BY <2>6, <2>a, <3>1, <4>1
    <3>2. CASE o.pc # "down"
      <4>1. br' = [c EXCEPT ![p].got = Append(@, y)]
        BY <1>7, <2>1, <2>7, <3>2 DEF Answer, Hears
      <4>2. [c[p] EXCEPT !.got = Append(@, y)] = r BY <1>7, <2>5, <2>7, <2>8, <2>a, <3>2
      <4>3. br' = [c EXCEPT ![p] = r] BY <4>1, <4>2
      <4> QED BY <1>0, <1>3, <2>6, <4>3
    <3> QED BY <3>1, <3>2
  <2>10. /\ r \in BrokerSet /\ r.pc = o.pc /\ r.role = o.role /\ r.master = m
         /\ ~r.cut /\ r.slaves = {} /\ r.known = o.known
         /\ r.got = IF o.pc # "down" THEN g ELSE o.got
         /\ r.sent = q /\ r.shared = o.shared /\ r.agent = o.agent /\ r.listed = o.listed
    BY <1>7, <2>5, <2>a DEF BrokerSet
  <2>11. Hearing(r)
    <3>1. \A i \in 1..Len(g) : i = 1 /\ g[i] = y
      <4>1. \A i \in 1..1 : i = 1 OBVIOUS
      <4> QED BY <2>5, <4>1
    <3>2. CASE o.pc = "down" BY <2>10, <3>2 DEF Hearing
    <3>3. CASE o.pc # "down"
      <4>1. r.pc = "handshake" /\ r.got = g BY <2>8, <2>10, <3>3
      <4> QED BY <2>4, <3>1, <4>1 DEF Hearing
    <3> QED BY <3>2, <3>3
  <2>12. Shape(r) BY <1>0, <1>3, <2>10, <2>11 DEF Shape
  <2>13. Link(p, r, t)
    <3>1. CASE o.pc = "down" BY <1>2, <2>2, <2>10, <3>1 DEF Link
    <3>2. CASE o.pc # "down"
      <4>1. r.pc = "handshake" /\ r.got = g /\ k = "handshake" BY <1>13, <2>8, <2>10, <3>2
      <4>2. ~Outstanding(r) BY <1>6, <2>8, <2>10, <3>2, <4>1 DEF Outstanding
      <4>3. Talk(p, r, t) BY <1>6, <1>10, <2>2, <2>5, <2>8, <2>10, <3>2, <4>1, <4>2 DEF Talk
      <4>4. Final(r) = t.shared BY <2>2, <2>4, <2>5, <4>1 DEF Final
      <4>5. Shares(p, r, t) BY <4>4 DEF Shares
      <4>6. ASSUME "hasty" \notin Habits PROVE Tracks(p, r, t)
        <5>1. \/ Silent(o.sent) /\ (o.agent <=> (o.listed \/ p \in s.known))
              \/ o.agent /\ Tells(o.sent, "register")
          BY <1>10, <2>8, <3>2, <4>6 DEF Tracks
        <5>2. \/ Silent(q) /\ (o.agent <=> (o.listed \/ p \in s.known))
              \/ o.agent /\ Tells(q, "register")
          BY <1>11, <1>13, <5>1
        <5> QED BY <2>2, <2>8, <2>10, <3>2, <4>1, <5>2 DEF Tracks
      <4> QED BY <1>2, <2>2, <2>10, <4>3, <4>5, <4>6 DEF Link
    <3> QED BY <3>1, <3>2
  <2> QED BY <1>1, <1>2, <2>2, <2>3, <2>9, <2>10, <2>12, <2>13, PairStep
<1>14. (\A i, j \in 1..Len(o.sent) :
          o.sent[i][1] = "handshake" /\ o.sent[j][1] \in OfAgent => i < j)
       => /\ \A i, j \in 1..Len(q) : q[i][1] = "handshake" /\ q[j][1] \in OfAgent => i < j
          /\ x[1] \in OfAgent => \A i \in 1..Len(q) : q[i][1] # "handshake"
  <2> DEFINE l == o.sent
  <2>1. l \in Seq(Told) /\ l # <<>> BY <1>0
  <2>2. /\ Len(l) \in Nat \ {0} /\ Len(q) = Len(l) - 1 /\ x = l[1]
        /\ \A i \in 1..Len(q) : q[i] = l[i + 1] /\ i + 1 \in 1..Len(l)
    BY <1>6, <2>1, Tails
  <2> HIDE DEF l
  <2> SUFFICES ASSUME \A i, j \in 1..Len(l) : l[i][1] = "handshake" /\ l[j][1] \in OfAgent => i < j
               PROVE  /\ \A i, j \in 1..Len(q) :
                           q[i][1] = "handshake" /\ q[j][1] \in OfAgent => i < j
                      /\ x[1] \in OfAgent => \A i \in 1..Len(q) : q[i][1] # "handshake"
    BY DEF l
  <2>3. ASSUME NEW i \in 1..Len(q), NEW j \in 1..Len(q), q[i][1] = "handshake", q[j][1] \in OfAgent
        PROVE  i < j
    <3>1. i + 1 < j + 1 BY <2>2, <2>3
    <3> QED BY <3>1
  <2>4. ASSUME x[1] \in OfAgent, NEW i \in 1..Len(q), q[i][1] = "handshake" PROVE FALSE
    <3>1. 1 \in 1..Len(l) /\ i + 1 \in 1..Len(l) BY <2>2
    <3>2. i + 1 < 1 BY <2>2, <2>4, <3>1
    <3> QED BY <3>2
  <2> QED BY <2>3, <2>4
<1>15. ASSUME x[1] \in Calls, o.pc # "down", NEW w, p \in w.slaves <=> p \in s.slaves
       PROVE  Talk(p, u, w)
  <2>1. x[1] # k BY <1>6, <1>15 DEF Calls, Request
  <2>2. Outstanding(u) <=> Outstanding(o) BY <1>6, <1>7, <1>10, <1>15, <2>1 DEF Outstanding
  <2> QED BY <1>6, <1>7, <1>10, <1>15, <2>2 DEF Talk
<1>16. ASSUME x[1] # "set", o.pc # "down", NEW w, p \in w.slaves <=> p \in s.slaves,
              w.shared = s.shared
       PROVE  Shares(p, u, w)
  <2>1. Final(u) = Final(o) BY <1>7 DEF Final
  <2> QED BY <1>7, <1>10, <1>16, <2>1 DEF Shares
<1>17. o.pc \in {"down", "greeting", "entering", "handshake", "up"} BY <1>0 DEF Shape
<1>18. ASSUME x[1] = "register", o.pc # "down", "hasty" \notin Habits
       PROVE  p \in s.slaves
  <2>1. x[1] \in OfAgent /\ x[1] \in Calls BY <1>18 DEF OfAgent, Calls
  <2>2. o.pc \in {"handshake", "up"} BY <1>10, <1>11, <1>17, <1>18, <2>1 DEF Tracks
  <2>3. CASE o.pc = "up" BY <1>10, <1>18, <2>3 DEF Talk
  <2>4. CASE o.pc = "handshake"
    <3>1. k = "handshake" /\ x[1] # k BY <1>6, <1>18, <2>4 DEF Request
    <3>2. \A i \in 1..Len(q) : q[i][1] # "handshake" BY <1>10, <1>14, <1>18, <2>1, <2>4 DEF Tracks
    <3>3. ~Outstanding(o) BY <1>10, <1>18, <3>1, <3>2
    <3> QED BY <1>10, <1>18, <2>4, <3>3 DEF Talk
  <2> QED BY <2>2, <2>3, <2>4
<1>19. ASSUME x[1] \in OfAgent, NEW K, K = IF x[1] = "register" THEN s.known \cup {p} ELSE s.known \ {p},
              x[1] = "register" => p \in s.slaves, br' = [b EXCEPT ![m].known = K]
       PROVE  BrokersInv'
  <2> DEFINE t == [s EXCEPT !.known = K]
  <2>1. K \subseteq s.slaves /\ K \in SUBSET Procs
    BY <1>2, <1>19 DEF Shape, BrokerSet
  <2>2. /\ t \in BrokerSet /\ t.pc = s.pc /\ t.role = s.role /\ t.master = s.master
        /\ t.cut = s.cut /\ t.slaves = s.slaves /\ t.known = K /\ t.got = s.got
        /\ t.sent = s.sent /\ t.shared = s.shared
    BY <1>2, <2>1 DEF BrokerSet
  <2>3. br' = [b EXCEPT ![m] = t] BY <1>19, <1>a
  <2> HIDE DEF t
  <2>4. br' = [br EXCEPT ![p] = u, ![m] = t] BY <1>5, <2>3
  <2>5. Shape(t) BY <1>2, <2>1, <2>2 DEF Shape, Hearing
  <2>6. Link(p, u, t)
    <3>1. CASE o.pc = "down" BY <1>2, <1>7, <2>2, <3>1 DEF Link
    <3>2. CASE o.pc # "down"
      <4>1. x[1] \in Calls /\ x[1] # "set" BY <1>19 DEF OfAgent, Calls
      <4>2. Talk(p, u, t) /\ Shares(p, u, t) BY <1>15, <1>16, <2>2, <3>2, <4>1
      <4>3. ASSUME "hasty" \notin Habits PROVE Tracks(p, u, t)
        <5>1. Tracks(p, o, s) BY <1>10, <3>2, <4>3
        <5>2. ~Silent(o.sent) BY <1>11, <1>19
        <5>3. CASE u.pc \in {"greeting", "entering"} BY <1>7, <5>1, <5>2, <5>3 DEF Tracks
        <5>4. CASE u.pc = "handshake"
          <6>1. o.agent /\ Tells(o.sent, "register") BY <1>7, <5>1, <5>2, <5>4 DEF Tracks
          <6>2. Tells(q, "register") \/ (x[1] = "register" /\ Silent(q)) BY <1>11, <6>1
          <6>3. \/ Silent(q) /\ p \in t.known
                \/ Tells(q, "register")
            BY <1>19, <2>2, <6>2
          <6>4. \A i, j \in 1..Len(q) : q[i][1] = "handshake" /\ q[j][1] \in OfAgent => i < j
            BY <1>7, <1>14, <5>1, <5>4 DEF Tracks
          <6> QED BY <1>7, <5>4, <6>1, <6>3, <6>4 DEF Tracks
        <5>5. CASE u.pc = "up"
          <6>1. \/ o.agent /\ Tells(o.sent, "register")
                \/ ~o.agent /\ Tells(o.sent, "unregister")
            BY <1>7, <5>1, <5>2, <5>5 DEF Tracks
          <6>2. \/ o.agent /\ (Tells(q, "register") \/ (x[1] = "register" /\ Silent(q)))
                \/ ~o.agent /\ (Tells(q, "unregister") \/ (x[1] = "unregister" /\ Silent(q)))
            BY <1>11, <6>1
          <6>3. x[1] = "register" => p \in t.known BY <1>19, <2>2
          <6>4. x[1] = "unregister" => p \notin t.known BY <1>19, <2>2
          <6> QED BY <1>7, <5>5, <6>2, <6>3, <6>4 DEF Tracks
        <5> QED BY <1>7, <1>17, <3>2, <5>3, <5>4, <5>5
      <4> QED BY <1>2, <2>2, <4>2, <4>3 DEF Link
    <3> QED BY <3>1, <3>2
  <2>7. \A i \in Procs : i # p => /\ i \in t.slaves <=> i \in br[m].slaves
                                  /\ i \in t.known <=> i \in br[m].known
    BY <1>19, <2>2
  <2>8. br[p].master = m /\ ~br[p].cut /\ t.role = "master" /\ t.shared = br[m].shared
    BY <1>1, <1>2, <2>2
  <2> HIDE DEF m
  <2> QED BY <1>2, <1>7, <1>8, <2>2, <2>4, <2>5, <2>6, <2>7, <2>8, PairStep
<1>20. CASE x[1] = "register"
  <2>1. br' = Register(b, m, p) BY <1>0, <1>20 DEF Handled
  <2>2. CASE p \in s.slaves
    <3>1. br' = [b EXCEPT ![m].known = s.known \cup {p}] BY <1>a, <2>1, <2>2 DEF Register
    <3> QED BY <1>19, <1>20, <2>2, <3>1 DEF OfAgent
  <2>3. CASE p \notin s.slaves
    <3>1. br' = [br EXCEPT ![p] = u] BY <1>5, <1>a, <2>1, <2>3 DEF Register
    <3>2. CASE o.pc = "down"
      <4>1. Link(p, u, br[u.master]) BY <1>2, <1>7, <3>2 DEF Link
      <4> QED BY <1>0, <1>3, <1>7, <1>8, <3>1, <4>1, SlaveStep
    <3>3. CASE o.pc # "down"
      <4>1. x[1] \in Calls /\ x[1] # "set" BY <1>20 DEF Calls
      <4>2. Talk(p, u, s) /\ Shares(p, u, s) BY <1>15, <1>16, <3>3, <4>1
      <4>3. "hasty" \in Habits BY <1>18, <1>20, <2>3, <3>3
      <4>4. Link(p, u, br[u.master]) BY <1>2, <1>7, <4>2, <4>3 DEF Link
      <4> QED BY <1>0, <1>3, <1>7, <1>8, <3>1, <4>4, SlaveStep
    <3> QED BY <3>2, <3>3
  <2> QED BY <2>2, <2>3
<1>21. CASE x[1] = "unregister"
  <2>1. br' = [b EXCEPT ![m].known = s.known \ {p}] BY <1>0, <1>21, <1>a DEF Handled, Unregister
  <2> QED BY <1>19, <1>21, <2>1 DEF OfAgent
<1>22. CASE x[1] = "set"
  <2> DEFINE v == x[2]
             t == [s EXCEPT !.shared = v]
             c == [b EXCEPT ![m].shared = v]
  <2>1. br' = Broadcast(c, m, v, p) BY <1>0, <1>22 DEF Handled
  <2>2. v \in 0..MaxCalls BY <1>4, <1>22, ToldKinds
  <2> HIDE DEF v
  <2>3. /\ t \in BrokerSet /\ t.pc = s.pc /\ t.role = s.role /\ t.master = s.master
        /\ t.cut = s.cut /\ t.slaves = s.slaves /\ t.known = s.known /\ t.got = s.got
        /\ t.sent = s.sent /\ t.shared = v
    BY <1>2, <2>2 DEF BrokerSet
  <2>4. c = [b EXCEPT ![m] = t] BY <1>a
  <2> HIDE DEF t, c
  <2>5. /\ c \in [Procs -> BrokerSet] /\ c[m] = t /\ c[p] = u
        /\ \A i \in Procs \ {p, m} : c[i] = br[i]
    BY <1>2, <1>3, <1>9, <2>3, <2>4
  <2>6. \A i \in Procs : Shape(c[i])
    <3>1. Shape(t) BY <1>2, <2>3 DEF Shape, Hearing
    <3> SUFFICES ASSUME NEW i \in Procs PROVE Shape(c[i]) OBVIOUS
    <3> QED BY <1>8, <2>5, <3>1 DEF BrokersInv
  <2>7. \A i \in Procs : /\ c[i].slaves = br[i].slaves /\ c[i].master = br[i].master
                         /\ c[i].cut <=> br[i].cut
    BY <1>1, <1>7, <2>3, <2>5
  <2>8. \A j \in Procs : \A i \in c[j].slaves : c[i].master = j /\ ~c[i].cut
    <3> SUFFICES ASSUME NEW j \in Procs, NEW i \in c[j].slaves
                 PROVE  c[i].master = j /\ ~c[i].cut
      OBVIOUS
    <3>1. i \in br[j].slaves /\ i \in Procs BY <2>5, <2>7 DEF BrokerSet
    <3> QED BY <2>7, <3>1 DEF BrokersInv
  <2>9. ASSUME NEW i \in Procs, c[i].master # NoProc /\ ~c[i].cut
        PROVE  /\ c[c[i].master].role = "master"
               /\ c[i].pc # "down" =>
                    /\ Talk(i, c[i], c[c[i].master])
                    /\ c[i].master # m => Shares(i, c[i], c[c[i].master])
                    /\ "hasty" \notin Habits => Tracks(i, c[i], c[c[i].master])
    <3>1. CASE i = p
      <4>1. c[i] = u /\ c[i].master = m /\ c[m] = t /\ t.role = "master" BY <1>2, <1>7, <2>3, <2>5, <3>1
      <4>2. ASSUME u.pc # "down"
            PROVE  Talk(p, u, t) /\ ("hasty" \notin Habits => Tracks(p, u, t))
        <5>1. x[1] \in Calls /\ x[1] \notin OfAgent BY <1>22 DEF Calls, OfAgent
        <5>2. Talk(p, u, t) BY <1>7, <1>15, <2>3, <4>2, <5>1
        <5>3. ASSUME "hasty" \notin Habits PROVE Tracks(p, u, t)
          <6>1. Tracks(p, o, s) BY <1>7, <1>10, <4>2, <5>3
          <6>2. (Silent(o.sent) => Silent(q)) /\ \A w \in OfAgent : Tells(o.sent, w) => Tells(q, w)
            BY <1>11, <5>1
          <6>3. "register" \in OfAgent /\ "unregister" \in OfAgent BY DEF OfAgent
          <6>4. o.pc = "handshake" =>
                  \A i1, j1 \in 1..Len(q) : q[i1][1] = "handshake" /\ q[j1][1] \in OfAgent => i1 < j1
            BY <1>14, <6>1 DEF Tracks
          <6>5. CASE o.pc \in {"greeting", "entering"} BY <1>7, <6>1, <6>2, <6>5 DEF Tracks
          <6>6. CASE o.pc = "handshake" BY <1>7, <2>3, <6>1, <6>2, <6>3, <6>4, <6>6 DEF Tracks
          <6>7. CASE o.pc = "up" BY <1>7, <2>3, <6>1, <6>2, <6>3, <6>7 DEF Tracks
          <6> QED BY <1>7, <1>17, <4>2, <6>5, <6>6, <6>7
        <5> QED BY <5>2, <5>3
      <4> QED BY <3>1, <4>1, <4>2
    <3>2. CASE i # p
      <4>1. i # m BY <1>3, <2>3, <2>5, <2>9
      <4>2. c[i] = br[i] BY <2>5, <3>2, <4>1
      <4> DEFINE j == br[i].master
      <4>3. j \in Procs /\ br[j].role = "master" /\ Link(i, br[i], br[j])
        BY <2>9, <4>2, OfBrokersInv
      <4>4. CASE j # m
        <5>1. c[j] = br[j] BY <1>3, <2>5, <4>3, <4>4
        <5> QED BY <4>2, <4>3, <5>1 DEF Link
      <4>5. CASE j = m
        <5>1. c[j] = t /\ Link(i, br[i], s) BY <2>5, <4>3, <4>5
        <5>2. Talk(i, br[i], s) => Talk(i, br[i], t) BY <2>3 DEF Talk
        <5>3. Tracks(i, br[i], s) => Tracks(i, br[i], t) BY <2>3 DEF Tracks
        <5> QED BY <1>2, <2>3, <4>2, <4>5, <5>1, <5>2, <5>3 DEF Link
      <4> QED BY <4>4, <4>5
    <3> QED BY <3>1, <3>2
  <2>10. Untold(c, m) BY <1>2, <2>3, <2>5, <2>6, <2>8, <2>9 DEF Untold
  <2>11. c[m].shared = v BY <2>3, <2>5
  <2> QED BY <1>2, <2>1, <2>2, <2>10, <2>11, BroadcastStep
<1> QED BY <1>4, <1>12, <1>13, <1>20, <1>21, <1>22, ToldKinds

LEMMA RemoveSlaveKeeps ==
  ASSUME BrokersInv, NEW p \in Procs, RemoveSlave(p)
  PROVE  BrokersInv'
<1> DEFINE o == br[p]
           m == o.master
           s == br[m]
           t == [s EXCEPT !.slaves = s.slaves \ {p}, !.known = s.known \ {p}]
           r == Fresh
<1>0. o \in BrokerSet /\ Shape(o) /\ m # NoProc /\ o.pc = "down" /\ br \in [Procs -> BrokerSet]
      /\ br' = [br EXCEPT ![m].slaves = @ \ {p}, ![m].known = @ \ {p}, ![p] = r]
  BY OfBrokersInv DEF BrokersInv, RemoveSlave, Alive
<1>1. ~o.cut BY <1>0 DEF Shape
<1>2. m \in Procs /\ s.role = "master" /\ s \in BrokerSet /\ Shape(s)
  BY <1>0, <1>1, OfBrokersInv
<1>3. s.master = NoProc /\ o.role # "master" /\ m # p BY <1>0, <1>2 DEF Shape
<1>4. /\ t \in BrokerSet /\ t.pc = s.pc /\ t.role = s.role /\ t.master = s.master
      /\ t.cut = s.cut /\ t.slaves = s.slaves \ {p} /\ t.known = s.known \ {p} /\ t.got = s.got
      /\ t.sent = s.sent /\ t.shared = s.shared
  BY <1>2 DEF BrokerSet
<1>5. r \in BrokerSet /\ Shape(r) /\ r.master = NoProc /\ r.slaves = {}
  BY FreshDown
<1> HIDE DEF r
<1>6. br' = [br EXCEPT ![p] = r, ![m] = t] BY <1>0, <1>2, <1>3, <1>5
<1> HIDE DEF t
<1>7. Shape(t) BY <1>2, <1>4 DEF Shape, Hearing
<1>8. \A i \in Procs : i # p => /\ i \in t.slaves <=> i \in br[m].slaves
                                /\ i \in t.known <=> i \in br[m].known
  BY <1>4
<1>9. br[p].master = m /\ ~br[p].cut /\ t.role = "master" /\ t.shared = br[m].shared
      /\ p \notin t.slaves
  BY <1>1, <1>2, <1>4
<1> HIDE DEF m
<1> QED BY <1>2, <1>4, <1>5, <1>6, <1>7, <1>8, <1>9, PairStep

(* A process ends. *)
LEMMA GoneKeeps ==
  ASSUME BrokersInv, NEW p \in Procs, Alive(p), br' = Gone(p)
  PROVE  BrokersInv'
<1>1. Fresh \in BrokerSet /\ Shape(Fresh) /\ Fresh.master = NoProc /\ Fresh.slaves = {}
      /\ Fresh.pc = "down" /\ Fresh.role = "disconnected" /\ ~Fresh.cut /\ Fresh.got = <<>>
      /\ Fresh.known = {} /\ Fresh.sent = <<>>
  BY FreshDown
<1>2. br' = [q \in Procs |-> br'[q]] /\ br \in [Procs -> BrokerSet] BY DEF Gone, BrokersInv
<1>3. ASSUME NEW q \in Procs, q # p, br[q].master # p PROVE br'[q] = br[q]
  BY <1>3 DEF Gone
<1>4. /\ br'[p] \in BrokerSet /\ Shape(br'[p]) /\ br'[p].pc = "down" /\ br'[p].slaves = {}
      /\ ~br'[p].cut
      /\ IF br[p].master = NoProc \/ br[p].cut THEN br'[p].master = NoProc
         ELSE br'[p].master = br[p].master
  <2> DEFINE o == br[p]
             r == [Fresh EXCEPT !.master = o.master, !.sent = o.sent]
  <2>1. o \in BrokerSet BY <1>2
  <2>2. CASE o.master = NoProc \/ o.cut
    <3>1. br'[p] = Fresh BY <2>2 DEF Gone
    <3> QED BY <1>1, <2>2, <3>1
  <2>3. CASE ~(o.master = NoProc \/ o.cut)
    <3>1. br'[p] = r BY <2>3 DEF Gone
    <3>2. /\ r \in BrokerSet /\ r.pc = "down" /\ r.role = "disconnected" /\ r.master = o.master
          /\ ~r.cut /\ r.slaves = {} /\ r.known = {} /\ r.sent = o.sent /\ r.got = <<>>
      BY <1>1, <2>1 DEF BrokerSet, Fresh
    <3> HIDE DEF r
    <3>3. r.master # NoProc /\ ~r.cut BY <2>3, <3>2
    <3>4. Hearing(r) BY <3>2 DEF Hearing
    <3>5. Shape(r) BY <3>2, <3>3, <3>4 DEF Shape
    <3> QED BY <2>3, <3>1, <3>2, <3>5
  <2> QED BY <2>2, <2>3
<1>5. ASSUME NEW q \in Procs, q # p, br[q].master = p
      PROVE  /\ br'[q] \in BrokerSet /\ Shape(br'[q]) /\ br'[q].slaves = {}
             /\ br'[q].master = NoProc \/ br'[q].cut
  <2> DEFINE o == br[q]
             r == [o EXCEPT !.cut = TRUE, !.sent = <<>>]
  <2>1. o \in BrokerSet /\ Shape(o) /\ o.master # NoProc
    BY <1>5, OfBrokersInv, ProcsAssumption
  <2>2. CASE o.pc = "down"
    <3>1. br'[q] = Fresh BY <1>5, <2>2 DEF Gone, Alive
    <3> QED BY <1>1, <3>1
  <2>3. CASE o.pc # "down"
    <3>1. br'[q] = r BY <1>5, <2>3 DEF Gone, Alive
    <3>2. <<>> \in Seq(Told) OBVIOUS
    <3>3. /\ r \in BrokerSet /\ r.pc = o.pc /\ r.role = o.role /\ r.master = o.master
          /\ r.cut /\ r.slaves = o.slaves /\ r.known = o.known /\ r.sent = <<>> /\ r.got = o.got
      BY <2>1, <3>2 DEF BrokerSet
    <3> HIDE DEF r
    <3>6. Hearing(r) BY <2>1, <3>3 DEF Shape, Hearing
    <3>7. r.pc # "down" /\ r.master # NoProc /\ r.role # "master" BY <2>1, <2>3, <3>3 DEF Shape
    <3>4. Shape(r) BY <2>1, <3>3, <3>6, <3>7 DEF Shape
    <3>5. r.slaves = {} BY <3>4, <3>7 DEF Shape
    <3> QED BY <3>1, <3>3, <3>4, <3>5
  <2> QED BY <2>2, <2>3
<1>6. \A q \in Procs : br'[q] \in BrokerSet /\ Shape(br'[q])
  <2> SUFFICES ASSUME NEW q \in Procs PROVE br'[q] \in BrokerSet /\ Shape(br'[q]) OBVIOUS
  <2> QED BY <1>2, <1>3, <1>4, <1>5 DEF BrokersInv
<1>7. br' \in [Procs -> BrokerSet] BY <1>2, <1>6
<1>8. ASSUME NEW k \in Procs, br[k].role = "master", k # p PROVE br'[k] = br[k]
  <2>1. br[k].master = NoProc BY <1>8, OfBrokersInv DEF Shape
  <2> QED BY <1>3, <1>8, <2>1, ProcsAssumption
<1>9. ASSUME NEW q \in Procs, br'[q].master # NoProc /\ ~br'[q].cut
      PROVE  Link(q, br'[q], br'[br'[q].master])
  <2>1. CASE q = p
    <3>1. br'[p].master = br[p].master /\ br[p].master # NoProc /\ ~br[p].cut BY <1>4, <1>9, <2>1
    <3> DEFINE k == br[p].master
    <3>2. k \in Procs /\ br[k].role = "master" BY <3>1, OfBrokersInv
    <3>3. br[p].role # "master" BY <3>1, OfBrokersInv DEF Shape
    <3>4. br'[k] = br[k] BY <1>8, <3>2, <3>3
    <3> QED BY <1>4, <2>1, <3>1, <3>2, <3>4 DEF Link
  <2>2. CASE q # p
    <3>1. br[q].master # p BY <1>5, <1>9, <2>2
    <3>2. br'[q] = br[q] BY <1>3, <2>2, <3>1
    <3> DEFINE k == br[q].master
    <3>3. k \in Procs /\ br[k].role = "master" /\ Link(q, br[q], br[k])
      BY <1>9, <3>2, OfBrokersInv
    <3>4. br'[k] = br[k] BY <1>8, <3>1, <3>3
    <3> QED BY <3>2, <3>3, <3>4
  <2> QED BY <2>1, <2>2
<1>10. \A k \in Procs : \A q \in br'[k].slaves : br'[q].master = k /\ ~br'[q].cut
  <2> SUFFICES ASSUME NEW k \in Procs, NEW q \in br'[k].slaves
               PROVE  br'[q].master = k /\ ~br'[q].cut
    OBVIOUS
  <2>1. k # p /\ br[k].master # p BY <1>4, <1>5
  <2>2. br'[k] = br[k] BY <1>3, <2>1
  <2>3. br[q].master = k /\ ~br[q].cut /\ q \in Procs
    BY <1>2, <2>2 DEF BrokersInv, BrokerSet
  <2>4. CASE q = p BY <1>4, <2>3, <2>4, ProcsAssumption
  <2>5. CASE q # p BY <1>3, <2>1, <2>3, <2>5
  <2> QED BY <2>4, <2>5
<1> QED BY <1>6, <1>7, <1>9, <1>10 DEF BrokersInv, Linked

-----------------------------------------------------------------------------
(* The socket file *)

Claims(r) == r.role = "master" \/ r.pc = "listen"

LEMMA NoNewClaim ==
  ASSUME FileInv, UNCHANGED <<file, robbed>>,
         \A q \in Procs : Claims(br'[q]) => Claims(br[q])
  PROVE  FileInv'
BY DEF FileInv, Claims

LEMMA TellRoles ==
  ASSUME NEW b \in [Procs -> BrokerSet], NEW p \in Procs, NEW msgs, NEW q \in Procs
  PROVE  Tell(b, p, msgs)[q].role = b[q].role /\ Tell(b, p, msgs)[q].pc = b[q].pc
<1> DEFINE sent == b[p].sent \o msgs
<1>1. b[p] \in BrokerSet OBVIOUS
<1>2. Tell(b, p, msgs) = IF b[p].cut THEN b ELSE [b EXCEPT ![p].sent = sent] BY DEF Tell
<1> HIDE DEF sent
<1>3. CASE b[p].cut BY <1>2, <1>3
<1>4. CASE ~b[p].cut
  <2> DEFINE r == [b[p] EXCEPT !.sent = sent]
  <2>1. Tell(b, p, msgs) = [b EXCEPT ![p] = r] BY <1>2, <1>4
  <2>2. r.role = b[p].role /\ r.pc = b[p].pc BY <1>1 DEF BrokerSet
  <2> HIDE DEF r
  <2> QED BY <2>1, <2>2
<1> QED BY <1>3, <1>4

LEMMA AnswerRoles ==
  ASSUME NEW b \in [Procs -> BrokerSet], NEW p \in Procs, NEW msg, NEW q \in Procs
  PROVE  Answer(b, p, msg)[q].role = b[q].role /\ Answer(b, p, msg)[q].pc = b[q].pc
<1> DEFINE got == Append(b[p].got, msg)
<1>1. b[p] \in BrokerSet OBVIOUS
<1>2. Answer(b, p, msg) = IF Hears(b, p) THEN [b EXCEPT ![p].got = got] ELSE b BY DEF Answer
<1> HIDE DEF got
<1>3. CASE ~Hears(b, p) BY <1>2, <1>3
<1>4. CASE Hears(b, p)
  <2> DEFINE r == [b[p] EXCEPT !.got = got]
  <2>1. Answer(b, p, msg) = [b EXCEPT ![p] = r] BY <1>2, <1>4
  <2>2. r.role = b[p].role /\ r.pc = b[p].pc BY <1>1 DEF BrokerSet
  <2> HIDE DEF r
  <2> QED BY <2>1, <2>2
<1> QED BY <1>3, <1>4

LEMMA BroadcastRoles ==
  ASSUME NEW b \in [Procs -> BrokerSet], NEW m \in Procs, NEW v, NEW p, NEW q \in Procs
  PROVE  Broadcast(b, m, v, p)[q].role = b[q].role /\ Broadcast(b, m, v, p)[q].pc = b[q].pc
<1> DEFINE x == <<"set", v>>
           got == Append(b[q].got, x)
           r == [b[q] EXCEPT !.got = got]
<1>1. b[q] \in BrokerSet OBVIOUS
<1>2. Broadcast(b, m, v, p)[q] = IF q \in b[m].slaves /\ Hears(b, q) THEN r ELSE b[q]
  BY DEF Broadcast
<1> HIDE DEF got
<1>3. r.role = b[q].role /\ r.pc = b[q].pc BY <1>1 DEF BrokerSet
<1> HIDE DEF r
<1> QED BY <1>2, <1>3

LEMMA HandledRoles ==
  ASSUME NEW b \in [Procs -> BrokerSet], NEW m \in Procs, NEW p \in Procs, NEW x \in Told,
         NEW q \in Procs
  PROVE  Handled(b, m, p, x)[q].role = b[q].role /\ Handled(b, m, p, x)[q].pc = b[q].pc
<1> DEFINE s == b[m]
<1>0. s \in BrokerSet OBVIOUS
<1>1. ASSUME NEW c, NEW t \in BrokerSet, c = [b EXCEPT ![m] = t], t.role = s.role, t.pc = s.pc
      PROVE  c \in [Procs -> BrokerSet] /\ \A i \in Procs : c[i].role = b[i].role /\ c[i].pc = b[i].pc
  BY <1>1
<1>2. CASE x[1] \in {"root", "backend"} BY <1>2, AnswerRoles DEF Handled
<1>3. CASE x[1] = "handshake"
  <2> DEFINE t == [s EXCEPT !.slaves = s.slaves \cup {p}]
             c == [b EXCEPT ![m].slaves = @ \cup {p}]
  <2>1. t \in BrokerSet /\ t.role = s.role /\ t.pc = s.pc BY <1>0 DEF BrokerSet
  <2>2. c = [b EXCEPT ![m] = t] OBVIOUS
  <2>3. Handled(b, m, p, x) = Answer(c, p, <<"items", s.shared>>)
    BY <1>3 DEF Handled, AppendSlave
  <2> HIDE DEF t, c
  <2>4. c \in [Procs -> BrokerSet] /\ c[q].role = b[q].role /\ c[q].pc = b[q].pc
    BY <1>1, <2>1, <2>2
  <2> QED BY <2>3, <2>4, AnswerRoles
<1>4. CASE x[1] \in {"register", "unregister"}
  <2> DEFINE K == IF x[1] = "register" THEN s.known \cup {p} ELSE s.known \ {p}
             t == [s EXCEPT !.known = K]
  <2>1. t \in BrokerSet /\ t.role = s.role /\ t.pc = s.pc BY <1>0 DEF BrokerSet
  <2>2. Handled(b, m, p, x) = b \/ Handled(b, m, p, x) = [b EXCEPT ![m] = t]
    <3>1. CASE x[1] = "register" BY <3>1 DEF Handled, Register
    <3>2. CASE x[1] = "unregister" BY <3>2 DEF Handled, Unregister
    <3> QED BY <1>4, <3>1, <3>2
  <2> HIDE DEF t
  <2> QED BY <1>1, <2>1, <2>2
<1>5. CASE x[1] = "set"
  <2> DEFINE v == x[2]
             t == [s EXCEPT !.shared = v]
             c == [b EXCEPT ![m].shared = v]
  <2>1. v \in 0..MaxCalls BY <1>5, ToldKinds
  <2>2. Handled(b, m, p, x) = Broadcast(c, m, v, p) BY <1>5 DEF Handled
  <2> HIDE DEF v
  <2>3. t \in BrokerSet /\ t.role = s.role /\ t.pc = s.pc BY <1>0, <2>1 DEF BrokerSet
  <2>4. c = [b EXCEPT ![m] = t] OBVIOUS
  <2> HIDE DEF t, c
  <2>5. c \in [Procs -> BrokerSet] /\ c[q].role = b[q].role /\ c[q].pc = b[q].pc
    BY <1>1, <2>3, <2>4
  <2> QED BY <2>2, <2>5, BroadcastRoles
<1> QED BY <1>2, <1>3, <1>4, <1>5, ToldKinds

(* Whoever claims the socket is at its place, and nobody takes it away     *)
(* from a process that is alive unless the file has been robbed.           *)
LEMMA SocketKeeps ==
  ASSUME BrokersInv, FileInv, NEW p \in Procs,
         \/ Start(p) \/ Bind(p) \/ BecomeMaster(p) \/ Connect(p) \/ Unlink(p)
         \/ ConnectionLost(p) \/ RemoveSlave(p) \/ Crash(p) \/ Disconnect(p)
  PROVE  FileInv'
<1>0. br \in [Procs -> BrokerSet] /\ br[p] \in BrokerSet /\ Shape(br[p]) BY OfBrokersInv DEF BrokersInv
<1>1. ~Claims(Fresh) /\ ~Claims([Fresh EXCEPT !.pc = "listenUNIX"]) BY DEF Fresh, Claims
<1>2. \A q \in Procs : Claims(br[q]) => Alive(q) /\ (~robbed => file = q)
  BY OfBrokersInv DEF Claims, Alive, FileInv, Shape
<1>3. CASE Start(p)
  <2> DEFINE r == [Fresh EXCEPT !.pc = "listenUNIX"]
  <2>1. ~Claims(r) BY <1>1
  <2>2. br' = [br EXCEPT ![p] = r] /\ UNCHANGED <<file, robbed>> BY <1>3 DEF Start
  <2> HIDE DEF r
  <2>3. \A q \in Procs : Claims(br'[q]) => Claims(br[q]) BY <1>0, <2>1, <2>2
  <2> QED BY <2>2, <2>3, NoNewClaim
<1>4. CASE Bind(p)
  <2>1. CASE file = "none"
    <3>1. file' = p /\ robbed' = robbed /\ br' = [br EXCEPT ![p].pc = "listen"]
      BY <1>4, <2>1 DEF Bind
    <3>2. ~robbed => \A q \in Procs : ~Claims(br[q]) BY <1>2, <2>1, ProcsAssumption
    <3>3. \A q \in Procs : q # p => br'[q] = br[q] BY <1>0, <3>1
    <3>4. ~robbed' => \A q \in Procs : Claims(br'[q]) => file' = q BY <3>1, <3>2, <3>3
    <3> QED BY <3>1, <3>4 DEF FileInv, Claims
  <2>2. CASE file # "none"
    <3> DEFINE r == [br[p] EXCEPT !.pc = "connectUNIX"]
    <3>1. br' = [br EXCEPT ![p] = r] /\ UNCHANGED <<file, robbed>> /\ br[p].pc = "listenUNIX"
      BY <1>4, <2>2 DEF Bind
    <3>2. r.pc = "connectUNIX" /\ r.role = br[p].role BY <1>0 DEF BrokerSet
    <3> HIDE DEF r
    <3>3. \A q \in Procs : Claims(br'[q]) => Claims(br[q]) BY <1>0, <3>1, <3>2 DEF Claims
    <3> QED BY <3>1, <3>3, NoNewClaim
  <2> QED BY <2>1, <2>2
<1>5. CASE BecomeMaster(p)
  <2>1. UNCHANGED <<file, robbed>> /\ Claims(br[p]) /\ \A q \in Procs : q # p => br'[q] = br[q]
    BY <1>0, <1>5 DEF BecomeMaster, Claims
  <2>2. \A q \in Procs : Claims(br'[q]) => Claims(br[q]) BY <2>1
  <2> QED BY <2>1, <2>2, NoNewClaim
<1>6. CASE Connect(p)
  <2>1. UNCHANGED <<file, robbed>> /\ br[p].pc = "connectUNIX" BY <1>6 DEF Connect
  <2>2. br[p].role # "master" BY <1>0, <2>1 DEF Shape
  <2>3. ASSUME NEW r, br' = [br EXCEPT ![p] = r], r.pc # "listen", r.role = br[p].role
        PROVE  \A q \in Procs : Claims(br'[q]) => Claims(br[q])
    BY <1>0, <2>2, <2>3 DEF Claims
  <2>4. \A q \in Procs : Claims(br'[q]) => Claims(br[q])
    <3>1. CASE Listening
      <4> DEFINE sent == <<<<"root">>>>
                 r == [br[p] EXCEPT !.pc = "greeting", !.master = file, !.sent = sent]
      <4>1. br' = [br EXCEPT ![p] = r]
        BY <1>6, <3>1, BrokersInv, ProcsAssumption DEF Connect, Listening, BrokersInv
      <4> HIDE DEF sent
      <4>2. r.pc = "greeting" /\ r.role = br[p].role BY <1>0 DEF BrokerSet
      <4> HIDE DEF r
      <4> QED BY <2>3, <4>1, <4>2
    <3>2. CASE ~Listening
      <4> DEFINE pc == IF file = "none" THEN "missing" ELSE "refused"
                 r == [br[p] EXCEPT !.pc = pc]
      <4>1. br' = [br EXCEPT ![p] = r] BY <1>0, <1>6, <3>2 DEF Connect
      <4>2. pc # "listen" OBVIOUS
      <4> HIDE DEF pc
      <4>3. r.pc # "listen" /\ r.role = br[p].role BY <1>0, <4>2 DEF BrokerSet
      <4> HIDE DEF r
      <4> QED BY <2>3, <4>1, <4>3
    <3> QED BY <3>1, <3>2
  <2> QED BY <2>1, <2>4, NoNewClaim
<1>7. CASE Unlink(p)
  <2> DEFINE pc == AfterUnlink(br[p].pc)
             r == [br[p] EXCEPT !.pc = pc]
  <2>1. /\ file' = "none" /\ robbed' = (robbed \/ (file \in Procs /\ Alive(file)))
        /\ br' = [br EXCEPT ![p] = r] /\ br[p].pc \in {"missing", "refused", "refused again"}
    BY <1>7 DEF Unlink, Failed
  <2>2. pc # "listen" BY DEF AfterUnlink
  <2> HIDE DEF pc
  <2>3. r.pc # "listen" /\ r.role = br[p].role BY <1>0, <2>2 DEF BrokerSet
  <2> HIDE DEF r
  <2>4. br[p].role # "master" BY <1>0, <2>1 DEF Shape
  <2>5. \A q \in Procs : Claims(br'[q]) => Claims(br[q]) BY <1>0, <2>1, <2>3, <2>4 DEF Claims
  <2>6. ~robbed' => \A q \in Procs : ~Claims(br[q]) BY <1>2, <2>1
  <2>7. robbed \in BOOLEAN /\ robbed' \in BOOLEAN BY <2>1 DEF FileInv
  <2> QED BY <2>1, <2>5, <2>6, <2>7 DEF FileInv, Claims
<1>8. CASE ConnectionLost(p)
  <2> DEFINE pc == IF br[p].role = "disconnected" THEN "stuck" ELSE "listenUNIX"
             r == [br[p] EXCEPT !.pc = pc, !.role = "disconnected", !.master = NoProc,
                                !.cut = FALSE, !.sent = <<>>, !.listed = FALSE]
  <2>1. br' = [br EXCEPT ![p] = r] /\ UNCHANGED <<file, robbed>>
    BY <1>0, <1>8 DEF ConnectionLost
  <2>2. pc # "listen" OBVIOUS
  <2> HIDE DEF pc
  <2>3. r.pc # "listen" /\ r.role = "disconnected" BY <1>0, <2>2 DEF BrokerSet
  <2> HIDE DEF r
  <2>4. \A q \in Procs : Claims(br'[q]) => Claims(br[q]) BY <1>0, <2>1, <2>3 DEF Claims
  <2> QED BY <2>1, <2>4, NoNewClaim
<1>9. CASE RemoveSlave(p)
  <2> DEFINE m == br[p].master
             s == br[m]
             t == [s EXCEPT !.slaves = s.slaves \ {p}, !.known = s.known \ {p}]
  <2>1. /\ m # NoProc /\ br[p].pc = "down" /\ UNCHANGED <<file, robbed>>
        /\ br' = [br EXCEPT ![m].slaves = @ \ {p}, ![m].known = @ \ {p}, ![p] = Fresh]
    BY <1>9 DEF RemoveSlave, Alive
  <2>2. m \in Procs /\ s \in BrokerSet BY <1>0, <2>1 DEF BrokerSet
  <2>3. t.role = s.role /\ t.pc = s.pc BY <2>2 DEF BrokerSet
  <2>4. [br EXCEPT ![m].slaves = @ \ {p}, ![m].known = @ \ {p}] = [br EXCEPT ![m] = t]
    BY <1>0, <2>2 DEF BrokerSet
  <2> DEFINE c == [br EXCEPT ![m].slaves = @ \ {p}, ![m].known = @ \ {p}]
             f == Fresh
  <2>5. br' = [c EXCEPT ![p] = f] BY <2>1
  <2>6. ~Claims(f) BY <1>1
  <2> HIDE DEF t, c, f
  <2>7. c = [br EXCEPT ![m] = t] BY <2>4 DEF c
  <2>8. \A q \in Procs : Claims(br'[q]) => Claims(br[q])
    BY <1>0, <2>2, <2>3, <2>5, <2>6, <2>7 DEF Claims
  <2> QED BY <2>1, <2>8, NoNewClaim
<1>10. ASSUME br' = Gone(p) PROVE \A q \in Procs : Claims(br'[q]) => q # p /\ Claims(br[q])
  <2> SUFFICES ASSUME NEW q \in Procs, Claims(br'[q]) PROVE q # p /\ Claims(br[q]) OBVIOUS
  <2>1. CASE q = p
    <3> DEFINE master == br[p].master
               sent == br[p].sent
               r == [Fresh EXCEPT !.master = master, !.sent = sent]
    <3>1. br'[p] = Fresh \/ br'[p] = r BY <1>10 DEF Gone
    <3> HIDE DEF master, sent
    <3>2. ~Claims(r)
      <4>1. r.role = Fresh.role /\ r.pc = Fresh.pc BY FreshDown DEF BrokerSet
      <4> QED BY <1>1, <4>1 DEF Claims
    <3> QED BY <1>1, <2>1, <3>1, <3>2
  <2>2. CASE q # p
    <3> DEFINE r == [br[q] EXCEPT !.cut = TRUE, !.sent = <<>>]
    <3>1. br'[q] = Fresh \/ br'[q] = r \/ br'[q] = br[q] BY <1>10, <2>2 DEF Gone
    <3>2. r.role = br[q].role /\ r.pc = br[q].pc BY <1>0 DEF BrokerSet
    <3> HIDE DEF r
    <3> QED BY <1>1, <2>2, <3>1, <3>2 DEF Claims
  <2> QED BY <2>1, <2>2
<1>11. CASE Crash(p)
  <2>1. br' = Gone(p) /\ robbed' = robbed /\ file' = IF file = p THEN "stale" ELSE file
    BY <1>11 DEF Crash
  <2>2. ~robbed' => \A q \in Procs : Claims(br'[q]) => file' = q BY <1>2, <1>10, <2>1
  <2> QED BY <2>1, <2>2 DEF FileInv, Claims
<1>12. CASE Disconnect(p)
  <2>1. br' = Gone(p) BY <1>12 DEF Disconnect
  <2>2. CASE br[p].role = "master"
    <3>1. file' = "none" /\ robbed' = (robbed \/ (file \in Procs \ {p} /\ Alive(file)))
      BY <1>12, <2>2 DEF Disconnect
    <3>2. ~robbed' => \A q \in Procs : ~Claims(br'[q]) BY <1>2, <1>10, <2>1, <3>1
    <3>3. robbed' \in BOOLEAN BY <3>1 DEF FileInv
    <3> QED BY <3>1, <3>2, <3>3 DEF FileInv, Claims
  <2>3. CASE br[p].role # "master"
    <3>1. UNCHANGED <<file, robbed>> BY <1>12, <2>3 DEF Disconnect
    <3>2. \A q \in Procs : Claims(br'[q]) => Claims(br[q]) BY <1>10, <2>1
    <3> QED BY <3>1, <3>2, NoNewClaim
  <2> QED BY <2>2, <2>3
<1> QED BY <1>3, <1>4, <1>5, <1>6, <1>7, <1>8, <1>9, <1>11, <1>12

(* The slaves' side, what is served and what the agencies do leave the      *)
(* socket alone.                                                           *)
LEMMA SlavesKeepSocket ==
  ASSUME BrokersInv, CountInv, FileInv, NEW p \in Procs,
         \/ BecomeSlave(p) \/ Handshake(p) \/ HandshakeDone(p) \/ Updated(p) \/ Serve(p)
         \/ RegisterAgent(p) \/ UnregisterAgent(p) \/ SetItem(p)
  PROVE  FileInv'
<1> DEFINE o == br[p]
<1>0. br \in [Procs -> BrokerSet] /\ o \in BrokerSet /\ Shape(o) BY OfBrokersInv DEF BrokersInv
<1>1. ASSUME NEW r, NEW b, b = [br EXCEPT ![p] = r], r \in BrokerSet,
             Claims(r) => Claims(o), NEW msgs, br' = Tell(b, p, msgs)
      PROVE  \A q \in Procs : Claims(br'[q]) => Claims(br[q])
  <2>1. b \in [Procs -> BrokerSet] /\ \A q \in Procs : b[q] = IF q = p THEN r ELSE br[q]
    BY <1>0, <1>1
  <2>2. b \in [Procs -> BrokerSet] BY <2>1
  <2>3. \A q \in Procs : Tell(b, p, msgs)[q].role = b[q].role /\ Tell(b, p, msgs)[q].pc = b[q].pc
    BY ONLY p \in Procs, <2>2, TellRoles
  <2>4. \A q \in Procs : br'[q].role = b[q].role /\ br'[q].pc = b[q].pc BY <1>1, <2>3
  <2> QED BY <1>1, <2>1, <2>4 DEF Claims
<1>2. ASSUME NEW r, br' = [br EXCEPT ![p] = r], Claims(r) => Claims(o)
      PROVE  \A q \in Procs : Claims(br'[q]) => Claims(br[q])
  BY <1>0, <1>2
<1>3. Heard(p) => /\ Tail(o.got) \in Seq(Answers) /\ Head(o.got) \in Answers
                  /\ o.role # "master"
  <2>1. Heard(p) => o.got \in Seq(Answers) /\ o.got # <<>> BY <1>0 DEF BrokerSet, Heard
  <2> QED BY <1>0, <2>1, Tails DEF Shape
<1>4. CASE BecomeSlave(p)
  <2> DEFINE got == Tail(o.got)
             r == [o EXCEPT !.got = got, !.pc = "entering", !.role = "slave", !.listed = o.agent]
             b == [Read(p) EXCEPT ![p].pc = "entering", ![p].role = "slave", ![p].listed = o.agent]
  <2>1. b = [br EXCEPT ![p] = r] BY <1>0 DEF Read, BrokerSet
  <2>2. br' = Tell(b, p, <<<<"backend">>>>) /\ Heard(p) /\ UNCHANGED <<file, robbed>>
    BY <1>4 DEF BecomeSlave
  <2>3. got \in Seq(Answers) BY <1>3, <2>2
  <2> HIDE DEF got, b
  <2>4. r \in BrokerSet /\ r.role = "slave" /\ r.pc = "entering"
    <3>1. o.agent \in BOOLEAN BY <1>0 DEF BrokerSet
    <3> QED BY <1>0, <2>3, <3>1 DEF BrokerSet, Pcs, Roles
  <2> HIDE DEF r
  <2>5. ~Claims(r) BY <2>4 DEF Claims
  <2>6. \A q \in Procs : Claims(br'[q]) => Claims(br[q]) BY <1>1, <2>1, <2>2, <2>4, <2>5
  <2> QED BY <2>2, <2>6, NoNewClaim
<1>5. CASE Handshake(p)
  <2> DEFINE got == Tail(o.got)
             r == [o EXCEPT !.got = got, !.pc = "handshake"]
             b == [Read(p) EXCEPT ![p].pc = "handshake"]
  <2>1. b = [br EXCEPT ![p] = r] BY <1>0 DEF Read, BrokerSet
  <2>2. br' = Tell(b, p, <<<<"handshake">>>>) /\ Heard(p) /\ UNCHANGED <<file, robbed>>
    BY <1>5 DEF Handshake
  <2>3. got \in Seq(Answers) BY <1>3, <2>2
  <2> HIDE DEF got, b
  <2>4. r \in BrokerSet /\ r.role = o.role /\ r.pc = "handshake"
    BY <1>0, <2>3 DEF BrokerSet, Pcs
  <2> HIDE DEF r
  <2>5. ~Claims(r) BY <1>3, <2>2, <2>4 DEF Claims
  <2>6. \A q \in Procs : Claims(br'[q]) => Claims(br[q]) BY <1>1, <2>1, <2>2, <2>4, <2>5
  <2> QED BY <2>2, <2>6, NoNewClaim
<1>6. CASE HandshakeDone(p)
  <2> DEFINE got == Tail(o.got)
             v == Head(o.got)[2]
             r == [o EXCEPT !.got = got, !.pc = "up", !.shared = v, !.listed = FALSE]
             b == [Read(p) EXCEPT ![p].pc = "up", ![p].shared = v, ![p].listed = FALSE]
             msgs == IF o.listed THEN <<<<"register">>>> ELSE <<>>
  <2>1. b = [br EXCEPT ![p] = r] BY <1>0 DEF Read, BrokerSet
  <2>2. br' = Tell(b, p, msgs) /\ Heard(p) /\ Head(o.got)[1] = "items"
        /\ UNCHANGED <<file, robbed>>
    BY <1>6 DEF HandshakeDone
  <2>3. got \in Seq(Answers) /\ v \in 0..MaxCalls BY <1>3, <2>2, AnswersKinds
  <2> HIDE DEF got, v, b, msgs
  <2>4. r \in BrokerSet /\ r.role = o.role /\ r.pc = "up"
    BY <1>0, <2>3 DEF BrokerSet, Pcs
  <2> HIDE DEF r
  <2>5. ~Claims(r) BY <1>3, <2>2, <2>4 DEF Claims
  <2>6. \A q \in Procs : Claims(br'[q]) => Claims(br[q]) BY <1>1, <2>1, <2>2, <2>4, <2>5
  <2> QED BY <2>2, <2>6, NoNewClaim
<1>7. CASE Updated(p)
  <2> DEFINE got == Tail(o.got)
             v == Head(o.got)[2]
             r == [o EXCEPT !.got = got, !.shared = v]
  <2>1. br' = [br EXCEPT ![p] = r] /\ UNCHANGED <<file, robbed>>
    BY <1>0, <1>7 DEF Updated, Read, BrokerSet
  <2> HIDE DEF got, v
  <2>2. r.role = o.role /\ r.pc = o.pc BY <1>0 DEF BrokerSet
  <2> HIDE DEF r
  <2>3. \A q \in Procs : Claims(br'[q]) => Claims(br[q]) BY <1>2, <2>1, <2>2 DEF Claims
  <2> QED BY <2>1, <2>3, NoNewClaim
<1>8. CASE Serve(p)
  <2> DEFINE sent == Tail(o.sent)
             x == Head(o.sent)
             m == o.master
             r == [o EXCEPT !.sent = sent]
             b == [br EXCEPT ![p].sent = Tail(@)]
  <2>1. /\ br' = Handled(b, m, p, x) /\ o.sent # <<>> /\ m # NoProc /\ UNCHANGED <<file, robbed>>
    BY <1>8 DEF Serve
  <2>2. sent \in Seq(Told) /\ x \in Told /\ m \in Procs
    <3>1. o.sent \in Seq(Told) /\ m \in Procs BY <1>0, <2>1 DEF BrokerSet
    <3> QED BY <2>1, <3>1, Tails
  <2>3. b = [br EXCEPT ![p] = r] BY <1>0
  <2> HIDE DEF sent, x, b
  <2>4. r \in BrokerSet /\ r.role = o.role /\ r.pc = o.pc BY <1>0, <2>2 DEF BrokerSet
  <2> HIDE DEF r
  <2>5. b \in [Procs -> BrokerSet] /\ \A q \in Procs : b[q].role = br[q].role /\ b[q].pc = br[q].pc
    BY <1>0, <2>3, <2>4
  <2> HIDE DEF m
  <2>6. \A q \in Procs : br'[q].role = b[q].role /\ br'[q].pc = b[q].pc
    BY <2>1, <2>2, <2>5, HandledRoles
  <2>7. \A q \in Procs : Claims(br'[q]) => Claims(br[q]) BY <2>5, <2>6 DEF Claims
  <2> QED BY <2>1, <2>7, NoNewClaim
<1>9. ASSUME NEW agent \in BOOLEAN, NEW b, b = [br EXCEPT ![p].agent = agent],
             NEW msgs, br' = b \/ br' = Tell(b, p, msgs), UNCHANGED <<file, robbed>>
      PROVE  FileInv'
  <2> DEFINE r == [o EXCEPT !.agent = agent]
  <2>1. b = [br EXCEPT ![p] = r] BY <1>9
  <2>2. r \in BrokerSet /\ r.role = o.role /\ r.pc = o.pc BY <1>0 DEF BrokerSet
  <2> HIDE DEF r
  <2>3. Claims(r) => Claims(o) BY <2>2 DEF Claims
  <2>4. br' = b => \A q \in Procs : Claims(br'[q]) => Claims(br[q]) BY <1>2, <2>1, <2>3
  <2>5. br' = Tell(b, p, msgs) => \A q \in Procs : Claims(br'[q]) => Claims(br[q])
    BY <1>1, <2>1, <2>2, <2>3
  <2> QED BY <1>9, <2>4, <2>5, NoNewClaim
<1>10. CASE RegisterAgent(p)
  <2> DEFINE b == [br EXCEPT ![p].agent = TRUE]
             msgs == <<<<"register">>>>
  <2>1. (br' = b \/ br' = Tell(b, p, msgs)) /\ UNCHANGED <<file, robbed>>
    BY <1>10 DEF RegisterAgent
  <2>2. b = [br EXCEPT ![p].agent = TRUE] OBVIOUS
  <2> HIDE DEF b, msgs
  <2> QED BY <1>9, <2>1, <2>2
<1>11. CASE UnregisterAgent(p)
  <2> DEFINE b == [br EXCEPT ![p].agent = FALSE]
             msgs == <<<<"unregister">>>>
  <2>1. (br' = b \/ br' = Tell(b, p, msgs)) /\ UNCHANGED <<file, robbed>>
    BY <1>11 DEF UnregisterAgent
  <2>2. b = [br EXCEPT ![p].agent = FALSE] OBVIOUS
  <2> HIDE DEF b, msgs
  <2> QED BY <1>9, <2>1, <2>2
<1>12. CASE SetItem(p)
  <2> DEFINE v == n.calls + 1
             msgs == <<<<"set", v>>>>
             r == [o EXCEPT !.shared = v]
             b == [br EXCEPT ![p].shared = v]
  <2>1. v \in 0..MaxCalls
    <3>1. n.calls \in 0..MaxCalls /\ n.calls < MaxCalls BY <1>12 DEF CountInv, SetItem
    <3> QED BY <3>1, BoundsAssumption
  <2>2. (br' = b \/ br' = Tell(b, p, msgs) \/ br' = Broadcast(b, p, v, p))
        /\ UNCHANGED <<file, robbed>>
    BY <1>12 DEF SetItem
  <2>3. b = [br EXCEPT ![p] = r] BY <1>0
  <2> HIDE DEF v, msgs, b
  <2>4. r \in BrokerSet /\ r.role = o.role /\ r.pc = o.pc BY <1>0, <2>1 DEF BrokerSet
  <2> HIDE DEF r
  <2>5. Claims(r) => Claims(o) BY <2>4 DEF Claims
  <2>6. CASE br' = b \/ br' = Tell(b, p, msgs)
    <3>1. \A q \in Procs : Claims(br'[q]) => Claims(br[q]) BY <1>1, <1>2, <2>3, <2>4, <2>5, <2>6
    <3> QED BY <2>2, <3>1, NoNewClaim
  <2>7. CASE br' = Broadcast(b, p, v, p)
    <3>1. b \in [Procs -> BrokerSet] /\ \A q \in Procs : b[q].role = br[q].role /\ b[q].pc = br[q].pc
      BY <1>0, <2>3, <2>4
    <3>2. \A q \in Procs : br'[q].role = b[q].role /\ br'[q].pc = b[q].pc
      BY ONLY p \in Procs, <2>7, <3>1, BroadcastRoles
    <3>3. \A q \in Procs : Claims(br'[q]) => Claims(br[q]) BY <3>1, <3>2 DEF Claims
    <3> QED BY <2>2, <3>3, NoNewClaim
  <2> QED BY <2>2, <2>6, <2>7
<1> QED BY <1>4, <1>5, <1>6, <1>7, <1>8, <1>10, <1>11, <1>12

-----------------------------------------------------------------------------
(* The invariant *)

LEMMA CountKeeps ==
  ASSUME CountInv, Next
  PROVE  CountInv'
<1>1. PICK p \in Procs :
        \/ n' = n
        \/ n' = [n EXCEPT !.starts = @ + 1]
        \/ n' = [n EXCEPT !.stops = @ + 1]
        \/ n' = [n EXCEPT !.calls = @ + 1] /\ n.calls < MaxCalls
  BY DEF Next, Start, Bind, BecomeMaster, Connect, Unlink, BecomeSlave, Handshake,
         HandshakeDone, Updated, ConnectionLost, Serve, RemoveSlave, RegisterAgent,
         UnregisterAgent, SetItem, Crash, Disconnect
<1>2. n.calls < MaxCalls => n.calls + 1 \in 0..MaxCalls BY BoundsAssumption DEF CountInv
<1> QED BY <1>1, <1>2 DEF CountInv

LEMMA InitHolds == Init => Inv
<1> SUFFICES ASSUME Init PROVE Inv
  OBVIOUS
<1>1. br \in [Procs -> BrokerSet] /\ \A p \in Procs : br[p] = Fresh
  <2> DEFINE f == Fresh
  <2>1. f \in BrokerSet BY FreshDown
  <2>2. br = [p \in Procs |-> f] BY DEF Init
  <2> HIDE DEF f
  <2>3. br \in [Procs -> BrokerSet] /\ \A p \in Procs : br[p] = f BY <2>1, <2>2
  <2> QED BY <2>3 DEF f
<1>2. BrokersInv
  <2>1. \A p \in Procs : Shape(br[p]) /\ br[p].master = NoProc /\ br[p].slaves = {}
    BY <1>1, FreshDown
  <2> QED BY <1>1, <2>1 DEF BrokersInv, Linked
<1>3. FileInv
  <2>1. \A p \in Procs : br[p].role = "disconnected" /\ br[p].pc = "down" BY <1>1, FreshDown
  <2> QED BY <2>1 DEF FileInv, Init
<1>4. CountInv BY BoundsAssumption DEF CountInv, Init
<1> QED BY <1>2, <1>3, <1>4 DEF Inv

LEMMA StepKeeps == Inv /\ [Next]_vars => Inv'
<1> SUFFICES ASSUME Inv, [Next]_vars PROVE Inv'
  OBVIOUS
<1>0. BrokersInv /\ FileInv /\ CountInv BY DEF Inv
<1>1. CASE UNCHANGED vars
  BY <1>0, <1>1 DEF vars, Inv, BrokersInv, FileInv, CountInv, Linked, Link, Talk, Shares, Tracks
<1>2. CASE Next
  <2>1. CountInv' BY <1>0, <1>2, CountKeeps
  <2>2. PICK p \in Procs :
          \/ Start(p) \/ Bind(p) \/ BecomeMaster(p) \/ Connect(p) \/ Unlink(p)
          \/ BecomeSlave(p) \/ Handshake(p) \/ HandshakeDone(p) \/ Updated(p) \/ ConnectionLost(p)
          \/ Serve(p) \/ RemoveSlave(p)
          \/ RegisterAgent(p) \/ UnregisterAgent(p) \/ SetItem(p)
          \/ Crash(p) \/ Disconnect(p)
    BY <1>2 DEF Next
  <2>3. BrokersInv'
    <3>1. CASE Start(p) \/ Bind(p) \/ BecomeMaster(p) \/ Connect(p) \/ Unlink(p) \/ ConnectionLost(p)
      BY <1>0, <3>1, ConnectingKeeps
    <3>2. CASE BecomeSlave(p) BY <1>0, <3>2, BecomeSlaveKeeps
    <3>3. CASE Handshake(p) BY <1>0, <3>3, HandshakeKeeps
    <3>4. CASE HandshakeDone(p) BY <1>0, <3>4, HandshakeDoneKeeps
    <3>5. CASE Updated(p) BY <1>0, <3>5, UpdatedKeeps
    <3>6. CASE Serve(p) BY <1>0, <3>6, ServeKeeps
    <3>7. CASE RemoveSlave(p) BY <1>0, <3>7, RemoveSlaveKeeps
    <3>8. CASE RegisterAgent(p) \/ UnregisterAgent(p) BY <1>0, <3>8, AgentCallsKeep
    <3>9. CASE SetItem(p) BY <1>0, <3>9, SetItemKeeps
    <3>10. CASE Crash(p) BY <1>0, <3>10, GoneKeeps DEF Crash
    <3>11. CASE Disconnect(p)
      <4>1. Alive(p) BY <1>0, <3>11, OfBrokersInv DEF Disconnect, Alive, Shape
      <4> QED BY <1>0, <3>11, <4>1, GoneKeeps DEF Disconnect
    <3> QED BY <2>2, <3>1, <3>2, <3>3, <3>4, <3>5, <3>6, <3>7, <3>8, <3>9, <3>10, <3>11
  <2>4. FileInv'
    <3>1. CASE \/ Start(p) \/ Bind(p) \/ BecomeMaster(p) \/ Connect(p) \/ Unlink(p)
               \/ ConnectionLost(p) \/ RemoveSlave(p) \/ Crash(p) \/ Disconnect(p)
      BY <1>0, <3>1, SocketKeeps
    <3>2. CASE \/ BecomeSlave(p) \/ Handshake(p) \/ HandshakeDone(p) \/ Updated(p) \/ Serve(p)
               \/ RegisterAgent(p) \/ UnregisterAgent(p) \/ SetItem(p)
      BY <1>0, <3>2, SlavesKeepSocket
    <3> QED BY <2>2, <3>1, <3>2
  <2> QED BY <2>1, <2>3, <2>4 DEF Inv
<1> QED BY <1>1, <1>2

(* Every step of initiate_broker(), disconnect(), register_agent(),        *)
(* append_slave() and remove_slave(), the updates of the shared state and  *)
(* the crash of a process keep the invariant: each connection of a slave   *)
(* is one conversation with the master it has reached.                     *)
THEOREM Conversation == Spec => []Inv
<1>1. Init => Inv BY InitHolds
<1>2. Inv /\ [Next]_vars => Inv' BY StepKeeps
<1> QED BY <1>1, <1>2, PTL DEF Spec

(* Whatever order the processes start, crash, connect and call in, the     *)
(* socket file leads to the one master, unless remove_stale_socket() has   *)
(* removed the socket of a running agency, and a slave that has heard      *)
(* every update has the shared state of its master - even when agents      *)
(* start and stop while the broker connects.                               *)
THEOREM SharedState == Spec => [](TypeOK /\ MasterHasTheSocket /\ Converged)
<1>1. Inv => TypeOK /\ MasterHasTheSocket /\ Converged BY InvIsTyped, InvIsSocket, InvConverges
<1> QED BY <1>1, Conversation, PTL

(* If agents start and stop only when the broker has its role, so that     *)
(* register_agent() finds a connection, the master also has each connected *)
(* slave among its slaves and knows exactly the agents that it runs.       *)
THEOREM Agreement == "hasty" \notin Habits => (Spec => []AgenciesAgree)
<1> SUFFICES ASSUME "hasty" \notin Habits PROVE Spec => []AgenciesAgree
  OBVIOUS
<1>1. Inv => AgenciesAgree
  BY InvIsTyped, InvIsSocket, InvConverges, InvTracks DEF AgenciesAgree
<1> QED BY <1>1, Conversation, PTL
=================================================================================
