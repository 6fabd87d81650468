------------------------------- MODULE Descriptor -------------------------------
(***************************************************************************)
(* The descriptor of an agent: the document that an agent's instance keeps *)
(* a copy of and changes through a queue of updates, saved one at a time   *)
(* (agencies/agency.py), while other instances of the same agent may have  *)
(* been started elsewhere.  The database (external) takes a document only  *)
(* if it was made from the current revision; it tells everyone who listens *)
(* about each change, and an instance that sees a change it has not made   *)
(* terminates itself (database/client.py).                                 *)
(*                                                                         *)
(* The contents of a document are the updates it is made of: its revision  *)
(* is their number.  A request may be lost, refused, or taken without the  *)
(* instance knowing, also long after the instance gave it up or crashed.   *)
(***************************************************************************)
EXTENDS Naturals, Sequences

CONSTANTS
  Instances,    \* the instances of the agent that are started, anywhere
  MaxUpdates,   \* bound: updates issued by one instance, its lock included
  Writers,      \* bound: the instances that update more than their lock
  Events        \* what may happen: requests may fail, instances may crash
                \* or be told to terminate

ASSUME MaxUpdatesAssumption == MaxUpdates \in Nat
ASSUME EventsAssumption == Events \subseteq {"failure", "crash", "terminate"}

VARIABLES
  db,      \* the document in the database
  stray,   \* requests nobody waits for any more and the database may still take
  inst,    \* the instances (AgencyAgent)
  done,    \* updates reported as saved
  lost,    \* history: instances with a request that failed
  alarm    \* history: instances that took their own change for a foreign one

vars == <<db, stray, inst, done, lost, alarm>>

-----------------------------------------------------------------------------
(* "lock" is the update of _store_instance_id(), "delete" the deletion.    *)
Kinds == {"lock", "set", "delete"}
Update(i, n, kind) == [by |-> i, n |-> n, kind |-> kind]
Updates == [by : Instances, n : 1..MaxUpdates + 1, kind : Kinds]

(* A request to save the document base with one more update. *)
Stages == {"sent", "stored", "conflict"}
Request(base, u) == [base |-> base, u |-> u, stage |-> "sent"]
NoRequest == [stage |-> "none"]
InFlight == [base : Seq(Updates), u : Updates, stage : Stages]

Boots == {"new", "loaded", "listening", "locking", "booted", "failed"}
Lives == {"up", "hard", "gentle", "killed", "terminated", "crashed"}

(* next and doom are delayed calls of _next_update() and terminate_hard(). *)
InstanceSet ==
  [boot : Boots, life : Lives, desc : Seq(Updates), queue : Seq(Updates),
   issued : 0..MaxUpdates, save : InFlight \cup {NoRequest}, del : InFlight \cup {NoRequest},
   next : BOOLEAN, doom : BOOLEAN, listening : BOOLEAN,
   notes : SUBSET Nat, buffer : SUBSET Nat]

NewInstance ==
  [boot |-> "new", life |-> "up", desc |-> <<>>, queue |-> <<>>, issued |-> 0,
   save |-> NoRequest, del |-> NoRequest, next |-> FALSE, doom |-> FALSE,
   listening |-> FALSE, notes |-> {}, buffer |-> {}]

Deleted == db # <<>> /\ db[Len(db)].kind = "delete"

(* terminate_hard() returns at once if the instance is already terminating. *)
TerminateHard(p) == [p EXCEPT !.life = IF @ = "up" THEN "hard" ELSE @]

(* RevisionAnalytic: revisions are weighed against the last known one, once *)
(* no request of the connection is in flight.                              *)
Locked(p) == p.save # NoRequest \/ p.del # NoRequest
Foreign(p, revs) == \E r \in revs : r > Len(p.desc)
ProcessChange(p, revs) == IF Foreign(p, revs) THEN TerminateHard(p) ELSE p
(* Mutant: the changes that were heard while locked are forgotten. *)
UnlockedForgets(p) == IF Locked(p) THEN p ELSE [p EXCEPT !.buffer = {}]

Unlocked(p) ==
  IF Locked(p) THEN p ELSE ProcessChange([p EXCEPT !.buffer = {}], p.buffer)
FalseAlarm(i, p, revs) ==
  {j \in {i} : /\ ~Locked(p) /\ p.life = "up" /\ Foreign(p, revs)
               /\ \A r \in revs : r > Len(p.desc) => db[r].by = i}

(* Mutant: the update stays in the queue. *)
NextUpdateAgain(p) ==
  IF p.save # NoRequest \/ p.queue = <<>> THEN {p}
  ELSE {[p EXCEPT !.save = Request(p.desc, Head(p.queue))]}

(* _next_update(): the update is called on a copy and may raise. *)
NextUpdate(p) ==
  IF p.save # NoRequest \/ p.queue = <<>> THEN {p}
  ELSE LET u == Head(p.queue)
           q == [p EXCEPT !.queue = Tail(@)]
       IN  {[q EXCEPT !.save = Request(p.desc, u)]}
             \cup IF u.kind = "set" THEN {[q EXCEPT !.next = TRUE]} ELSE {}

Enqueue(i, p, kind) ==
  NextUpdate([p EXCEPT !.queue = Append(@, Update(i, p.issued + 1, kind)),
                       !.issued = @ + 1])

-----------------------------------------------------------------------------
(* Starting: initiate() *)

ReloadDescriptor(i) ==
  /\ inst[i].boot = "new" /\ inst[i].life = "up" /\ ~Deleted
  /\ inst' = [inst EXCEPT ![i].boot = "loaded", ![i].desc = db]
  /\ UNCHANGED <<db, stray, done, lost, alarm>>

Subscribe(i) ==
  /\ inst[i].boot = "loaded" /\ inst[i].life # "crashed"
  /\ inst' = [inst EXCEPT ![i].boot = "listening", ![i].listening = TRUE]
  /\ UNCHANGED <<db, stray, done, lost, alarm>>

(* The chain of callbacks goes on even if terminate_hard() has been called. *)
StoreInstanceId(i) ==
  /\ inst[i].boot = "listening" /\ inst[i].life # "crashed"
  /\ inst[i].issued < MaxUpdates
  /\ \E p \in Enqueue(i, [inst[i] EXCEPT !.boot = "locking"], "lock") :
       inst' = [inst EXCEPT ![i] = p]
  /\ UNCHANGED <<db, stray, done, lost, alarm>>

-----------------------------------------------------------------------------
(* Updates *)

UpdateDescriptor(i) ==
  /\ inst[i].boot = "booted" /\ inst[i].life # "crashed"
  /\ inst[i].issued < MaxUpdates /\ i \in Writers
  /\ \E p \in Enqueue(i, inst[i], "set") : inst' = [inst EXCEPT ![i] = p]
  /\ UNCHANGED <<db, stray, done, lost, alarm>>

CallNextUpdate(i) ==
  /\ inst[i].next /\ inst[i].life # "crashed"
  /\ \E p \in NextUpdate([inst[i] EXCEPT !.next = FALSE]) : inst' = [inst EXCEPT ![i] = p]
  /\ UNCHANGED <<db, stray, done, lost, alarm>>

(* Mutant: the next update is not called. *)
EndSaveOnly(p, ok) ==
  [p EXCEPT !.save = NoRequest,
            !.boot = IF p.save.u.kind # "lock" THEN @ ELSE IF ok THEN "booted" ELSE "failed"]

(* The end of save_document(): the next update is started by a later call. *)
EndSave(p, ok) ==
  [p EXCEPT !.save = NoRequest, !.next = TRUE,
            !.boot = IF p.save.u.kind # "lock" THEN @ ELSE IF ok THEN "booted" ELSE "failed"]

Saved(i) ==
  LET q == inst[i].save
      p == EndSave([inst[i] EXCEPT !.desc = Append(q.base, q.u)], TRUE)
  IN  /\ q.stage = "stored" /\ inst[i].life # "crashed"
      /\ inst' = [inst EXCEPT ![i] = Unlocked(p)]
      /\ done' = done \cup {q.u}
      /\ alarm' = alarm \cup FalseAlarm(i, p, p.buffer)
      /\ UNCHANGED <<db, stray, lost>>

(* Mutant: the document is reloaded and the update is tried again. *)
SaveConflictsRetried(i) ==
  /\ inst[i].save.stage = "conflict" /\ inst[i].life # "crashed"
  /\ inst' = [inst EXCEPT ![i].desc = db, ![i].save = Request(db, inst[i].save.u)]
  /\ UNCHANGED <<db, stray, done, lost, alarm>>

SaveConflicts(i) ==
  LET p == EndSave([inst[i] EXCEPT !.doom = TRUE], FALSE)
  IN  /\ inst[i].save.stage = "conflict" /\ inst[i].life # "crashed"
      /\ inst' = [inst EXCEPT ![i] = Unlocked(p)]
      /\ alarm' = alarm \cup FalseAlarm(i, p, p.buffer)
      /\ UNCHANGED <<db, stray, done, lost>>

(* Mutant: a request that was never made is abandoned. *)
AbandonAny(q) == {q}

(* The connection is lost: the database may have stored the document, or   *)
(* may yet do so.                                                          *)
Abandon(q) == IF q.stage = "sent" THEN {q} ELSE {}

(* Mutant: the error is not passed on. *)
SaveFailsSilently(i) ==
  /\ "failure" \in Events
  /\ inst[i].save.stage \in {"sent", "stored"} /\ inst[i].life # "crashed"
  /\ inst' = [inst EXCEPT ![i] = Unlocked(EndSave(@, TRUE))]
  /\ stray' = stray \cup Abandon(inst[i].save)
  /\ done' = done \cup {inst[i].save.u}
  /\ UNCHANGED <<db, lost, alarm>>

SaveFails(i) ==
  /\ "failure" \in Events
  /\ inst[i].save.stage \in {"sent", "stored"} /\ inst[i].life # "crashed"
  /\ inst' = [inst EXCEPT ![i] = Unlocked(EndSave(@, FALSE))]
  /\ stray' = stray \cup Abandon(inst[i].save)
  /\ lost' = lost \cup {i}
  /\ UNCHANGED <<db, done, alarm>>

-----------------------------------------------------------------------------
(* Termination *)

CallTerminateHard(i) ==
  /\ inst[i].doom /\ inst[i].life # "crashed"
  /\ inst' = [inst EXCEPT ![i] = TerminateHard([@ EXCEPT !.doom = FALSE])]
  /\ UNCHANGED <<db, stray, done, lost, alarm>>

(* terminate(), also by _startup_error(). *)
Terminate(i) ==
  /\ inst[i].boot = "failed" \/ (inst[i].boot = "booted" /\ "terminate" \in Events)
  /\ inst[i].life = "up"
  /\ inst' = [inst EXCEPT ![i].life = "gentle"]
  /\ UNCHANGED <<db, stray, done, lost, alarm>>

CancelDelayedCalls(i) ==
  /\ inst[i].life \in {"hard", "gentle"} /\ inst[i].del = NoRequest
  /\ inst' = [inst EXCEPT ![i].next = FALSE, ![i].doom = FALSE]
  /\ UNCHANGED <<db, stray, done, lost, alarm>>

(* After shutdown_agent(): nobody waits for the updates to end. *)
DeleteDescriptor(i) ==
  /\ inst[i].life = "gentle" /\ inst[i].del = NoRequest
  /\ inst' = [inst EXCEPT ![i].del =
                Request(inst[i].desc, Update(i, MaxUpdates + 1, "delete"))]
  /\ UNCHANGED <<db, stray, done, lost, alarm>>

(* The rest of _terminate_procedure(). *)
End(p) == [p EXCEPT !.life = IF @ = "gentle" THEN "terminated" ELSE "killed", !.listening = FALSE, !.notes = {}]

(* The copy has the revision of the deletion from now on. *)
DescriptorDeleted(i) ==
  /\ inst[i].del.stage = "stored" /\ inst[i].life = "gentle"
  /\ inst' = [inst EXCEPT ![i] =
                End(Unlocked([@ EXCEPT !.desc = Append(inst[i].del.base, inst[i].del.u),
                                       !.del = NoRequest]))]
  /\ UNCHANGED <<db, stray, done, lost, alarm>>

DeleteFails(i) ==
  /\ inst[i].life = "gentle" /\ inst[i].del.stage \in Stages
  /\ inst[i].del.stage = "conflict" \/ "failure" \in Events
  /\ inst' = [inst EXCEPT ![i] = End(Unlocked([@ EXCEPT !.del = NoRequest]))]
  /\ stray' = stray \cup Abandon(inst[i].del)
  /\ lost' = IF inst[i].del.stage = "conflict" THEN lost ELSE lost \cup {i}
  /\ UNCHANGED <<db, done, alarm>>

HardEnds(i) ==
  /\ inst[i].life = "hard"
  /\ inst' = [inst EXCEPT ![i] = End(@)]
  /\ UNCHANGED <<db, stray, done, lost, alarm>>

Crash(i) ==
  /\ "crash" \in Events /\ inst[i].life # "crashed"
  /\ stray' = stray \cup Abandon(inst[i].save) \cup Abandon(inst[i].del)
  /\ inst' = [inst EXCEPT ![i] = [NewInstance EXCEPT !.boot = "failed", !.life = "crashed"]]
  /\ UNCHANGED <<db, done, lost, alarm>>

-----------------------------------------------------------------------------
(* The database *)

Current(q) == Len(q.base) = Len(db)

(* Everybody who listens hears of the change. *)
Notify(to) ==
  [j \in Instances |->
     IF to[j].listening THEN [to[j] EXCEPT !.notes = @ \cup {Len(db) + 1}] ELSE to[j]]

StoreSave(i) ==
  LET q == inst[i].save
  IN  /\ q.stage = "sent"
      /\ IF Current(q)
         THEN /\ db' = Append(q.base, q.u)
              /\ inst' = Notify([inst EXCEPT ![i].save.stage = "stored"])
         ELSE /\ inst' = [inst EXCEPT ![i].save.stage = "conflict"]
              /\ UNCHANGED db
      /\ UNCHANGED <<stray, done, lost, alarm>>

StoreDelete(i) ==
  LET q == inst[i].del
  IN  /\ q.stage = "sent"
      /\ IF Current(q)
         THEN /\ db' = Append(q.base, q.u)
              /\ inst' = Notify([inst EXCEPT ![i].del.stage = "stored"])
         ELSE /\ inst' = [inst EXCEPT ![i].del.stage = "conflict"]
              /\ UNCHANGED db
      /\ UNCHANGED <<stray, done, lost, alarm>>

StoreStray(q) ==
  /\ stray' = stray \ {q}
  /\ IF Current(q)
     THEN db' = Append(q.base, q.u) /\ inst' = Notify(inst)
     ELSE UNCHANGED <<db, inst>>
  /\ UNCHANGED <<done, lost, alarm>>

(* Mutant: a change is judged while a request is in flight. *)
OnChangeAtOnce(i, r) ==
  LET p == [inst[i] EXCEPT !.notes = @ \ {r}]
  IN  /\ inst' = [inst EXCEPT ![i] = ProcessChange(p, {r})]
      /\ alarm' = alarm \cup {j \in {i} : p.life = "up" /\ Foreign(p, {r}) /\ db[r].by = i}
      /\ UNCHANGED <<db, stray, done, lost>>

OnChange(i, r) ==
  LET p == [inst[i] EXCEPT !.notes = @ \ {r}]
  IN  /\ inst' = [inst EXCEPT ![i] = IF Locked(p) THEN [p EXCEPT !.buffer = @ \cup {r}]
                                     ELSE ProcessChange(p, {r})]
      /\ alarm' = alarm \cup FalseAlarm(i, p, {r})
      /\ UNCHANGED <<db, stray, done, lost>>

-----------------------------------------------------------------------------
Init ==
  /\ db = <<>> /\ stray = {}
  /\ inst = [i \in Instances |-> NewInstance]
  /\ done = {} /\ lost = {} /\ alarm = {}

Answer(i) ==
  \/ Saved(i) \/ SaveConflicts(i) \/ SaveFails(i)
  \/ DescriptorDeleted(i) \/ DeleteFails(i)

InstanceNext(i) ==
  \/ ReloadDescriptor(i) \/ Subscribe(i) \/ StoreInstanceId(i)
  \/ UpdateDescriptor(i) \/ CallNextUpdate(i) \/ Answer(i)
  \/ CallTerminateHard(i) \/ Terminate(i) \/ CancelDelayedCalls(i)
  \/ DeleteDescriptor(i) \/ HardEnds(i) \/ Crash(i)
  \/ StoreSave(i) \/ StoreDelete(i)
  \/ \E r \in inst[i].notes : OnChange(i, r)

Next ==
  \/ \E i \in Instances : InstanceNext(i)
  \/ \E q \in stray : StoreStray(q)

Spec == Init /\ [][Next]_vars

(* The instances, the document and the requests have their types. *)
TypeOK ==
  /\ db \in Seq(Updates) /\ stray \subseteq InFlight
  /\ inst \in [Instances -> InstanceSet]
  /\ done \subseteq Updates
  /\ lost \subseteq Instances /\ alarm \subseteq Instances

-----------------------------------------------------------------------------
(* What update_descriptor() has reported as saved is in the document, and  *)
(* stays there whatever other instances, late requests and crashes do.     *)
NoLostUpdate == \A u \in done : \E k \in 1..Len(db) : db[k] = u

(* The updates of an instance take effect in the order in which they were  *)
(* issued, each at most once.                                              *)
InOrder ==
  \A j, k \in 1..Len(db) :
    j < k /\ db[j].by = db[k].by /\ db[j].kind # "delete" => db[j].n < db[k].n

(* _store_instance_id(): "this effectively creates a lock on the           *)
(* descriptor".  Once another instance has written, an instance never      *)
(* writes again.                                                           *)
OneOwner ==
  \A j, k \in 1..Len(db) :
    j < k /\ db[j].by = db[k].by => \A m \in j..k : db[m].by = db[j].by

(* An instance kills itself for a change only if somebody else made it, or *)
(* if it was told that its own request had failed.                         *)
NoFalseAlarm == alarm \subseteq lost

-----------------------------------------------------------------------------
(* The reactor runs delayed calls, the database answers, and the changes   *)
(* feed delivers.                                                          *)
Fairness ==
  \A i \in Instances :
    /\ WF_vars(CallNextUpdate(i))
    /\ WF_vars(StoreSave(i))
    /\ WF_vars(Answer(i))
    /\ WF_vars(CallTerminateHard(i))
    /\ WF_vars(\E r \in inst[i].notes : OnChange(i, r))

FairSpec == Spec /\ Fairness

Pending(i) == inst[i].queue # <<>> \/ inst[i].save # NoRequest

(* Every update is answered unless the instance is terminated. *)
UpdatesAnswered == \A i \in Instances : Pending(i) ~> ~Pending(i) \/ inst[i].life # "up"

(* An instance that is no longer the owner of the descriptor terminates.   *)
StaleEnds ==
  \A i \in Instances :
    inst[i].boot = "booted" /\ Len(db) > Len(inst[i].desc) /\ db[Len(db)].by # i
      ~> inst[i].life # "up"

-----------------------------------------------------------------------------
(* agencies/agency.py, _terminate(): "Shutdown agent gently removing the   *)
(* descriptor and notifying partners."                                     *)
RemovedWhenTerminated == \A i \in Instances : inst[i].life = "terminated" => Deleted

(* interface/agent.py:164: "The returned deferred is fired with the        *)
(* callable result."  _cancel_all_delayed_calls() also cancels the call    *)
(* that would start the next update, so one that waits behind the update   *)
(* in flight when the agent terminates is never answered.                  *)
EveryUpdateAnswered == \A i \in Instances : Pending(i) ~> ~Pending(i)
=============================================================================
