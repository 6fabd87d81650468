----------------------------- MODULE RequestsProofs -----------------------------
(***************************************************************************)
(* The interest's slots and the requester's outcome, for any number of     *)
(* requests, any limit on the repliers and any failing hooks.              *)
(***************************************************************************)
EXTENDS Requests, AgencyMiddleProofs, FiniteSetTheorems

ReqMedia == MediumSet(RequesterHooks, RequestState, RequesterTimers)
RepMedia == MediumSet(ReplierHooks, RequestState, ReplierTimers)

(* A request waits in the queue only before it has a replier. *)
SlotInv ==
  /\ SlotsConserved
  /\ WaitsOnlyWhenFull
  /\ queue \subseteq taken
  /\ \A q \in queue : rep[q].state = None
  /\ \A q \in Requesters : rep[q].state # None => q \in taken
  /\ \A q \in Requesters : rep[q].state = None => rep[q] = NoMedium

(* got_reply() is queued or runs only in the state requested and without a *)
(* timer; closed() only in the state closed; nothing after finalize().     *)
OutcomeOf(p) ==
  /\ \A j \in p.jobs :
       /\ j.hook = "got_reply" => p.timer = NoTimer /\ p.state = "requested"
       /\ j.hook = "closed" => p.state = "closed"
  /\ p.final => p.jobs = {}
OutcomeInv == \A q \in Requesters : OutcomeOf(req[q])

Inv == TypeOK /\ SlotInv /\ OutcomeInv

-----------------------------------------------------------------------------
(* The repliers *)

(* What an operation of the base class does to a replier that exists. *)
Same(p, r) == r \in RepMedia /\ r.registered = p.registered /\ r.state # None

(* Every method of the base class keeps the replier in the agency's table. *)
LEMMA ReplierOps ==
  ASSUME NEW p \in RepMedia, p.state # None
  PROVE  /\ Same(p, Cleanup(p))
         /\ Same(p, Finalize(p))
         /\ Same(p, SetState(p, "closed"))
         /\ Same(p, CancelTimeout(p))
         /\ Same(p, SetTimeout(p, "closed", "finalize"))
         /\ Same(p, CallAgentSide(p, "requested", "requested"))
         /\ \A j : Same(p, DropJob(p, j)) /\ Same(p, EndJob(p, j))
         /\ \A j \in p.jobs : Same(p, StartJob(p, j)) /\ Same(p, FailJob(p, j, "wtf"))
         /\ p.timer # NoTimer => Same(p, TimeoutTarget(p))
<1> USE DEF RepMedia, Same
<1>0. "requested" \in RequestState /\ "closed" \in RequestState /\ "wtf" \in RequestState
      /\ "requested" \in ReplierHooks /\ "finalize" \in ReplierHooks
      /\ None \notin RequestState
  BY DEF RequestState, ReplierHooks, None
<1>1. Same(p, Cleanup(p))
  <2>1. Cleanup(p).registered = p.registered
    BY DEF Cleanup, MediumSet
  <2> QED BY <2>1, CleanupType
<1>2. Same(p, Finalize(p))
  <2>1. Finalize(p).registered = p.registered
    BY DEF Finalize, MediumSet
  <2> QED BY <2>1, FinalizeType
<1>3. Same(p, SetState(p, "closed"))
  <2>1. SetState(p, "closed").registered = p.registered
    BY DEF SetState, MediumSet
  <2> QED BY <1>0, <2>1, SetStateType
<1>4. Same(p, CancelTimeout(p))
  <2>1. CancelTimeout(p).registered = p.registered
    BY DEF CancelTimeout, MediumSet
  <2> QED BY <2>1, CancelTimeoutType
<1>5. Same(p, SetTimeout(p, "closed", "finalize"))
  <2>1. SetTimeout(p, "closed", "finalize").registered = p.registered
    BY DEF SetTimeout, MediumSet
  <2>2. Timer("closed", "finalize") \in ReplierTimers
    BY DEF ReplierTimers
  <2>3. /\ SetTimeout(p, "closed", "finalize") \in RepMedia
        /\ SetTimeout(p, "closed", "finalize").state = p.state
    BY <2>2, SetTimeoutType
  <2> QED BY <2>1, <2>3
<1>6. Same(p, CallAgentSide(p, "requested", "requested"))
  <2>1. CallAgentSide(p, "requested", "requested").registered = p.registered
    BY DEF CallAgentSide, AddJob, MediumSet
  <2>2. "requested" \in RequestState \cup {AnyState}
    BY <1>0
  <2>3. /\ CallAgentSide(p, "requested", "requested") \in RepMedia
        /\ CallAgentSide(p, "requested", "requested").state = p.state
    <3>1. \A h \in ReplierHooks, s \in RequestState \cup {AnyState} :
             CallAgentSide(p, h, s) \in RepMedia
      BY CallAgentSideType
    <3>2. CallAgentSide(p, "requested", "requested").state = p.state
      BY DEF CallAgentSide, AddJob, MediumSet
    <3> QED BY <1>0, <2>2, <3>1, <3>2
  <2> QED BY <2>1, <2>3
<1>7. ASSUME NEW j PROVE Same(p, DropJob(p, j)) /\ Same(p, EndJob(p, j))
  <2>1. DropJob(p, j).registered = p.registered /\ EndJob(p, j).registered = p.registered
    BY DEF DropJob, EndJob, Finalize, MediumSet
  <2> QED BY <2>1, DropJobType, EndJobType
<1>8. ASSUME NEW j \in p.jobs PROVE Same(p, StartJob(p, j)) /\ Same(p, FailJob(p, j, "wtf"))
  <2>1. StartJob(p, j).registered = p.registered
    BY DEF StartJob, DropJob, EndJob, Finalize, MediumSet
  <2>2. FailJob(p, j, "wtf").registered = p.registered
    BY DEF FailJob, SetState, DropJob, Finalize, MediumSet
  <2> QED BY <1>0, <2>1, <2>2, StartJobType, FailJobType
<1>9. ASSUME p.timer # NoTimer PROVE Same(p, TimeoutTarget(p))
  <2>1. TimeoutTarget(p).registered = p.registered
    BY DEF TimeoutTarget, AddJob, MediumSet
  <2>2. p.timer = Timer("closed", "finalize")
    BY <1>9 DEF MediumSet, ReplierTimers
  <2>3. p.timer.state = "closed" /\ p.timer.hook = "finalize"
    BY <2>2 DEF Timer
  <2>4. /\ p.timer \in ReplierTimers
        /\ p.timer.state \in RequestState \cup {AnyState}
        /\ p.timer.hook \in ReplierHooks
        /\ p.timer.state # AnyState
    BY <1>0, <2>2, <2>3 DEF AnyState, ReplierTimers
  <2>5. TimeoutTarget(p) \in RepMedia /\ TimeoutTarget(p).state = "closed"
    <3>1. TimeoutTarget(p) \in RepMedia
      BY <2>4, TimeoutTargetType
    <3>2. TimeoutTarget(p).state = "closed"
      BY <2>3, <2>4 DEF TimeoutTarget, AddJob, MediumSet
    <3> QED BY <3>1, <3>2
  <2> QED BY <2>1, <2>5 DEF None
<1> QED BY <1>1, <1>2, <1>3, <1>4, <1>5, <1>6, <1>7, <1>8, <1>9

(* A step of one replier that exists moves no slot. *)
LEMMA SlotStep ==
  ASSUME rep \in [Requesters -> RepMedia], SlotInv,
         NEW q \in Requesters, NEW r, Same(rep[q], r), rep[q].state # None,
         rep' = [rep EXCEPT ![q] = r], UNCHANGED <<taken, queue, active>>
  PROVE  rep' \in [Requesters -> RepMedia] /\ SlotInv'
<1>1. /\ rep'[q] = r
      /\ \A n \in Requesters \ {q} : rep'[n] = rep[n]
      /\ rep' \in [Requesters -> RepMedia]
  BY DEF Same
<1>2. Running' = Running
  BY <1>1 DEF Running, Same
<1>3. SlotsConserved' /\ WaitsOnlyWhenFull'
  BY <1>2 DEF SlotInv, SlotsConserved, WaitsOnlyWhenFull
<1>4. q \notin queue
  BY DEF SlotInv
<1>5. queue' \subseteq taken' /\ \A n \in queue' : rep'[n].state = None
  <2>1. queue \subseteq taken /\ \A n \in queue : rep[n].state = None
    BY DEF SlotInv
  <2>2. \A n \in queue : rep'[n] = rep[n]
    BY <1>4
  <2> QED BY <2>1, <2>2
<1>6. \A n \in Requesters : /\ rep'[n].state # None => n \in taken'
                            /\ rep'[n].state = None => rep'[n] = NoMedium
  BY <1>1 DEF SlotInv, Same
<1> QED BY <1>1, <1>3, <1>5, <1>6 DEF SlotInv

(* A request gets its replier: a registered medium in the state requested. *)
LEMMA NewReplierFacts ==
  /\ NewReplier \in RepMedia /\ NewReplier.registered /\ NewReplier.state = "requested"
  /\ NoMedium \in RepMedia /\ ~NoMedium.registered
BY DEF NewReplier, NoMedium, RepMedia, MediumSet, RequestState

(* The set that SlotsConserved counts is finite. *)
LEMMA RunningFinite ==
  IsFiniteSet(Running) /\ \A S : S \subseteq Requesters => IsFiniteSet(S)
<1>1. \A S : S \subseteq Requesters => IsFiniteSet(S)
  BY RequestersAssumption, FS_Subset
<1> QED BY <1>1 DEF Running

(* schedule_message() *)
LEMMA ScheduleKeeps ==
  ASSUME TypeOK, SlotInv, NEW q \in Requesters, ScheduleMessage(q)
  PROVE  rep' \in [Requesters -> RepMedia] /\ active' \in Nat /\ SlotInv'
<1>0. /\ rep \in [Requesters -> RepMedia] /\ active \in Nat
      /\ queue \subseteq Requesters
      /\ q \notin taken /\ taken' = taken \cup {q}
  BY DEF TypeOK, RepMedia, ScheduleMessage
<1>1. rep[q].state = None /\ rep[q] = NoMedium /\ q \notin queue
  BY <1>0 DEF SlotInv
<1>2. CASE active >= Concurrency
  <2>1. queue' = queue \cup {q} /\ UNCHANGED <<rep, active>>
    BY <1>2 DEF ScheduleMessage
  <2>2. active = Concurrency
    BY <1>0, <1>2, ConcurrencyAssumption DEF SlotInv, WaitsOnlyWhenFull
  <2>3. SlotsConserved' /\ WaitsOnlyWhenFull'
    BY <2>1, <2>2 DEF SlotInv, SlotsConserved, WaitsOnlyWhenFull, Running
  <2> QED BY <1>0, <1>1, <2>1, <2>3 DEF SlotInv
<1>3. CASE ~(active >= Concurrency)
  <2>1. /\ rep' = [rep EXCEPT ![q] = NewReplier]
        /\ active' = active + 1 /\ queue' = queue
    BY <1>3 DEF ScheduleMessage, Process
  <2>2. /\ rep'[q] = NewReplier
        /\ \A n \in Requesters \ {q} : rep'[n] = rep[n]
        /\ rep' \in [Requesters -> RepMedia]
    BY <1>0, <2>1, NewReplierFacts
  <2>3. Running' = Running \cup {q} /\ q \notin Running
    BY <1>1, <2>2, NewReplierFacts DEF Running
  <2>4. Cardinality(Running') = Cardinality(Running) + 1
    BY <2>3, RunningFinite, FS_AddElement
  <2>5. queue = {}
    BY <1>0, <1>3, ConcurrencyAssumption DEF SlotInv, WaitsOnlyWhenFull
  <2>6. SlotsConserved' /\ WaitsOnlyWhenFull'
    <3>1. SlotsConserved'
      BY <2>1, <2>4 DEF SlotInv, SlotsConserved
    <3>2. WaitsOnlyWhenFull'
      BY <1>0, <1>3, <2>1, <2>5, ConcurrencyAssumption DEF WaitsOnlyWhenFull
    <3> QED BY <3>1, <3>2
  <2>7. \A n \in Requesters : /\ rep'[n].state # None => n \in taken'
                              /\ rep'[n].state = None => rep'[n] = NoMedium
    BY <1>0, <2>2, NewReplierFacts DEF SlotInv, None
  <2> QED BY <1>0, <2>1, <2>2, <2>5, <2>6, <2>7 DEF SlotInv
<1> QED BY <1>2, <1>3

(* _message_processed() *)
LEMMA ProcessedKeeps ==
  ASSUME TypeOK, SlotInv, NEW q \in Requesters, MessageProcessed(q)
  PROVE  /\ rep' \in [Requesters -> RepMedia] /\ active' \in Nat /\ SlotInv'
         /\ queue' \subseteq Requesters /\ calls' \subseteq Requesters
<1> DEFINE r == [rep EXCEPT ![q] = Unregister(@)]
           u == Unregister(rep[q])
<1>0. /\ rep \in [Requesters -> RepMedia] /\ active \in Nat
      /\ queue \subseteq Requesters /\ calls \subseteq Requesters
      /\ rep[q].registered /\ taken' = taken
  BY DEF TypeOK, RepMedia, MessageProcessed
<1>1. rep[q].state # None /\ q \in taken /\ q \notin queue
  BY <1>0, NewReplierFacts DEF SlotInv
<1>2. u \in RepMedia /\ u.state = rep[q].state /\ ~u.registered
  <2>1. rep[q] \in RepMedia
    BY <1>0
  <2>2. ~u.registered
    BY <2>1 DEF Unregister, RepMedia, MediumSet
  <2> QED BY <2>1, <2>2, UnregisterType DEF RepMedia
<1> HIDE DEF u
<1>3. /\ r[q] = u
      /\ \A n \in Requesters \ {q} : r[n] = rep[n]
      /\ r \in [Requesters -> RepMedia]
  BY <1>0, <1>2 DEF u
<1> HIDE DEF r
<1> DEFINE Rest == Running \ {q}
<1>4. /\ q \in Running /\ IsFiniteSet(Running)
      /\ Cardinality(Rest) = Cardinality(Running) - 1
      /\ IsFiniteSet(Rest) /\ Rest \subseteq Requesters
  BY <1>0, RunningFinite, FS_RemoveElement DEF Running
<1>5. active >= 1 /\ Cardinality(Running) = active
  <2>1. Cardinality(Running) = active
    BY DEF SlotInv, SlotsConserved
  <2>2. Cardinality(Rest) \in Nat
    BY <1>4, FS_CardinalityType
  <2> QED BY <1>0, <1>4, <2>1, <2>2
<1>6. CASE /\ active' = active - 1 /\ queue' = {}
           /\ rep' = r /\ UNCHANGED calls
  <2>1. Running' = Rest
    BY <1>2, <1>3, <1>6 DEF Running
  <2>2. SlotsConserved'
    BY <1>4, <1>5, <1>6, <2>1 DEF SlotsConserved
  <2>3. WaitsOnlyWhenFull'
    BY <1>0, <1>5, <1>6, ConcurrencyAssumption DEF SlotInv, WaitsOnlyWhenFull
  <2>4. \A n \in Requesters : /\ rep'[n].state # None => n \in taken'
                              /\ rep'[n].state = None => rep'[n] = NoMedium
    BY <1>0, <1>1, <1>2, <1>3, <1>6 DEF SlotInv
  <2> QED BY <1>0, <1>3, <1>5, <1>6, <2>2, <2>3, <2>4 DEF SlotInv
<1>7. ASSUME NEW n \in queue, NEW expired \in SUBSET queue,
             queue' = queue \ (expired \cup {n}), Process(n, r), active' = active
      PROVE  /\ rep' \in [Requesters -> RepMedia] /\ active' \in Nat /\ SlotInv'
             /\ queue' \subseteq Requesters /\ calls' \subseteq Requesters
  <2>1. /\ rep' = [r EXCEPT ![n] = NewReplier] /\ calls' = calls \cup {n}
        /\ n \in Requesters /\ n # q /\ n \in taken /\ rep[n].state = None
    BY <1>0, <1>1, <1>7 DEF Process, SlotInv
  <2>2. /\ rep'[n] = NewReplier /\ rep'[q] = u
        /\ \A m \in Requesters \ {n, q} : rep'[m] = rep[m]
        /\ rep' \in [Requesters -> RepMedia]
    BY <1>3, <2>1, NewReplierFacts
  <2>3. rep[n] = NoMedium
    BY <2>1 DEF SlotInv
  <2>4. Running' = Rest \cup {n} /\ n \notin Rest
    BY <1>2, <2>1, <2>2, <2>3, NewReplierFacts DEF Running
  <2>5. Cardinality(Running') = Cardinality(Rest) + 1
    BY <1>4, <2>4, FS_AddElement
  <2>6. SlotsConserved'
    BY <1>0, <1>4, <1>5, <1>7, <2>5 DEF SlotsConserved
  <2>7. WaitsOnlyWhenFull'
    BY <1>7 DEF SlotInv, WaitsOnlyWhenFull
  <2>8. \A m \in Requesters : /\ rep'[m].state # None => m \in taken'
                              /\ rep'[m].state = None => rep'[m] = NoMedium
    BY <1>0, <1>1, <1>2, <2>1, <2>2, NewReplierFacts DEF SlotInv, None
  <2>9. queue' \subseteq taken' /\ \A m \in queue' : rep'[m].state = None
    <3>1. queue' \subseteq queue /\ n \notin queue' /\ q \notin queue'
      BY <1>1, <1>7
    <3> QED BY <1>0, <2>2, <3>1 DEF SlotInv
  <2> QED BY <1>0, <1>7, <2>1, <2>2, <2>6, <2>7, <2>8, <2>9 DEF SlotInv
<1>8. \/ /\ active' = active - 1 /\ queue' = {}
         /\ rep' = r /\ UNCHANGED calls
      \/ \E n \in queue, expired \in SUBSET queue :
            /\ n \notin expired
            /\ queue' = queue \ (expired \cup {n})
            /\ Process(n, r)
            /\ UNCHANGED active
  BY DEF MessageProcessed, r
<1>9. CASE \E n \in queue, expired \in SUBSET queue :
            /\ n \notin expired
            /\ queue' = queue \ (expired \cup {n})
            /\ Process(n, r)
            /\ UNCHANGED active
  BY <1>7, <1>9
<1> QED BY <1>6, <1>8, <1>9

(* _kill_all_protocols(): the repliers stay registered until they are      *)
(* notified, and hold their slots until then.                              *)
LEMMA KillKeeps ==
  ASSUME TypeOK, SlotInv, KillAgent
  PROVE  rep' \in [Requesters -> RepMedia] /\ SlotInv'
<1>0. /\ rep \in [Requesters -> RepMedia] /\ queue' = {}
      /\ UNCHANGED <<taken, active>>
      /\ rep' = [q \in Requesters |-> IF rep[q].registered THEN Cleanup(rep[q]) ELSE rep[q]]
  BY DEF TypeOK, RepMedia, KillAgent
<1>1. \A q \in Requesters : rep[q].registered => Same(rep[q], Cleanup(rep[q]))
  <2>1. \A q \in Requesters : rep[q].registered => rep[q].state # None
    BY NewReplierFacts DEF SlotInv
  <2> QED BY <1>0, <2>1, ReplierOps
<1>2. \A q \in Requesters : /\ rep'[q] \in RepMedia
                            /\ rep'[q].registered = rep[q].registered
                            /\ rep'[q] = rep[q] \/ (rep'[q].state # None /\ rep[q].registered)
  BY <1>0, <1>1 DEF Same
<1>3. rep' \in [Requesters -> RepMedia]
  BY <1>0, <1>2
<1>4. Running' = Running
  BY <1>2 DEF Running
<1>5. SlotsConserved' /\ WaitsOnlyWhenFull'
  BY <1>0, <1>4 DEF SlotInv, SlotsConserved, WaitsOnlyWhenFull
<1>6. \A q \in Requesters : /\ rep'[q].state # None => q \in taken'
                            /\ rep'[q].state = None => rep'[q] = NoMedium
  BY <1>0, <1>2, NewReplierFacts DEF SlotInv
<1> QED BY <1>0, <1>3, <1>5, <1>6 DEF SlotInv

(* The steps of a replier. *)
LEMMA ReplierKeeps ==
  ASSUME TypeOK, SlotInv, NEW q \in Requesters, ReplierNext(q)
  PROVE  TypeOK' /\ SlotInv' /\ UNCHANGED req
<1> DEFINE p == rep[q]
<1>0. /\ rep \in [Requesters -> RepMedia] /\ p \in RepMedia
      /\ p.state = None => p.jobs = {} /\ p.timer = NoTimer
  <2>1. p.state = None => p = NoMedium
    BY DEF SlotInv
  <2> QED BY <2>1 DEF TypeOK, RepMedia, NoMedium
<1>1. CASE ScheduleMessage(q)
  <2>1. /\ UNCHANGED <<requestVars, replies, open>>
        /\ queue' \subseteq Requesters /\ calls' \subseteq Requesters
        /\ taken' \subseteq asked'
    BY <1>1 DEF ScheduleMessage, Process, TypeOK, requestVars
  <2> QED BY <1>1, <2>1, ScheduleKeeps DEF TypeOK, RepMedia, requestVars
<1>2. CASE MessageProcessed(q)
  <2>1. UNCHANGED <<requestVars, taken, replies, open>>
    BY <1>2 DEF MessageProcessed
  <2> QED BY <1>2, <2>1, ProcessedKeeps DEF TypeOK, RepMedia, requestVars
<1>3. ASSUME NEW r, Same(p, r), p.state # None, rep' = [rep EXCEPT ![q] = r],
             UNCHANGED <<requestVars, taken, queue, active, open>>,
             replies' \in [Requesters -> 0..MaxReplies], calls' \subseteq calls
      PROVE  TypeOK' /\ SlotInv' /\ UNCHANGED req
  <2>1. rep' \in [Requesters -> RepMedia] /\ SlotInv'
    BY <1>0, <1>3, SlotStep
  <2> QED BY <1>3, <2>1 DEF TypeOK, RepMedia, requestVars
<1>4. CASE OnRequest(q)
  <2>1. /\ UNCHANGED <<requestVars, taken, replies, queue, active, open>>
        /\ calls' \subseteq calls /\ replies \in [Requesters -> 0..MaxReplies]
    BY <1>4 DEF OnRequest, TypeOK
  <2>2. CASE p.state = "requested"
    <3> DEFINE t == SetTimeout(p, "closed", "finalize")
               r == CallAgentSide(t, "requested", "requested")
    <3>1. p.state # None
      BY <2>2 DEF None
    <3>2. Same(p, t)
      BY <1>0, <3>1, ReplierOps
    <3>3. Same(t, r)
      BY <3>2, ReplierOps DEF Same
    <3>4. Same(p, r)
      BY <3>2, <3>3 DEF Same
    <3>5. rep' = [rep EXCEPT ![q] = r]
      BY <1>4, <2>2 DEF OnRequest
    <3> HIDE DEF r, p
    <3> QED BY <1>3, <2>1, <3>1, <3>4, <3>5
  <2>3. CASE p.state # "requested"
    <3>1. rep' = rep
      BY <1>0, <1>4, <2>3 DEF OnRequest
    <3> QED BY <2>1, <3>1
         DEF TypeOK, SlotInv, SlotsConserved, WaitsOnlyWhenFull, Running, requestVars
  <2> QED BY <2>2, <2>3
<1>5. CASE Reply(q)
  <2> DEFINE t == CancelTimeout(p)
             s == SetState(t, "closed")
             r == Finalize(s)
  <2>1. p.state # None
    BY <1>5 DEF Reply
  <2>2. Same(p, t)
    BY <1>0, <2>1, ReplierOps
  <2>3. Same(t, s)
    BY <2>2, ReplierOps DEF Same
  <2>4. Same(s, r)
    BY <2>3, ReplierOps DEF Same
  <2>5. Same(p, r)
    BY <2>2, <2>3, <2>4 DEF Same
  <2>6. /\ rep' = [rep EXCEPT ![q] = r]
        /\ UNCHANGED <<requestVars, taken, queue, active, open>> /\ calls' \subseteq calls
    BY <1>5 DEF Reply, interestVars
  <2>7. replies' \in [Requesters -> 0..MaxReplies]
    BY <1>5, MaxRepliesAssumption DEF Reply, TypeOK
  <2> HIDE DEF r, p
  <2> QED BY <1>3, <2>1, <2>5, <2>6, <2>7
<1>6. ASSUME NEW r, Same(p, r), p.state # None, rep' = [rep EXCEPT ![q] = r],
             UNCHANGED <<requestVars, taken, replies, interestVars>>
      PROVE  TypeOK' /\ SlotInv' /\ UNCHANGED req
  BY <1>3, <1>6 DEF interestVars, TypeOK
<1>7. CASE ReplierTimeout(q)
  <2>1. p.state # None /\ p.timer # NoTimer
    BY <1>0, <1>7 DEF ReplierTimeout
  <2>2. Same(p, TimeoutTarget(p))
    BY <1>0, <2>1, ReplierOps
  <2>3. rep' = [rep EXCEPT ![q] = TimeoutTarget(p)]
        /\ UNCHANGED <<requestVars, taken, replies, interestVars>>
    BY <1>7 DEF ReplierTimeout
  <2> HIDE DEF p
  <2> QED BY <1>6, <2>1, <2>2, <2>3
<1>8. ASSUME NEW j \in p.jobs, ReplierJob(q, j)
      PROVE  TypeOK' /\ SlotInv' /\ UNCHANGED req
  <2> DEFINE r == CASE j.phase = "timeout" -> IF Ready(p, j) THEN Finalize(p) ELSE DropJob(p, j)
                    [] j.phase = "queued"  -> StartJob(p, j)
                    [] j.phase = "running" -> EndJob(p, j)
  <2>1. p.state # None
    BY <1>0, <1>8
  <2>2. j.phase \in Phases
    BY <1>0, <1>8 DEF RepMedia, MediumSet, JobSet
  <2>3. /\ Same(p, Finalize(p)) /\ Same(p, DropJob(p, j))
        /\ Same(p, StartJob(p, j)) /\ Same(p, EndJob(p, j))
    BY <1>0, <1>8, <2>1, ReplierOps
  <2>4. Same(p, r)
    BY <2>2, <2>3 DEF Phases
  <2>5. rep' = [rep EXCEPT ![q] = r] /\ UNCHANGED <<requestVars, taken, replies, interestVars>>
    BY <1>8 DEF ReplierJob
  <2> HIDE DEF r, p
  <2> QED BY <1>6, <2>1, <2>4, <2>5
<1>9. ASSUME NEW j \in p.jobs, ReplierJobFails(q, j)
      PROVE  TypeOK' /\ SlotInv' /\ UNCHANGED req
  <2>1. p.state # None
    BY <1>0, <1>9
  <2>2. Same(p, FailJob(p, j, "wtf"))
    BY <1>0, <1>9, <2>1, ReplierOps
  <2>3. rep' = [rep EXCEPT ![q] = FailJob(p, j, "wtf")]
        /\ UNCHANGED <<requestVars, taken, replies, interestVars>>
    BY <1>9 DEF ReplierJobFails
  <2> HIDE DEF p
  <2> QED BY <1>6, <2>1, <2>2, <2>3
<1> QED BY <1>1, <1>2, <1>4, <1>5, <1>7, <1>8, <1>9 DEF ReplierNext

-----------------------------------------------------------------------------
(* The requesters *)

Good(p) == p \in ReqMedia /\ OutcomeOf(p)

(* The new medium waits for a reply under its timer. *)
LEMMA NewRequesterGood == Good(NewRequester)
<1> DEFINE m == [NoMedium EXCEPT !.state = "requested", !.registered = TRUE]
           t == SetTimeout(m, "closed", "closed")
           h == CallAgentSide(t, "initiate", "requested")
<1>1. m \in ReqMedia /\ m.jobs = {} /\ ~m.final
  BY DEF NoMedium, ReqMedia, MediumSet, RequestState
<1> HIDE DEF m
<1>2. t \in ReqMedia /\ t.jobs = {} /\ ~t.final
  <2>1. Timer("closed", "closed") \in RequesterTimers
    BY DEF RequesterTimers
  <2>2. t \in ReqMedia /\ t.jobs = m.jobs
    BY <1>1, <2>1, SetTimeoutType DEF ReqMedia
  <2>3. ~t.final
    BY <1>1 DEF SetTimeout, ReqMedia, MediumSet
  <2> QED BY <1>1, <2>2, <2>3
<1> HIDE DEF t
<1>3. h \in ReqMedia
  <2>1. \A k \in RequesterHooks, s \in RequestState \cup {AnyState} :
          CallAgentSide(t, k, s) \in ReqMedia
    BY <1>2, CallAgentSideType DEF ReqMedia
  <2>2. "initiate" \in RequesterHooks /\ "requested" \in RequestState
    BY DEF RequesterHooks, RequestState
  <2> QED BY <2>1, <2>2
<1>4. h.jobs \subseteq {Job("initiate", "requested", "queued", FALSE)} /\ ~h.final
  BY <1>2 DEF CallAgentSide, AddJob, ReqMedia, MediumSet
<1>5. Job("initiate", "requested", "queued", FALSE).hook = "initiate"
  BY DEF Job
<1>6. OutcomeOf(h)
  BY <1>4, <1>5 DEF OutcomeOf
<1> QED BY <1>3, <1>6 DEF Good, NewRequester, t, m

(* A reply: the timer is cancelled, so that closed() cannot be called any more. *)
LEMMA ReplyGood ==
  ASSUME NEW p, Good(p), p.state = "requested"
  PROVE  Good(RunAndTerminate(CancelTimeout(p), "got_reply", "requested"))
<1> DEFINE t == CancelTimeout(p)
           j == Job("got_reply", "requested", "queued", TRUE)
           r == RunAndTerminate(t, "got_reply", "requested")
<1>0. p \in ReqMedia /\ OutcomeOf(p)
  BY DEF Good
<1>1. t \in ReqMedia /\ t.state = "requested" /\ t.timer = NoTimer
      /\ t.jobs = p.jobs /\ t.final = p.final
  <2>1. t.final = p.final
    BY <1>0 DEF CancelTimeout, ReqMedia, MediumSet
  <2> QED BY <1>0, <2>1, CancelTimeoutType DEF ReqMedia
<1> HIDE DEF t
<1>2. r \in ReqMedia
  <2>1. \A h \in RequesterHooks, s \in RequestState \cup {AnyState} :
          RunAndTerminate(t, h, s) \in ReqMedia
    BY <1>1, RunAndTerminateType DEF ReqMedia
  <2>2. "got_reply" \in RequesterHooks /\ "requested" \in RequestState
    BY DEF RequesterHooks, RequestState
  <2> QED BY <2>1, <2>2
<1>3. /\ r.state = t.state /\ r.timer = t.timer /\ r.final = t.final
      /\ r.jobs = IF t.final THEN t.jobs ELSE t.jobs \cup {j}
  BY <1>1 DEF RunAndTerminate, AddJob, ReqMedia, MediumSet
<1>4. j.hook = "got_reply"
  BY DEF Job
<1> HIDE DEF r, j
<1>5. OutcomeOf(r)
  BY <1>0, <1>1, <1>3, <1>4 DEF OutcomeOf
<1> QED BY <1>2, <1>5 DEF Good, r, t

(* The timer: it is not pending once a reply is being handled. *)
LEMMA TimeoutGood ==
  ASSUME NEW p, Good(p), p.timer # NoTimer
  PROVE  Good(TimeoutTarget(p))
<1> DEFINE j == Job(p.timer.hook, p.timer.state, "timeout", FALSE)
           r == TimeoutTarget(p)
<1>0. p \in ReqMedia /\ OutcomeOf(p)
  BY DEF Good
<1>1. p.timer \in RequesterTimers /\ p.timer.state = "closed" /\ p.timer.hook = "closed"
  BY <1>0 DEF ReqMedia, MediumSet, RequesterTimers, Timer
<1>2. r \in ReqMedia
  <2>1. p.timer.state \in RequestState \cup {AnyState} /\ p.timer.hook \in RequesterHooks
    BY <1>1 DEF RequestState, RequesterHooks
  <2> QED BY <1>0, <1>1, <2>1, TimeoutTargetType DEF ReqMedia
<1>3. /\ r.state = "closed" /\ r.final = p.final
      /\ r.jobs = IF p.final THEN p.jobs ELSE p.jobs \cup {j}
  BY <1>0, <1>1 DEF TimeoutTarget, AddJob, ReqMedia, MediumSet, AnyState
<1>4. j.hook = "closed"
  BY <1>1 DEF Job
<1> HIDE DEF r, j
<1>5. OutcomeOf(r)
  BY <1>0, <1>3, <1>4 DEF OutcomeOf
<1> QED BY <1>2, <1>5 DEF Good, r

(* The end, the start and the failure of a call; the callback of the timer. *)
LEMMA JobGood ==
  ASSUME NEW p, Good(p), NEW j \in p.jobs
  PROVE  /\ Good(RequesterCallback(DropJob(p, j), j))
         /\ Good(StartJob(p, j)) /\ Good(EndJob(p, j)) /\ Good(FailJob(p, j, "wtf"))
<1>0. p \in ReqMedia /\ OutcomeOf(p) /\ ~p.final
  BY DEF Good, OutcomeOf
<1>1. j \in JobSet(RequesterHooks, RequestState)
  BY <1>0 DEF ReqMedia, MediumSet
<1> DEFINE d == DropJob(p, j)
<1>2. /\ d \in ReqMedia /\ d.jobs = p.jobs \ {j}
      /\ d.state = p.state /\ d.timer = p.timer /\ d.final = p.final
  <2>1. d.final = p.final
    BY <1>0 DEF DropJob, ReqMedia, MediumSet
  <2> QED BY <1>0, <2>1, DropJobType DEF ReqMedia
<1>3. OutcomeOf(d)
  BY <1>0, <1>2 DEF OutcomeOf
<1>4. Good(RequesterCallback(d, j))
  <2> DEFINE k == Job(j.hook, AnyState, "queued", TRUE)
             r == RunAndTerminate(d, j.hook, AnyState)
  <2> HIDE DEF d
  <2>1. r \in ReqMedia
    <3>1. \A h \in RequesterHooks, s \in RequestState \cup {AnyState} :
            RunAndTerminate(d, h, s) \in ReqMedia
      BY <1>2, RunAndTerminateType DEF ReqMedia
    <3> QED BY <1>1, <3>1 DEF JobSet
  <2>2. /\ r.state = d.state /\ r.timer = d.timer /\ ~r.final
        /\ r.jobs = d.jobs \cup {k}
    BY <1>0, <1>2 DEF RunAndTerminate, AddJob, ReqMedia, MediumSet
  <2>3. k.hook = j.hook
    BY DEF Job
  <2> HIDE DEF r, k
  <2>4. OutcomeOf(r)
    BY <1>0, <1>2, <2>2, <2>3 DEF OutcomeOf
  <2> QED BY <1>2, <1>3, <2>1, <2>4 DEF Good, RequesterCallback, r
<1>5. Good(EndJob(p, j))
  <2>1. EndJob(p, j) \in ReqMedia
    BY <1>0, EndJobType DEF ReqMedia
  <2>2. CASE j.last
    <3>1. EndJob(p, j).jobs = {}
      BY <1>0, <1>2, <2>2 DEF EndJob, Finalize, ReqMedia, MediumSet
    <3> QED BY <2>1, <3>1 DEF Good, OutcomeOf
  <2>3. CASE ~j.last
    BY <1>2, <1>3, <2>3 DEF Good, EndJob
  <2> QED BY <2>2, <2>3
<1>6. Good(StartJob(p, j))
  <2>1. CASE j.hook \in FailingHooks /\ Ready(p, j)
    <3> DEFINE k == [j EXCEPT !.phase = "running"]
               r == StartJob(p, j)
    <3>1. k.hook = j.hook
      BY <1>1 DEF JobSet
    <3>2. /\ r.jobs = (p.jobs \ {j}) \cup {k}
          /\ r.state = p.state /\ r.timer = p.timer /\ r.final = p.final
      BY <1>0, <2>1 DEF StartJob, ReqMedia, MediumSet
    <3>3. r \in ReqMedia
      BY <1>0, StartJobType DEF ReqMedia
    <3> HIDE DEF r, k
    <3>4. OutcomeOf(r)
      BY <1>0, <3>1, <3>2 DEF OutcomeOf
    <3> QED BY <3>3, <3>4 DEF Good, r
  <2>2. CASE ~(j.hook \in FailingHooks /\ Ready(p, j))
    BY <1>5, <2>2 DEF StartJob
  <2> QED BY <2>1, <2>2
<1>7. Good(FailJob(p, j, "wtf"))
  <2>1. FailJob(p, j, "wtf") \in ReqMedia
    BY <1>0, FailJobType DEF ReqMedia, RequestState
  <2>2. FailJob(p, j, "wtf").jobs = {}
    BY <1>0 DEF FailJob, DropJob, SetState, Finalize, ReqMedia, MediumSet
  <2> QED BY <2>1, <2>2 DEF Good, OutcomeOf
<1> QED BY <1>4, <1>5, <1>6, <1>7

(* The steps of a requester. *)
LEMMA RequesterKeeps ==
  ASSUME TypeOK, SlotInv, OutcomeInv, NEW q \in Requesters, RequesterNext(q)
  PROVE  TypeOK' /\ SlotInv' /\ OutcomeInv'
<1> DEFINE p == req[q]
<1>0. Good(p) /\ \A n \in Requesters : Good(req[n])
  BY DEF TypeOK, OutcomeInv, Good, ReqMedia
<1>1. ASSUME NEW r, Good(r), req' = [req EXCEPT ![q] = r],
             asked \subseteq asked', asked' \subseteq Requesters,
             heard' \in [Requesters -> 0..MaxReplies],
             UNCHANGED <<rep, taken, replies, interestVars>>
      PROVE  TypeOK' /\ SlotInv' /\ OutcomeInv'
  <2>1. \A n \in Requesters : req'[n] = IF n = q THEN r ELSE req[n]
    BY <1>1 DEF TypeOK
  <2>2. OutcomeInv' /\ req' \in [Requesters -> ReqMedia]
    <3>1. req' \in [Requesters -> ReqMedia]
      BY <1>1 DEF TypeOK, Good, ReqMedia
    <3>2. \A n \in Requesters : Good(req'[n])
      BY <1>0, <1>1, <2>1
    <3> QED BY <3>1, <3>2 DEF OutcomeInv, Good
  <2>3. SlotInv'
    BY <1>1 DEF SlotInv, SlotsConserved, WaitsOnlyWhenFull, Running, interestVars
  <2> QED BY <1>1, <2>2, <2>3 DEF TypeOK, ReqMedia, interestVars
<1>2. CASE Request(q)
  <2>1. req' = req /\ UNCHANGED <<rep, taken, replies, interestVars>> /\ heard' = heard
        /\ asked \subseteq asked' /\ asked' \subseteq Requesters
    BY <1>2 DEF Request, TypeOK
  <2>2. SlotInv' /\ OutcomeInv'
    BY <2>1 DEF SlotInv, SlotsConserved, WaitsOnlyWhenFull, Running, interestVars, OutcomeInv
  <2> QED BY <2>1, <2>2 DEF TypeOK, interestVars
<1>3. CASE OnReply(q)
  <2> DEFINE r == RunAndTerminate(CancelTimeout(p), "got_reply", "requested")
  <2>1. Good(r)
    BY <1>0, <1>3, ReplyGood DEF OnReply
  <2>2. req' = [req EXCEPT ![q] = r] /\ UNCHANGED <<asked, rep, taken, replies, interestVars>>
    BY <1>3 DEF OnReply
  <2>3. heard' \in [Requesters -> 0..MaxReplies] /\ asked \subseteq Requesters
    BY <1>3, MaxRepliesAssumption DEF OnReply, TypeOK
  <2> HIDE DEF r
  <2> QED BY <1>1, <2>1, <2>2, <2>3
<1>4. ASSUME NEW r, Good(r), req' = [req EXCEPT ![q] = r],
             UNCHANGED <<asked, heard, rep, taken, replies, interestVars>>
      PROVE  TypeOK' /\ SlotInv' /\ OutcomeInv'
  <2>1. heard' \in [Requesters -> 0..MaxReplies] /\ asked \subseteq asked'
        /\ asked' \subseteq Requesters
    BY <1>4 DEF TypeOK
  <2> QED BY <1>1, <1>4, <2>1
<1>5. CASE RequesterTimeout(q)
  <2>1. Good(TimeoutTarget(p))
    BY <1>0, <1>5, TimeoutGood DEF RequesterTimeout
  <2>2. req' = [req EXCEPT ![q] = TimeoutTarget(p)]
        /\ UNCHANGED <<asked, heard, rep, taken, replies, interestVars>>
    BY <1>5 DEF RequesterTimeout
  <2> HIDE DEF p
  <2> QED BY <1>4, <2>1, <2>2
<1>6. CASE RequesterGone(q)
  <2>1. Good(Unregister(p))
    <3>1. /\ Unregister(p) \in ReqMedia
          /\ Unregister(p).state = p.state /\ Unregister(p).timer = p.timer
          /\ Unregister(p).jobs = p.jobs
      BY <1>0, UnregisterType DEF Good, ReqMedia
    <3>2. Unregister(p).final = p.final
      BY <1>0 DEF Unregister, Good, ReqMedia, MediumSet
    <3> QED BY <1>0, <3>1, <3>2 DEF Good, OutcomeOf
  <2>2. req' = [req EXCEPT ![q] = Unregister(p)]
        /\ UNCHANGED <<asked, heard, rep, taken, replies, interestVars>>
    BY <1>6 DEF RequesterGone
  <2> HIDE DEF p
  <2> QED BY <1>4, <2>1, <2>2
<1>7. ASSUME NEW j \in p.jobs, RequesterJob(q, j)
      PROVE  TypeOK' /\ SlotInv' /\ OutcomeInv'
  <2> DEFINE r == CASE j.phase = "timeout" -> RequesterCallback(DropJob(p, j), j)
                    [] j.phase = "queued"  -> StartJob(p, j)
                    [] j.phase = "running" -> EndJob(p, j)
  <2>1. j.phase \in Phases
    BY <1>0, <1>7 DEF Good, ReqMedia, MediumSet, JobSet
  <2>2. /\ Good(RequesterCallback(DropJob(p, j), j))
        /\ Good(StartJob(p, j)) /\ Good(EndJob(p, j))
    BY <1>0, <1>7, JobGood
  <2>3. Good(r)
    BY <2>1, <2>2 DEF Phases
  <2>4. req' = [req EXCEPT ![q] = r]
        /\ UNCHANGED <<asked, heard, rep, taken, replies, interestVars>>
    BY <1>7 DEF RequesterJob
  <2> HIDE DEF r, p
  <2> QED BY <1>4, <2>3, <2>4
<1>8. ASSUME NEW j \in p.jobs, RequesterJobFails(q, j)
      PROVE  TypeOK' /\ SlotInv' /\ OutcomeInv'
  <2>1. Good(FailJob(p, j, "wtf"))
    BY <1>0, <1>8, JobGood
  <2>2. req' = [req EXCEPT ![q] = FailJob(p, j, "wtf")]
        /\ UNCHANGED <<asked, heard, rep, taken, replies, interestVars>>
    BY <1>8 DEF RequesterJobFails
  <2> HIDE DEF p
  <2> QED BY <1>4, <2>1, <2>2
<1> QED BY <1>2, <1>3, <1>5, <1>6, <1>7, <1>8 DEF RequesterNext

-----------------------------------------------------------------------------
(* The initial state satisfies the invariant. *)
LEMMA InitInv == Init => Inv
<1> SUFFICES ASSUME Init PROVE Inv
  OBVIOUS
<1>1. \A q \in Requesters : req[q] = NewRequester /\ rep[q] = NoMedium
  BY DEF Init
<1>2. TypeOK
  <2>1. NewRequester \in ReqMedia /\ NoMedium \in RepMedia
    BY NewRequesterGood, NewReplierFacts DEF Good
  <2>2. req \in [Requesters -> ReqMedia] /\ rep \in [Requesters -> RepMedia]
    BY <2>1 DEF Init
  <2> QED BY <2>2, MaxRepliesAssumption DEF Init, TypeOK, ReqMedia, RepMedia
<1>3. SlotInv
  <2>1. Running = {}
    BY <1>1, NewReplierFacts DEF Running
  <2>2. SlotsConserved
    BY <2>1, FS_EmptySet DEF SlotsConserved, Init
  <2>3. WaitsOnlyWhenFull
    BY ConcurrencyAssumption DEF WaitsOnlyWhenFull, Init
  <2> QED BY <1>1, <2>2, <2>3 DEF SlotInv, Init, NoMedium
<1>4. OutcomeInv
  BY <1>1, NewRequesterGood DEF OutcomeInv, Good
<1> QED BY <1>2, <1>3, <1>4 DEF Inv

(* Every step preserves it. *)
LEMMA NextInv == Inv /\ [Next]_vars => Inv'
<1> SUFFICES ASSUME Inv, [Next]_vars PROVE Inv'
  OBVIOUS
<1>1. TypeOK /\ SlotInv /\ OutcomeInv
  BY DEF Inv
<1>2. CASE KillAgent
  <2>1. rep' \in [Requesters -> RepMedia] /\ SlotInv'
    BY <1>1, <1>2, KillKeeps
  <2>2. /\ UNCHANGED <<requestVars, taken, replies, active>>
        /\ queue' = {} /\ calls' = {} /\ open' = FALSE
    BY <1>2 DEF KillAgent
  <2>3. TypeOK' /\ OutcomeInv'
    BY <1>1, <2>1, <2>2 DEF TypeOK, OutcomeInv, RepMedia, requestVars
  <2> QED BY <2>1, <2>3 DEF Inv
<1>3. ASSUME NEW q \in Requesters, RequesterNext(q) PROVE Inv'
  BY <1>1, <1>3, RequesterKeeps DEF Inv
<1>4. ASSUME NEW q \in Requesters, ReplierNext(q) PROVE Inv'
  <2>1. TypeOK' /\ SlotInv' /\ UNCHANGED req
    BY <1>1, <1>4, ReplierKeeps
  <2> QED BY <1>1, <2>1 DEF Inv, OutcomeInv
<1>5. CASE UNCHANGED vars
  BY <1>1, <1>5 DEF Inv, TypeOK, SlotInv, SlotsConserved, WaitsOnlyWhenFull, Running,
                    OutcomeInv, vars, requestVars, interestVars
<1> QED BY <1>2, <1>3, <1>4, <1>5 DEF Next

(* The inductive invariant holds of the protocol. *)
THEOREM Invariance == Spec => []Inv
BY InitInv, NextInv, PTL DEF Spec

(* The state of the requests and of the interest has its type. *)
THEOREM RequestTypeCorrect == Spec => []TypeOK
<1>1. Inv => TypeOK
  BY DEF Inv
<1> QED BY <1>1, Invariance, PTL

(* The interest's count is the number of repliers in the agency's table:   *)
(* for any number of requests, limit and failing hooks, no slot leaks.     *)
THEOREM NoSlotLeaks == Spec => []SlotsConserved
<1>1. Inv => SlotsConserved
  BY DEF Inv, SlotInv
<1> QED BY <1>1, Invariance, PTL

(* The assertion of _process_message() cannot fail, and a queued request   *)
(* never waits beside a free slot.                                         *)
THEOREM NoIdleSlot == Spec => []WaitsOnlyWhenFull
<1>1. Inv => WaitsOnlyWhenFull
  BY DEF Inv, SlotInv
<1> QED BY <1>1, Invariance, PTL

(* A requester is never told both that it has a reply and that it expired. *)
THEOREM RepliedOrClosed == Spec => []OneOutcome
<1>1. Inv => OneOutcome
  BY DEF Inv, OutcomeInv, OutcomeOf, OneOutcome
<1> QED BY <1>1, Invariance, PTL
=============================================================================
