--------------------------------- MODULE Clerk ---------------------------------
(***************************************************************************)
(* The clerk of a monitor agent (agents/monitor/clerk.py), which decides   *)
(* when a silent agent is dead, with the checks of the intensive care that *)
(* drive it (agents/monitor/intensive_care.py).                            *)
(*                                                                         *)
(* A patient is an agent that should send heartbeats; a location is the    *)
(* host it runs on.  While other patients of the location are alive, a     *)
(* patient that dies is reported to the coroner at once.  A location whose *)
(* patients are all dead is isolated: its dead are reported only when its  *)
(* quarantine is lifted by a delayed call.  If no other location has       *)
(* anybody alive the monitor may itself be cut off, and pauses them all.   *)
(*                                                                         *)
(* The methods call each other and loop over the dictionary of locations   *)
(* in the middle of it, so an operation is a function from the state s to  *)
(* the state after it; s.ord is the order of the dictionary.  What a check *)
(* sees of each patient is arbitrary, as heartbeats may be late or lost.   *)
(***************************************************************************)
EXTENDS Naturals, Sequences, SequencesExt

CONSTANTS
  Patients,     \* agents that may be monitored
  Locations,    \* hosts
  Home,         \* the location of the monitor
  Cuts          \* the values of enable_quarantine with which the messaging may
                \* be disconnected

ASSUME HomeAssumption == Home \in Locations
ASSUME CutsAssumption == Cuts \subseteq BOOLEAN

VARIABLES
  pat,    \* the patients (Patient), "out" when not monitored
  loc,    \* the locations (Location) and their delayed calls
  mon,    \* the clerk's state
  iso,    \* is the call that lifts the monitor's own quarantine pending?
  quar,   \* enable_quarantine, which does not change
  link,   \* is the messaging connected?
  told    \* history: reports to the coroner since a patient was last alive

clerkVars == <<pat, loc, mon, iso, quar, link, told>>

PatientStates == {"alive", "dying", "dead"}
LocationStates == {"normal", "isolated", "recovering"}
MonitorStates == {"normal", "isolated", "recovering", "disconnected"}

(* The delayed call of a location is "stale" if the location was removed   *)
(* after the call was scheduled: nobody cancels it.                        *)
Calls == {"none", "set", "stale"}
NewLocation(call) ==
  [known |-> TRUE, state |-> "normal", paused |-> FALSE, dead |-> {}, call |-> call]

-----------------------------------------------------------------------------
Count(s, l, state) == {p \in Patients : s.pat[p].at = l /\ s.pat[p].state = state}
AllWell(s, l) == Count(s, l, "dying") = {} /\ Count(s, l, "dead") = {}

CancelCall(s, l) == [s EXCEPT !.loc[l].call = "none"]
ScheduleCall(s, l) == [s EXCEPT !.loc[l].call = "set"]

(* Mutant: what has been reported is not remembered. *)
NotifyDeathsAgain(s, l, who) ==
  IF s.loc[l].paused THEN s
  ELSE [s EXCEPT !.told = [p \in Patients |-> IF p \in who THEN 1 + @[p] ELSE @[p]]]

(* _notify_death() *)
NotifyDeaths(s, l, who) ==
  LET new == who \ s.loc[l].dead
  IN  IF s.loc[l].paused THEN s
      ELSE [s EXCEPT !.loc[l].dead = @ \cup new,
                     !.told = [p \in Patients |-> IF p \in new THEN 1 + @[p] ELSE @[p]]]

BringOutYourDead(s, l) == NotifyDeaths(s, l, Count(s, l, "dead"))

RECURSIVE StateChanged(_, _, _), Pause(_, _), Resume(_, _), NeedQuarantine(_, _),
          LocationRecovering(_, _)

SetState(s, l, state) == StateChanged([s EXCEPT !.loc[l].state = state], l, state)

PauseAll(s) == FoldLeft(Pause, s, s.ord)
ResumeAll(s) == FoldLeft(Resume, s, s.ord)

(* _location_state_changed(), also called by a location that was removed.  *)
StateChanged(s, l, state) ==
  LET c == IF state = "normal" THEN CancelCall(s, l) ELSE s
  IN  IF c.mon = "isolated"
      THEN IF state # "isolated" /\ l # Home
           THEN ResumeAll([c EXCEPT !.mon = "normal", !.iso = FALSE])
           ELSE c
      ELSE IF /\ c.mon = "recovering"
              /\ \A k \in Locations : c.loc[k].known => c.loc[k].state = "normal"
           THEN [c EXCEPT !.mon = "normal"]
           ELSE c

Pause(s, l) ==
  LET c == [CancelCall(s, l) EXCEPT !.loc[l].paused = TRUE]
  IN  IF c.loc[l].state = "recovering" THEN SetState(c, l, "normal") ELSE c

(* Mutant: without quarantine the dead are not counted. *)
ResumeQuietly(s, l) ==
  LET c == [s EXCEPT !.loc[l].paused = FALSE]
  IN  IF quar /\ c.loc[l].state = "isolated" THEN NeedQuarantine(c, l)
      ELSE IF quar /\ c.loc[l].state = "recovering" THEN LocationRecovering(c, l)
      ELSE c

Resume(s, l) ==
  LET c == [s EXCEPT !.loc[l].paused = FALSE]
  IN  IF ~quar THEN BringOutYourDead(c, l)
      ELSE IF c.loc[l].state = "isolated" THEN NeedQuarantine(c, l)
      ELSE IF c.loc[l].state = "recovering" THEN LocationRecovering(c, l)
      ELSE c

(* _check_isolated(): is the monitor isolated, or recovering from it? *)
CutOff(s) == s.mon \in {"isolated", "recovering"}
OthersAlive(s) ==
  \E l \in Locations \ {Home} :
    s.loc[l].known /\ s.loc[l].state # "isolated" /\ Count(s, l, "alive") # {}
CheckIsolated(s) ==
  IF CutOff(s) \/ OthersAlive(s) THEN s
  ELSE PauseAll([s EXCEPT !.mon = "isolated", !.iso = TRUE])

(* Mutant: the end of the quarantine is not scheduled. *)
NeedQuarantineOnly(s, l) ==
  IF ~CutOff(s) /\ OthersAlive(s) THEN CancelCall(s, l) ELSE CheckIsolated(s)

NeedQuarantine(s, l) ==
  LET c == IF ~CutOff(s) /\ OthersAlive(s) THEN CancelCall(s, l) ELSE CheckIsolated(s)
  IN  IF c.mon # "isolated" THEN ScheduleCall(c, l) ELSE c

LocationRecovering(s, l) ==
  ScheduleCall(IF ~AllWell(s, l) /\ s.loc[l].state # "recovering"
               THEN SetState(s, l, "recovering") ELSE s, l)

CheckQuarantine(s, l) ==
  IF Count(s, l, "dying") # {} \/ Count(s, l, "dead") = {} \/ s.loc[l].state = "isolated" THEN s
  ELSE LET c == SetState(s, l, "isolated")
       IN  IF c.loc[l].paused THEN c ELSE NeedQuarantine(c, l)

(* Mutant: the other patients of the location are not considered. *)
PatientDiedAlone(s, p) == NotifyDeaths(s, s.pat[p].at, {p})

PatientDied(s, p) ==
  LET l == s.pat[p].at
  IN  IF \/ ~quar
         \/ s.loc[l].state = "normal" /\ Count(s, l, "alive") # {}
      THEN NotifyDeaths(s, l, {p})
      ELSE CheckQuarantine(s, l)

(* Mutant: a patient that is alive again stays marked as reported. *)
PatientResurrectedMarked(s, p) ==
  LET l == s.pat[p].at
      c == [s EXCEPT !.told[p] = 0]
  IN  IF AllWell(c, l) THEN SetState(c, l, "normal") ELSE c

PatientResurrected(s, p) ==
  LET l == s.pat[p].at
      c == [s EXCEPT !.loc[l].dead = @ \ {p}, !.told[p] = 0]
  IN  IF ~quar THEN c
      ELSE IF AllWell(c, l) THEN SetState(c, l, "normal")
      ELSE IF c.loc[l].state = "recovering" THEN c
      ELSE LET r == SetState(c, l, "recovering")
           IN  IF r.loc[l].paused THEN r ELSE LocationRecovering(r, l)

(* Patient.check() and what the intensive care makes of it. *)
CheckPatient(s, p, after) ==
  LET before == s.pat[p].state
      c == [s EXCEPT !.pat[p].state = after]
  IN  CASE before = after -> s
        [] before # after /\ after = "dead" -> PatientDied(c, p)
        [] before # after /\ after = "alive" -> PatientResurrected(c, p)
        [] OTHER -> c

-----------------------------------------------------------------------------
State(ord) == [pat |-> pat, loc |-> loc, mon |-> mon, iso |-> iso, told |-> told, ord |-> ord]
Become(s) ==
  pat' = s.pat /\ loc' = s.loc /\ mon' = s.mon /\ iso' = s.iso /\ told' = s.told

(* The orders that a dictionary may have. *)
LocationOrders == [known \in SUBSET Locations |-> SetToSeqs(known)]
PatientOrders == [some \in SUBSET Patients |-> SetToSeqs(some)]
Orders == LocationOrders[{l \in Locations : loc[l].known}]
Monitored == {p \in Patients : pat[p].state # "out"}

AddPatient(p, l) ==
  /\ pat[p].state = "out"
  /\ pat' = [pat EXCEPT ![p] = [state |-> "alive", at |-> l]]
  /\ loc' = [loc EXCEPT ![l] = IF @.known THEN @ ELSE NewLocation(@.call)]
  /\ told' = [told EXCEPT ![p] = 0]
  /\ UNCHANGED <<mon, iso, quar, link>>

RemovePatient(p) ==
  LET l == pat[p].at
      Left(ord) == [State(ord) EXCEPT !.pat[p].state = "out", !.loc[l].dead = @ \ {p}]
      Checked(ord) ==
        IF quar /\ loc[l].state = "normal" /\ pat[p].state # "dead"
        THEN CheckQuarantine(Left(ord), l) ELSE Left(ord)
      Empty == \A q \in Monitored \ {p} : pat[q].at # l
  IN  /\ p \in Monitored
      /\ \E ord \in Orders :
           LET s == Checked(ord)
           IN  Become(IF ~Empty THEN s
                      ELSE [s EXCEPT !.loc[l] = [NewLocation(IF @.call = "none" THEN "none" ELSE "stale")
                                                   EXCEPT !.known = FALSE]])
      /\ UNCHANGED <<quar, link>>

(* check_patients(): every patient in turn, in the order of the dictionary *)
Checks(ord, seq, seen) ==
  LET Check(s, p) == CheckPatient(s, p, seen[p])
  IN  [FoldLeft(Check, State(ord), seq) EXCEPT !.ord = <<>>]

CheckPatients ==
  /\ Monitored # {}
  /\ \E s \in {Checks(ord, seq, seen) : ord \in Orders, seq \in PatientOrders[Monitored],
                                        seen \in [Monitored -> PatientStates]} : Become(s)
  /\ UNCHANGED <<quar, link>>

(* _loc_lift_quarantine() *)
LiftQuarantine(l) ==
  /\ loc[l].call = "set"
  /\ \E ord \in Orders : Become(BringOutYourDead(SetState(State(ord), l, "normal"), l))
  /\ UNCHANGED <<quar, link>>

(* The same, of a location that has been removed. *)
LiftStale(l) ==
  /\ loc[l].call = "stale"
  /\ \E ord \in Orders : Become(StateChanged(State(ord), l, "normal"))
  /\ UNCHANGED <<quar, link>>

(* Mutant: the locations stay paused. *)
LiftIsolationOnly ==
  /\ iso /\ mon' = "recovering" /\ iso' = FALSE
  /\ UNCHANGED <<pat, loc, quar, link, told>>

(* _iso_lift_quarantine() *)
LiftIsolation ==
  /\ iso
  /\ \E ord \in Orders : Become(ResumeAll([State(ord) EXCEPT !.mon = "recovering", !.iso = FALSE]))
  /\ UNCHANGED <<quar, link>>

OnDisconnected ==
  /\ link /\ link' = FALSE /\ UNCHANGED quar /\ quar \in Cuts
  /\ \E ord \in Orders :
       Become(IF mon = "disconnected" THEN State(ord)
              ELSE PauseAll([State(ord) EXCEPT !.mon = "disconnected", !.iso = FALSE]))

OnReconnected ==
  /\ ~link /\ link' = TRUE /\ UNCHANGED quar
  /\ \E ord \in Orders :
       Become(IF mon # "disconnected" THEN State(ord)
              ELSE CheckIsolated(ResumeAll([State(ord) EXCEPT !.mon = "normal"])))

ClerkInit ==
  /\ pat = [p \in Patients |-> [state |-> "out", at |-> Home]]
  /\ loc = [l \in Locations |-> [NewLocation("none") EXCEPT !.known = FALSE]]
  /\ mon = "normal" /\ iso = FALSE /\ quar \in BOOLEAN /\ link = TRUE
  /\ told = [p \in Patients |-> 0]

ClerkNext ==
  \/ \E p \in Patients : RemovePatient(p) \/ \E l \in Locations : AddPatient(p, l)
  \/ CheckPatients
  \/ \E l \in Locations : LiftQuarantine(l) \/ LiftStale(l)
  \/ LiftIsolation \/ OnDisconnected \/ OnReconnected

ClerkSpec == ClerkInit /\ [][ClerkNext]_clerkVars

(* The state has its type; above all, a patient is marked as reported only *)
(* while it is silent, or its next death would not be reported.            *)
ClerkTypeOK ==
  /\ pat \in [Patients -> [state : PatientStates \cup {"out"}, at : Locations]]
  /\ loc \in [Locations -> [known : BOOLEAN, state : LocationStates, paused : BOOLEAN,
                            dead : SUBSET Patients, call : Calls]]
  /\ mon \in MonitorStates /\ {iso, quar, link} \subseteq BOOLEAN
  /\ told \in [Patients -> Nat]
  /\ \A l \in Locations : \A p \in loc[l].dead :
       pat[p].at = l /\ pat[p].state \in {"dying", "dead"}

-----------------------------------------------------------------------------
(* Nobody is reported to the coroner twice for one death. *)
OneFuneral == \A p \in Patients : told[p] <= 1

(* A location does not stay isolated for ever: the call that lifts its     *)
(* quarantine is pending, or the monitor's own quarantine holds it up.     *)
QuarantineEnds ==
  \A l \in Locations :
    loc[l].known /\ loc[l].state = "isolated" =>
      \/ mon \in {"normal", "recovering"} /\ loc[l].call = "set"
      \/ mon = "isolated" /\ iso
      \/ mon = "disconnected"

(* Monitoring is paused only while the monitor may itself be cut off, so   *)
(* that no location is forgotten when it is back.                          *)
PausedOnlyWhenCut ==
  (\E l \in Locations : loc[l].known /\ loc[l].paused) => mon \in {"isolated", "disconnected"}

(* Neither a quarantine nor a pause is left without what will end it.      *)
WaitsEnd == QuarantineEnds /\ PausedOnlyWhenCut

(* A patient is reported only when another one at its location was alive   *)
(* in the check before or is alive in this one (the count in the middle of *)
(* a check may be of either), or when the quarantine of the location ends. *)
AliveAround(p, patients) ==
  \E q \in Patients \ {p} : patients[q].at = pat[p].at /\ patients[q].state = "alive"
NotBeforeQuarantine ==
  [][\A p \in Patients :
       quar /\ told'[p] > told[p] =>
         \/ AliveAround(p, pat) \/ AliveAround(p, pat')
         \/ loc[pat[p].at].call = "set" /\ loc'[pat[p].at].call = "none"]_clerkVars

-----------------------------------------------------------------------------
(* Without a quarantine no death is forgotten, above all none that was seen *)
(* while monitoring was paused: as soon as the monitor is not cut off every *)
(* dead patient has been reported, unless somebody is still dying there.   *)
Handled(p) ==
  \/ pat[p].state # "dead" \/ told[p] > 0
  \/ \E q \in Patients : pat[q].at = pat[p].at /\ pat[q].state = "dying"
NoDeathForgotten ==
  ~quar /\ mon \in {"normal", "recovering"} => \A p \in Patients : Handled(p)

(* A death is reported once: not twice, and not never.                     *)
DeathsReported == OneFuneral /\ NoDeathForgotten

(* What holds of the clerk at any moment: deaths are reported once, and    *)
(* waiting ends.                                                           *)
ClerkSafe == DeathsReported /\ WaitsEnd

-----------------------------------------------------------------------------
(* What the code says and does not do *)

(* agents/monitor/clerk.py, _patient_died(): "There is alive agents around *)
(* so this one must really be dead".  The count is of a check that is not  *)
(* over: those that are visited later still count as they were before.     *)
SomebodyWasAlive ==
  [][\A p \in Patients :
       quar /\ told'[p] > told[p] =>
         \/ AliveAround(p, pat')
         \/ loc[pat[p].at].call = "set" /\ loc'[pat[p].at].call = "none"]_clerkVars

(* agents/monitor/clerk.py, on_reconnected(): "We are connected back,      *)
(* resume all location monitoring".                                        *)
ResumedWhenReconnected ==
  [][~link /\ link' /\ mon' = "normal" =>
       \A l \in Locations : loc'[l].known => ~loc'[l].paused]_clerkVars

(* agents/monitor/interface.py, MonitorState: "disconnected - Stable       *)
(* state. the monitor is disconnected from the network.  Nothing should be *)
(* done until reconnected."                                                *)
NothingWhenDisconnected ==
  [][~link /\ ~link' => \A p \in Patients : told'[p] <= told[p]]_clerkVars
=============================================================================
