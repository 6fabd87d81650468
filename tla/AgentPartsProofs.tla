---------------------------- MODULE AgentPartsProofs ----------------------------
(***************************************************************************)
(* The death of an agent is settled before a monitor's task for it ends,   *)
(* whatever fails.  If monitors do not lose announcements and solvers have *)
(* time enough for the crashes and slow answers that happen, or no monitor *)
(* crashes, one monitor resolves the death and nobody is left with a task  *)
(* that nobody works on.                                                   *)
(*                                                                         *)
(* The argument for the first: who is told that another monitor has the    *)
(* solution is told so by the end of a task, or because two documents of   *)
(* the agent differ in their instance, and then a later instance runs.     *)
(* For one resolver: the brothers that a solver has removed are down, so   *)
(* the last one to be alone on its list has all before it down.  For the   *)
(* rest, when no solver expires: each grant that expires uses up a slow    *)
(* answer or the crash of the one it waited for.  When solvers expire and  *)
(* nobody crashes: whoever neither asks nor resolves has asked one before  *)
(* it that still has a task; so the first of those that have one works.    *)
(*                                                                         *)
(* Resources: the sums of what is allocated, promised and waits to be      *)
(* saved, with the most that ever waited when something was granted.       *)
(***************************************************************************)
EXTENDS Death, Resources, FiniteSetTheorems, WellFoundedInduction, TLAPS

(* What holds of each handler h of a death, when there have been so many   *)
(* instances, an instance runs or not, and it is buried or not.            *)
HandlerOK(h, instances, runs, gone) ==
  /\ h \in Handlers
  /\ h.task = "open" => h.instance \in 1..instances
  /\ h.solver \in {"announced", "granted"} => h.task = "open" /\ h.ahead > 0 /\ h.tries < Tries
  /\ h.task \in {"none", "fetching"} => h.tries = 0
  /\ h.answer = "ready" => runs \/ gone
  /\ h.telling => runs
  /\ h.attempt = "adopting" => gone

WorldOK ==
  /\ case \in Case /\ up \subseteq Monitors
  /\ doc \in [rev : Nat, instance : Nat, deleted : BOOLEAN]
  /\ running \in BOOLEAN /\ buried \in BOOLEAN
  /\ doc.instance >= 1 /\ (doc.instance > 1 => running) /\ (doc.deleted => buried)
  /\ watching \subseteq Monitors /\ news \subseteq Monitors
  /\ known \in [Monitors -> Nat] /\ \A m \in Monitors : known[m] <= doc.instance
  /\ helper \in [Monitors -> {"none", "working", "reporting"}]
  /\ \A m \in Monitors : helper[m] = "reporting" => running

TasksOK ==
  /\ DOMAIN hd = Monitors /\ hd = [m \in Monitors |-> hd[m]]
  /\ \A m \in Monitors : HandlerOK(hd[m], doc.instance, running, buried)

EndInv == WorldOK /\ TasksOK

-----------------------------------------------------------------------------
(* The handlers *)

LEMMA IdleOK ==
  ASSUME NEW i \in Nat, NEW r \in BOOLEAN, NEW b \in BOOLEAN
  PROVE  HandlerOK(Idle, i, r, b) /\ HandlerOK([Idle EXCEPT !.task = "failed"], i, r, b)
<1>1. Len(Brothers) \in Nat /\ 0 \in 0..Len(Brothers) /\ 0 \in 0..Tries
  BY BrothersAssumption DEF Tries
<1> DEFINE f == [Idle EXCEPT !.task = "failed"]
<1>2. Idle \in Handlers /\ f \in Handlers
  BY <1>1 DEF Idle, Handlers
<1>3. /\ Idle.task = "none" /\ f.task = "failed"
      /\ \A h \in {Idle, f} : /\ h.solver = "none" /\ h.answer = "none" /\ h.telling = FALSE
                             /\ h.attempt = "none" /\ h.tries = 0
  BY DEF Idle
<1> HIDE DEF f
<1>4. HandlerOK(Idle, i, r, b) /\ HandlerOK(f, i, r, b)
  BY <1>2, <1>3 DEF HandlerOK
<1> QED BY <1>4 DEF f

LEMMA StaysOK ==
  ASSUME NEW h, NEW i \in Nat, NEW r \in BOOLEAN, NEW b \in BOOLEAN,
         NEW i2 \in Nat, NEW r2 \in BOOLEAN, NEW b2 \in BOOLEAN,
         HandlerOK(h, i, r, b), i <= i2, r => r2, b => b2
  PROVE  HandlerOK(h, i2, r2, b2)
BY DEF HandlerOK

LEMMA RetryFields ==
  ASSUME NEW h \in Handlers
  PROVE  /\ Retry(h) \in Handlers
         /\ Retry(h).task = h.task /\ Retry(h).instance = h.instance
         /\ Retry(h).solver = h.solver /\ Retry(h).answer = h.answer
         /\ Retry(h).telling = h.telling /\ Retry(h).tries = h.tries
         /\ Retry(h).ahead = h.ahead /\ Retry(h).rev = h.rev
         /\ Retry(h).attempt \in {"flag", "burying"} /\ Retry(h).timer = FALSE
<1> DEFINE a == IF case.strategy = "buryme" THEN "burying" ELSE "flag"
<1>1. a \in {"flag", "burying"}
  OBVIOUS
<1>2. h.count \in Nat
  BY DEF Handlers
<1>3. h.count + 1 \in Nat
  BY <1>2
<1> DEFINE c == h.count + 1
<1>4. Retry(h) = [h EXCEPT !.attempt = a, !.count = c, !.timer = FALSE]
  BY DEF Retry
<1> HIDE DEF a, c
<1>5. c \in Nat BY <1>3 DEF c
<1> QED BY <1>1, <1>4, <1>5 DEF Handlers

LEMMA IterateFields ==
  ASSUME NEW h \in Handlers, NEW n \in 0..Len(Brothers)
  PROVE  /\ Iterate(h, n) \in Handlers
         /\ Iterate(h, n).task = h.task /\ Iterate(h, n).instance = h.instance
         /\ Iterate(h, n).telling = h.telling /\ Iterate(h, n).tries = h.tries
         /\ Iterate(h, n).rev = h.rev /\ Iterate(h, n).ahead = n
         /\ n = 0 => /\ Iterate(h, n).solver = "local" /\ Iterate(h, n).answer = h.answer
                     /\ Iterate(h, n).attempt \in {"flag", "burying"}
         /\ n # 0 => /\ Iterate(h, n).solver = "announced" /\ Iterate(h, n).answer = "none"
                     /\ Iterate(h, n).attempt = h.attempt /\ Iterate(h, n).timer = h.timer
<1>1. CASE n # 0
  BY <1>1 DEF Iterate, Handlers
<1>2. CASE n = 0
  <2> DEFINE g == [h EXCEPT !.solver = "local", !.ahead = 0]
  <2>1. /\ g \in Handlers /\ g.task = h.task /\ g.instance = h.instance
        /\ g.telling = h.telling /\ g.tries = h.tries /\ g.rev = h.rev /\ g.ahead = 0
        /\ g.solver = "local" /\ g.answer = h.answer
    BY <1>2 DEF Handlers
  <2>2. Iterate(h, n) = Retry(g)
    BY <1>2 DEF Iterate
  <2> HIDE DEF g
  <2>3. Iterate(h, n) \in Handlers /\ Iterate(h, n).ahead = g.ahead
    BY <2>1, <2>2, RetryFields
  <2>4. /\ Retry(g).task = g.task /\ Retry(g).instance = g.instance
        /\ Retry(g).telling = g.telling /\ Retry(g).tries = g.tries /\ Retry(g).rev = g.rev
        /\ Retry(g).solver = g.solver /\ Retry(g).answer = g.answer
        /\ Retry(g).attempt \in {"flag", "burying"}
    BY <2>1, RetryFields
  <2> QED BY <1>2, <2>1, <2>2, <2>3, <2>4
<1> QED BY <1>1, <1>2

LEMMA PlaceBounds ==
  ASSUME NEW m \in Monitors
  PROVE  /\ Place(m) \in 0..Len(Brothers)
         /\ m \in ToSet(Brothers) => /\ Place(m) < Len(Brothers) /\ Brothers[Place(m) + 1] = m
         /\ m \notin ToSet(Brothers) => Place(m) = Len(Brothers)
<1>1. Len(Brothers) \in Nat /\ DOMAIN Brothers = 1..Len(Brothers)
  BY BrothersAssumption
<1>2. CASE m \in ToSet(Brothers)
  <2>1. \E k \in 1..Len(Brothers) : Brothers[k] = m
    BY <1>1, <1>2 DEF ToSet
  <2>2. PICK k : k = (CHOOSE j \in 1..Len(Brothers) : Brothers[j] = m)
    OBVIOUS
  <2>3. k \in 1..Len(Brothers) /\ Brothers[k] = m
    BY <2>1, <2>2
  <2>4. Place(m) = k - 1
    BY <1>2, <2>2 DEF Place
  <2> QED BY <1>1, <1>2, <2>3, <2>4
<1> QED BY <1>1, <1>2 DEF Place

(* The end of a task answers those who wait for it.                        *)
LEMMA EndedFields ==
  ASSUME EndInv, NEW m \in Monitors, NEW failed \in BOOLEAN, NEW x \in Monitors
  PROVE  /\ Ended(m, failed)[x] \in Handlers
         /\ x = m => Ended(m, failed)[x] = IF failed \/ hd[m].task = "failed"
                                            THEN [Idle EXCEPT !.task = "failed"] ELSE Idle
         /\ x # m => /\ \/ Ended(m, failed)[x].answer \in {hd[x].answer, "broken"}
                        \/ ~failed /\ Ended(m, failed)[x].answer = "ready"
                     /\ Ended(m, failed)[x].task = hd[x].task
                     /\ Ended(m, failed)[x].instance = hd[x].instance
                     /\ Ended(m, failed)[x].solver = hd[x].solver
                     /\ Ended(m, failed)[x].telling = hd[x].telling
                     /\ Ended(m, failed)[x].tries = hd[x].tries
                     /\ Ended(m, failed)[x].ahead = hd[x].ahead
                     /\ Ended(m, failed)[x].rev = hd[x].rev
                     /\ Ended(m, failed)[x].attempt = hd[x].attempt
                     /\ Ended(m, failed)[x].timer = hd[x].timer
<1>1. CASE x = m
  BY <1>1, IdleOK DEF Ended, Closed, HandlerOK
<1>2. CASE x # m /\ Asks(x, m) /\ hd[x].answer = "waits"
  <2>1. \/ Ended(m, failed)[x] = [hd[x] EXCEPT !.answer = "broken"]
        \/ ~failed /\ Ended(m, failed)[x] = [hd[x] EXCEPT !.answer = "ready"]
    BY <1>2 DEF Ended, Closed
  <2>2. hd[x] \in Handlers
    BY DEF EndInv, TasksOK, HandlerOK
  <2> QED BY <1>2, <2>1, <2>2 DEF Handlers
<1>3. CASE x # m /\ ~(Asks(x, m) /\ hd[x].answer = "waits")
  <2>1. Ended(m, failed)[x] = hd[x]
    BY <1>3 DEF Ended, Closed
  <2> QED BY <1>3, <2>1 DEF EndInv, TasksOK, HandlerOK
<1> QED BY <1>1, <1>2, <1>3

LEMMA EndedOK ==
  ASSUME EndInv, NEW m \in Monitors, NEW failed \in BOOLEAN, hd' = Ended(m, failed),
         doc'.instance \in Nat, running' \in BOOLEAN, buried' \in BOOLEAN,
         doc.instance <= doc'.instance, running => running', buried => buried',
         failed \/ running' \/ buried'
  PROVE  TasksOK'
<1>1. DOMAIN Ended(m, failed) = Monitors /\ Ended(m, failed) = [x \in Monitors |-> Ended(m, failed)[x]]
  BY DEF Ended, Closed
<1>2. ASSUME NEW x \in Monitors
      PROVE  HandlerOK(hd'[x], doc'.instance, running', buried')
  <2>1. doc.instance \in Nat /\ running \in BOOLEAN /\ buried \in BOOLEAN
    BY DEF EndInv, WorldOK
  <2>2. CASE x = m
    BY <2>2, EndedFields, IdleOK
  <2>3. CASE x # m
    <3>1. HandlerOK(hd[x], doc'.instance, running', buried')
      BY <2>1, StaysOK DEF EndInv, TasksOK
    <3> QED BY <2>3, <3>1, EndedFields DEF HandlerOK
  <2> QED BY <2>2, <2>3
<1> QED BY <1>1, <1>2 DEF TasksOK

(* A step that changes one handler. *)
LEMMA SetOK ==
  ASSUME EndInv, NEW m \in Monitors, NEW h, hd' = [hd EXCEPT ![m] = h],
         doc'.instance \in Nat, running' \in BOOLEAN, buried' \in BOOLEAN,
         doc.instance <= doc'.instance, running => running', buried => buried',
         HandlerOK(h, doc'.instance, running', buried')
  PROVE  TasksOK'
<1>1. doc.instance \in Nat /\ running \in BOOLEAN /\ buried \in BOOLEAN
  BY DEF EndInv, WorldOK
<1>2. DOMAIN hd = Monitors
  BY DEF EndInv, TasksOK
<1>3. hd'[m] = h /\ \A x \in Monitors \ {m} : hd'[x] = hd[x]
  BY <1>2
<1>4. \A x \in Monitors \ {m} : HandlerOK(hd[x], doc'.instance, running', buried')
  BY <1>1, StaysOK DEF EndInv, TasksOK
<1>5. DOMAIN hd' = Monitors /\ hd' = [x \in Monitors |-> hd'[x]]
  BY <1>2
<1> QED BY <1>3, <1>4, <1>5 DEF TasksOK

(* A step that leaves the handlers alone. *)
LEMMA SameOK ==
  ASSUME EndInv, hd' = hd,
         doc'.instance \in Nat, running' \in BOOLEAN, buried' \in BOOLEAN,
         doc.instance <= doc'.instance, running => running', buried => buried'
  PROVE  TasksOK'
BY StaysOK DEF EndInv, WorldOK, TasksOK

-----------------------------------------------------------------------------
(* The steps *)

(* The task of a monitor that stays up ends well only in a settled death.  *)
EndsWell == \A x \in up \cap up' : hd[x].task # "none" /\ hd'[x].task = "none" => Settled'

Goes == EndInv' /\ EndsWell

(* A step that changes nothing but the handlers. *)
Alone == UNCHANGED <<doc, running, buried, known, helper, news>> /\ case' \in Case /\ up' \subseteq up /\ watching' \subseteq watching

LEMMA AloneOK ==
  ASSUME EndInv, Alone
  PROVE  /\ WorldOK'
         /\ doc'.instance \in Nat /\ running' \in BOOLEAN /\ buried' \in BOOLEAN
         /\ doc.instance <= doc'.instance /\ (running => running') /\ (buried => buried')
         /\ (Settled' <=> Settled) /\ doc' = doc /\ running' = running /\ buried' = buried
BY DEF EndInv, WorldOK, Alone, Settled

(* A step that changes one handler and does not end its task. *)
LEMMA AloneSets ==
  ASSUME EndInv, Alone, NEW m \in Monitors, NEW h, hd' = [hd EXCEPT ![m] = h],
         HandlerOK(h, doc.instance, running, buried), h.task # "none" \/ hd[m].task = "none"
  PROVE  Goes
<1>1. /\ WorldOK'
      /\ doc'.instance \in Nat /\ running' \in BOOLEAN /\ buried' \in BOOLEAN
      /\ doc.instance <= doc'.instance /\ (running => running') /\ (buried => buried')
      /\ doc' = doc /\ running' = running /\ buried' = buried
  BY AloneOK
<1>2. TasksOK'
  BY ONLY <1>1, SetOK, EndInv, m \in Monitors, hd' = [hd EXCEPT ![m] = h],
     HandlerOK(h, doc.instance, running, buried)
<1>3. DOMAIN hd = Monitors
  BY DEF EndInv, TasksOK
<1>4. \A x \in Monitors : hd'[x] = IF x = m THEN h ELSE hd[x]
  BY <1>3
<1>5. up \subseteq Monitors
  BY DEF EndInv, WorldOK
<1> QED BY <1>1, <1>2, <1>4, <1>5 DEF Goes, EndInv, EndsWell

(* A step that ends the task of a monitor, after the death is settled.     *)
LEMMA AloneEnds ==
  ASSUME EndInv, Alone, NEW m \in Monitors, NEW failed \in BOOLEAN, hd' = Ended(m, failed),
         failed \/ running \/ buried
  PROVE  Goes
<1>1. /\ WorldOK'
      /\ doc'.instance \in Nat /\ running' \in BOOLEAN /\ buried' \in BOOLEAN
      /\ doc.instance <= doc'.instance /\ (running => running') /\ (buried => buried')
      /\ (Settled' <=> Settled) /\ doc' = doc /\ running' = running /\ buried' = buried
  BY AloneOK
<1>2. TasksOK'
  BY ONLY <1>1, EndedOK, EndInv, m \in Monitors, failed \in BOOLEAN, hd' = Ended(m, failed),
     failed \/ running \/ buried
<1>3. up \subseteq Monitors
  BY DEF EndInv, WorldOK
<1>4. ASSUME NEW x \in up \cap up', hd[x].task # "none", hd'[x].task = "none"
      PROVE  Settled'
  <2>1. CASE x # m
    BY <1>3, <1>4, <2>1, EndedFields
  <2>2. CASE x = m
    <3>1. ~failed
      BY <1>3, <1>4, <2>2, EndedFields DEF Idle
    <3> QED BY <1>1, <3>1 DEF Settled
  <2> QED BY <2>1, <2>2
<1> QED BY <1>1, <1>2, <1>4 DEF Goes, EndInv, EndsWell

LEMMA HandlerFacts ==
  ASSUME EndInv, NEW m \in Monitors
  PROVE  /\ hd[m] \in Handlers /\ HandlerOK(hd[m], doc.instance, running, buried)
         /\ doc.instance \in Nat /\ doc.rev \in Nat /\ running \in BOOLEAN /\ buried \in BOOLEAN
         /\ doc.deleted \in BOOLEAN /\ known[m] \in 0..doc.instance /\ DOMAIN hd = Monitors
         /\ case \in Case /\ up \subseteq Monitors
BY DEF EndInv, WorldOK, TasksOK, HandlerOK

(* What the one who is asked knows: a solution is known only of a death    *)
(* that is settled.                                                        *)
LEMMA HandlingGoes ==
  ASSUME EndInv, NEW m \in Monitors, HandlingDeathRequested(m)
  PROVE  Goes
<1> DEFINE h == hd[m]
           r == Left(m)
           starts == hd[r].task = "none" /\ known[r] # 0 /\ known[r] = h.instance
           answer == IF hd[r].task \in {"fetching", "open"} \/ starts THEN "waits"
                     ELSE IF hd[r].task = "failed" \/ known[r] = 0 THEN "broken" ELSE "ready"
           g == [h EXCEPT !.solver = "granted", !.answer = answer]
           k == [hd[r] EXCEPT !.task = "fetching"]
<1>0. /\ h \in Handlers /\ HandlerOK(h, doc.instance, running, buried)
      /\ doc.instance \in Nat /\ running \in BOOLEAN /\ buried \in BOOLEAN
      /\ DOMAIN hd = Monitors /\ case \in Case /\ up \subseteq Monitors
  BY HandlerFacts
<1>1. r \in Monitors /\ h.solver = "announced" /\ h.task = "open" /\ h.ahead > 0
  BY <1>0 DEF HandlingDeathRequested, HandlerOK
<1>2. /\ hd[r] \in Handlers /\ HandlerOK(hd[r], doc.instance, running, buried)
      /\ known[r] \in 0..doc.instance
  BY <1>1, HandlerFacts
<1>3. Alone
  BY <1>0 DEF HandlingDeathRequested, Alone
<1>4. starts => r # m
  BY <1>1
<1>5. \A x \in Monitors :
        hd'[x] = IF x = m THEN g ELSE IF x = r /\ starts THEN k ELSE hd[x]
  <2>1. hd' = [hd EXCEPT ![m].solver = "granted", ![m].answer = answer,
                         ![r].task = IF starts THEN "fetching" ELSE @]
    BY DEF HandlingDeathRequested
  <2> HIDE DEF answer, starts, r
  <2>2. CASE starts
    BY <1>0, <1>1, <1>4, <2>1, <2>2
  <2>3. CASE ~starts
    <3>1. CASE r = m
      BY <1>0, <1>1, <2>1, <2>3, <3>1 DEF Handlers
    <3>2. CASE r # m
      <4>1. [hd[r] EXCEPT !.task = hd[r].task] = hd[r]
        BY <1>2 DEF Handlers
      <4> QED BY <1>0, <1>1, <2>1, <2>3, <3>2, <4>1
    <3> QED BY <3>1, <3>2
  <2> QED BY <2>2, <2>3
<1>6. DOMAIN hd' = Monitors /\ hd' = [x \in Monitors |-> hd'[x]]
  BY <1>0 DEF HandlingDeathRequested
<1>7. answer \in {"waits", "broken", "ready"} /\ (answer = "ready" => running \/ buried)
  <2>1. h.instance \in 1..doc.instance
    BY <1>0, <1>1 DEF HandlerOK
  <2>2. doc.instance > 1 => running
    BY DEF EndInv, WorldOK
  <2>3. answer = "ready" => known[r] # 0 /\ known[r] # h.instance
    BY <1>2 DEF Handlers
  <2> QED BY <1>0, <1>2, <2>1, <2>2, <2>3
<1>8. HandlerOK(g, doc.instance, running, buried)
  <2> HIDE DEF answer
  <2>1. /\ g \in Handlers /\ g.task = h.task /\ g.instance = h.instance /\ g.solver = "granted"
        /\ g.answer = answer /\ g.telling = h.telling /\ g.attempt = h.attempt /\ g.ahead = h.ahead
        /\ g.tries = h.tries
    BY <1>0, <1>7 DEF Handlers
  <2> HIDE DEF g
  <2> QED BY <1>0, <1>1, <1>7, <2>1 DEF HandlerOK
<1>9. starts => HandlerOK(k, doc.instance, running, buried)
  <2>1. /\ k \in Handlers /\ k.task = "fetching" /\ k.solver = hd[r].solver
        /\ k.answer = hd[r].answer /\ k.telling = hd[r].telling /\ k.attempt = hd[r].attempt
        /\ k.ahead = hd[r].ahead /\ k.tries = hd[r].tries
    BY <1>2 DEF Handlers
  <2> HIDE DEF k
  <2> QED BY <1>2, <2>1 DEF HandlerOK
<1>10. g.task = "open" /\ k.task = "fetching"
  BY <1>0, <1>1, <1>2 DEF Handlers
<1> HIDE DEF g, k, starts
<1>11. /\ WorldOK' /\ doc' = doc /\ running' = running /\ buried' = buried
  BY <1>3, AloneOK
<1>12. TasksOK'
  <2>1. \A x \in Monitors : HandlerOK(hd[x], doc.instance, running, buried)
    BY DEF EndInv, TasksOK
  <2> QED BY <1>5, <1>6, <1>8, <1>9, <1>11, <2>1 DEF TasksOK
<1>13. EndsWell
  BY <1>0, <1>5, <1>10 DEF EndsWell
<1> QED BY <1>11, <1>12, <1>13 DEF Goes, EndInv

LEMMA GrantGoes ==
  ASSUME EndInv, NEW m \in Monitors, GrantExpires(m)
  PROVE  Goes
<1> DEFINE h == hd[m]
           late == Left(m) \in up /\ h.answer # "broken"
           tried == h.tries + 1
           solver == IF tried < Tries THEN "announced" ELSE "gone"
           g == [h EXCEPT !.tries = tried, !.answer = "none", !.solver = solver]
<1>0. /\ h \in Handlers /\ HandlerOK(h, doc.instance, running, buried)
      /\ case \in Case /\ up \subseteq Monitors
  BY HandlerFacts
<1>1. h.solver = "granted" /\ h.task = "open" /\ h.ahead > 0
  BY <1>0 DEF GrantExpires, HandlerOK
<1>2. case' \in Case
  <2>1. CASE late
    <3>1. case.slow \in Nat /\ case.slow > 0
      BY <1>0, <2>1 DEF GrantExpires, Case
    <3>2. case.slow - 1 \in Nat
      BY <3>1
    <3>3. case' = [case EXCEPT !.slow = case.slow - 1]
      BY <2>1 DEF GrantExpires
    <3> QED BY <1>0, <3>2, <3>3 DEF Case
  <2>2. CASE ~late
    BY <1>0, <2>2 DEF GrantExpires
  <2> QED BY <2>1, <2>2
<1>3. Alone
  BY <1>0, <1>2 DEF GrantExpires, Alone
<1>4. hd' = [hd EXCEPT ![m] = g]
  BY DEF GrantExpires, Set
<1>5. tried \in 0..Tries
  <2>1. h.tries \in 0..Tries
    BY <1>0 DEF Handlers
  <2>2. h.tries < Tries
    BY <1>0, <1>1 DEF HandlerOK
  <2> QED BY <2>1, <2>2 DEF Tries
<1>6. solver \in {"announced", "gone"}
  OBVIOUS
<1> HIDE DEF tried, solver
<1>7. /\ g \in Handlers /\ g.task = h.task /\ g.instance = h.instance /\ g.solver = solver
      /\ g.answer = "none" /\ g.telling = h.telling /\ g.attempt = h.attempt /\ g.ahead = h.ahead
      /\ g.tries = tried
  BY <1>0, <1>5, <1>6 DEF Handlers
<1>8. solver = "announced" => tried < Tries
  BY DEF solver
<1> HIDE DEF g
<1>9. HandlerOK(g, doc.instance, running, buried) /\ g.task # "none"
  BY <1>0, <1>1, <1>6, <1>7, <1>8 DEF HandlerOK
<1> QED BY ONLY <1>3, <1>4, <1>9, AloneSets, EndInv, m \in Monitors

LEMMA TaskStepsGo ==
  ASSUME EndInv, NEW m \in Monitors, TaskSteps(m)
  PROVE  Goes
<1> DEFINE h == hd[m]
<1>0. /\ h \in Handlers /\ HandlerOK(h, doc.instance, running, buried)
      /\ doc.instance \in Nat /\ doc.rev \in Nat /\ running \in BOOLEAN /\ buried \in BOOLEAN
      /\ doc.deleted \in BOOLEAN /\ known[m] \in 0..doc.instance /\ DOMAIN hd = Monitors
      /\ case \in Case /\ up \subseteq Monitors
  BY HandlerFacts
<1>1. CASE HandleAgentDeath(m)
  <2>1. Alone
    BY <1>0, <1>1 DEF HandleAgentDeath, Alone
  <2>2. CASE h.task = "none"
    <3> DEFINE g == [h EXCEPT !.task = "fetching"]
    <3>1. g \in Handlers /\ g.task = "fetching" /\ g.tries = h.tries /\ g.solver = h.solver /\ g.answer = h.answer
          /\ g.telling = h.telling /\ g.attempt = h.attempt /\ g.ahead = h.ahead
      BY <1>0 DEF Handlers
    <3>2. hd' = [hd EXCEPT ![m] = g]
      BY <1>0, <1>1, <2>2 DEF HandleAgentDeath
    <3> HIDE DEF g
    <3>3. HandlerOK(g, doc.instance, running, buried)
      BY <1>0, <2>2, <3>1 DEF HandlerOK
    <3> QED BY ONLY <2>1, <2>2, <3>1, <3>2, <3>3, AloneSets, EndInv, m \in Monitors, "fetching" # "none"
  <2>3. CASE h.task # "none"
    <3>1. hd' = [hd EXCEPT ![m] = h]
      BY <1>1, <1>0, <2>3 DEF HandleAgentDeath, EndInv, TasksOK
    <3> QED BY ONLY <1>0, <2>1, <2>3, <3>1, AloneSets, EndInv, m \in Monitors
  <2> QED BY <2>2, <2>3
<1>2. CASE FetchDescriptor(m)
  <2>1. Alone
    BY <1>0, <1>2 DEF FetchDescriptor, Alone
  <2>2. CASE doc.deleted
    <3>1. hd' = Ended(m, TRUE)
      BY <1>2, <2>2 DEF FetchDescriptor
    <3> QED BY ONLY <2>1, <3>1, AloneEnds, EndInv, m \in Monitors, TRUE \in BOOLEAN
  <2>3. CASE ~doc.deleted
    <3> DEFINE f == [h EXCEPT !.task = "open", !.rev = doc.rev, !.instance = doc.instance]
    <3>1. /\ f \in Handlers /\ f.task = "open" /\ f.instance = doc.instance /\ f.solver = h.solver
          /\ f.answer = h.answer /\ f.telling = h.telling /\ f.attempt = h.attempt
          /\ f.tries = 0 /\ h.tries = 0
      BY <1>0, <1>2 DEF Handlers, HandlerOK, FetchDescriptor
    <3>2. hd' = [hd EXCEPT ![m] = Iterate(f, Place(m))]
      BY <1>2, <2>3 DEF FetchDescriptor
    <3> HIDE DEF f
    <3>3. Place(m) \in 0..Len(Brothers)
      BY PlaceBounds
    <3> DEFINE g == Iterate(f, Place(m))
    <3>4. /\ g \in Handlers /\ g.task = f.task /\ g.instance = f.instance /\ g.telling = f.telling
          /\ g.ahead = Place(m) /\ g.tries = f.tries
          /\ Place(m) = 0 => g.solver = "local" /\ g.answer = f.answer /\ g.attempt \in {"flag", "burying"}
          /\ Place(m) # 0 => g.solver = "announced" /\ g.answer = "none" /\ g.attempt = f.attempt
      BY <3>1, <3>3, IterateFields
    <3>5. hd' = [hd EXCEPT ![m] = g]
      BY <3>2
    <3> HIDE DEF g
    <3>6. doc.instance >= 1
      BY DEF EndInv, WorldOK
    <3>7. HandlerOK(g, doc.instance, running, buried)
      BY <1>0, <3>1, <3>3, <3>4, <3>6 DEF HandlerOK, Tries
    <3>8. g.task # "none"
      BY <3>1, <3>4
    <3> QED BY ONLY <2>1, <3>5, <3>7, <3>8, AloneSets, EndInv, m \in Monitors
  <2> QED BY <1>0, <2>2, <2>3
<1>3. CASE HandlingDeathRequested(m)
  BY <1>3, HandlingGoes
<1>4. CASE AnnounceExpires(m)
  <2>1. Alone
    BY <1>0, <1>4 DEF AnnounceExpires, Alone
  <2>2. h.ahead \in Nat /\ h.ahead > 0 /\ h.ahead - 1 \in 0..Len(Brothers) /\ h.task = "open"
        /\ h.tries < Tries
    BY <1>0, <1>4, BrothersAssumption DEF AnnounceExpires, HandlerOK, Handlers
  <2> DEFINE n == h.ahead - 1
             g == Iterate(h, n)
  <2>3. hd' = [hd EXCEPT ![m] = g]
    BY <1>4 DEF AnnounceExpires, Set
  <2>4. n \in 0..Len(Brothers)
    BY <2>2
  <2> HIDE DEF n
  <2>5. /\ g \in Handlers /\ g.task = h.task /\ g.instance = h.instance /\ g.telling = h.telling
        /\ g.ahead = n /\ g.tries = h.tries
        /\ n = 0 => g.solver = "local" /\ g.answer = h.answer /\ g.attempt \in {"flag", "burying"}
        /\ n # 0 => g.solver = "announced" /\ g.answer = "none" /\ g.attempt = h.attempt
    BY <1>0, <2>4, IterateFields
  <2> HIDE DEF g
  <2>6. HandlerOK(g, doc.instance, running, buried) /\ g.task # "none"
    BY <1>0, <2>2, <2>4, <2>5 DEF HandlerOK
  <2> QED BY ONLY <2>1, <2>3, <2>6, AloneSets, EndInv, m \in Monitors
<1>5. CASE GrantExpires(m)
  BY <1>5, GrantGoes
<1>6. CASE RestartHandled(m)
  <2>1. Alone
    BY <1>0, <1>6 DEF RestartHandled, Alone
  <2>2. hd' = Ended(m, FALSE) /\ (running \/ buried)
    BY <1>0, <1>6 DEF RestartHandled, HandlerOK
  <2> QED BY ONLY <2>1, <2>2, AloneEnds, EndInv, m \in Monitors, FALSE \in BOOLEAN
<1> QED BY <1>1, <1>2, <1>3, <1>4, <1>5, <1>6 DEF TaskSteps

(* A step that may change the document, and one handler.                   *)
LEMMA Sets ==
  ASSUME EndInv, WorldOK', NEW m \in Monitors, NEW h, hd' = [hd EXCEPT ![m] = h],
         doc.instance <= doc'.instance, running => running', buried => buried',
         HandlerOK(h, doc'.instance, running', buried'), h.task # "none" \/ hd[m].task = "none"
  PROVE  Goes
<1>1. doc'.instance \in Nat /\ running' \in BOOLEAN /\ buried' \in BOOLEAN
  BY DEF WorldOK
<1>2. TasksOK'
  BY ONLY <1>1, SetOK, EndInv, m \in Monitors, hd' = [hd EXCEPT ![m] = h],
     HandlerOK(h, doc'.instance, running', buried'),
     doc.instance <= doc'.instance, running => running', buried => buried'
<1>3. DOMAIN hd = Monitors /\ up \subseteq Monitors
  BY DEF EndInv, TasksOK, WorldOK
<1>4. \A x \in Monitors : hd'[x] = IF x = m THEN h ELSE hd[x]
  BY <1>3
<1> QED BY <1>2, <1>3, <1>4 DEF Goes, EndInv, EndsWell

LEMMA Ends ==
  ASSUME EndInv, WorldOK', NEW m \in Monitors, NEW failed \in BOOLEAN, hd' = Ended(m, failed),
         doc.instance <= doc'.instance, running => running', buried => buried',
         failed \/ running' \/ buried'
  PROVE  Goes
<1>1. doc'.instance \in Nat /\ running' \in BOOLEAN /\ buried' \in BOOLEAN
  BY DEF WorldOK
<1>2. TasksOK'
  BY ONLY <1>1, EndedOK, EndInv, m \in Monitors, failed \in BOOLEAN, hd' = Ended(m, failed),
     failed \/ running' \/ buried',
     doc.instance <= doc'.instance, running => running', buried => buried'
<1>3. up \subseteq Monitors
  BY DEF EndInv, WorldOK
<1>4. ASSUME NEW x \in up \cap up', hd[x].task # "none", hd'[x].task = "none"
      PROVE  Settled'
  <2>1. CASE x # m
    BY <1>3, <1>4, <2>1, EndedFields
  <2>2. CASE x = m
    <3>1. ~failed
      BY <1>3, <1>4, <2>2, EndedFields DEF Idle
    <3> QED BY <3>1 DEF Settled
  <2> QED BY <2>1, <2>2
<1> QED BY <1>2, <1>4 DEF Goes, EndInv, EndsWell

LEMMA Keeps ==
  ASSUME EndInv, WorldOK', hd' = hd,
         doc.instance <= doc'.instance, running => running', buried => buried'
  PROVE  Goes
<1>1. doc'.instance \in Nat /\ running' \in BOOLEAN /\ buried' \in BOOLEAN
  BY DEF WorldOK
<1>2. TasksOK'
  BY ONLY <1>1, SameOK, EndInv, hd' = hd,
     doc.instance <= doc'.instance, running => running', buried => buried'
<1> QED BY <1>2 DEF Goes, EndInv, EndsWell

(* An attempt that goes on without a change of anything but the attempt.   *)
LEMMA AttemptOK ==
  ASSUME NEW h, NEW i \in Nat, NEW r \in BOOLEAN, NEW b \in BOOLEAN, HandlerOK(h, i, r, b),
         NEW a \in {"asking", "waiting", "starting", "moving", "burying", "lost", "done"},
         NEW g, g = [h EXCEPT !.attempt = a]
  PROVE  HandlerOK(g, i, r, b) /\ g.task = h.task
<1>1. h \in Handlers
  BY DEF HandlerOK
<1>2. /\ g \in Handlers /\ g.task = h.task /\ g.instance = h.instance /\ g.solver = h.solver
      /\ g.answer = h.answer /\ g.telling = h.telling /\ g.attempt = a /\ g.ahead = h.ahead
      /\ g.tries = h.tries
  BY <1>1 DEF Handlers
<1> QED BY <1>2 DEF HandlerOK

LEMMA RevisionOK ==
  ASSUME NEW h, NEW i \in Nat, NEW r \in BOOLEAN, NEW b \in BOOLEAN, HandlerOK(h, i, r, b),
         NEW n \in Nat
  PROVE  HandlerOK([h EXCEPT !.rev = n], i, r, b) /\ [h EXCEPT !.rev = n].task = h.task
<1> DEFINE g == [h EXCEPT !.rev = n]
<1>1. h \in Handlers
  BY DEF HandlerOK
<1>2. /\ g \in Handlers /\ g.task = h.task /\ g.instance = h.instance /\ g.solver = h.solver
      /\ g.answer = h.answer /\ g.telling = h.telling /\ g.attempt = h.attempt
      /\ g.ahead = h.ahead /\ g.tries = h.tries
  BY <1>1 DEF Handlers
<1> HIDE DEF g
<1>3. HandlerOK(g, i, r, b) /\ g.task = h.task
  BY <1>2 DEF HandlerOK
<1> QED BY <1>3 DEF g

(* The notifications begin, and a timer may be set or not.                 *)
LEMMA TellingOK ==
  ASSUME NEW h, NEW i \in Nat, NEW b \in BOOLEAN, HandlerOK(h, i, TRUE, b)
  PROVE  /\ HandlerOK([h EXCEPT !.timer = FALSE, !.telling = TRUE], i, TRUE, b)
         /\ [h EXCEPT !.timer = FALSE, !.telling = TRUE].task = h.task
         /\ HandlerOK([h EXCEPT !.attempt = "done", !.telling = TRUE], i, TRUE, b)
         /\ [h EXCEPT !.attempt = "done", !.telling = TRUE].task = h.task
<1>1. h \in Handlers
  BY DEF HandlerOK
<1>2. ASSUME NEW g, g = [h EXCEPT !.timer = FALSE, !.telling = TRUE] \/ g = [h EXCEPT !.attempt = "done", !.telling = TRUE]
      PROVE  HandlerOK(g, i, TRUE, b) /\ g.task = h.task
  <2>1. /\ g \in Handlers /\ g.task = h.task /\ g.instance = h.instance /\ g.solver = h.solver
        /\ g.answer = h.answer /\ g.attempt \in {h.attempt, "done"} /\ g.ahead = h.ahead
        /\ g.tries = h.tries
    BY <1>1, <1>2 DEF Handlers
  <2> QED BY <2>1 DEF HandlerOK
<1> QED BY <1>2

LEMMA RetryOK ==
  ASSUME NEW h, NEW i \in Nat, NEW r \in BOOLEAN, NEW b \in BOOLEAN, HandlerOK(h, i, r, b)
  PROVE  HandlerOK(Retry(h), i, r, b) /\ Retry(h).task = h.task
<1>1. h \in Handlers
  BY DEF HandlerOK
<1>2. /\ Retry(h) \in Handlers
      /\ Retry(h).task = h.task /\ Retry(h).instance = h.instance
      /\ Retry(h).solver = h.solver /\ Retry(h).answer = h.answer
      /\ Retry(h).telling = h.telling /\ Retry(h).tries = h.tries
      /\ Retry(h).ahead = h.ahead /\ Retry(h).attempt \in {"flag", "burying"}
  BY <1>1, RetryFields
<1> QED BY <1>2 DEF HandlerOK

(* A new instance, or a saved document, leaves the world in order.         *)
LEMMA StartOK ==
  ASSUME EndInv, NEW k \in Nat,
         doc' = [doc EXCEPT !.rev = @ + k, !.instance = @ + 1], running' = TRUE,
         UNCHANGED <<case, up, buried, known, news>>, watching' \subseteq watching,
         helper' \in [Monitors -> {"none", "working", "reporting"}]
  PROVE  /\ WorldOK' /\ doc'.instance \in Nat /\ doc.instance <= doc'.instance
         /\ (running => running') /\ (buried => buried')
<1>0. doc \in [rev : Nat, instance : Nat, deleted : BOOLEAN]
  BY DEF EndInv, WorldOK
<1>1. doc.rev \in Nat /\ doc.instance \in Nat /\ doc.deleted \in BOOLEAN /\ doc.instance >= 1
  BY DEF EndInv, WorldOK
<1> DEFINE r == doc.rev + k
           i == doc.instance + 1
<1>11. r \in Nat /\ i \in Nat
  BY <1>1
<1>12. doc' = [doc EXCEPT !.rev = r, !.instance = i]
  OBVIOUS
<1> HIDE DEF r, i
<1>13. /\ doc' \in [rev : Nat, instance : Nat, deleted : BOOLEAN]
       /\ doc'.instance = i /\ doc'.deleted = doc.deleted
  BY <1>0, <1>11, <1>12
<1>2. /\ doc' \in [rev : Nat, instance : Nat, deleted : BOOLEAN]
      /\ doc'.instance = doc.instance + 1 /\ doc'.deleted = doc.deleted
  BY <1>13 DEF i
<1> QED BY <1>1, <1>2 DEF EndInv, WorldOK

LEMMA SaveOK ==
  ASSUME EndInv, NEW k \in Nat, doc' = [doc EXCEPT !.rev = @ + k],
         UNCHANGED <<case, up, running, buried, known, news>>, watching' \subseteq watching,
         helper' \in [Monitors -> {"none", "working", "reporting"}],
         \A m \in Monitors : helper'[m] = "reporting" => helper[m] = "reporting"
  PROVE  /\ WorldOK' /\ doc'.instance = doc.instance /\ doc.instance <= doc'.instance
         /\ doc'.rev = doc.rev + k /\ doc'.rev \in Nat
BY DEF EndInv, WorldOK

LEMMA SameWorld ==
  ASSUME EndInv, UNCHANGED <<case, up, doc, running, buried, known, news>>, watching' \subseteq watching,
         helper' \in [Monitors -> {"none", "working", "reporting"}],
         \A m \in Monitors : helper'[m] = "reporting" => helper[m] = "reporting"
  PROVE  /\ WorldOK' /\ doc'.instance = doc.instance /\ doc.instance <= doc'.instance
BY DEF EndInv, WorldOK

(* A solver expires, and the one whose attempt it was waiting for fails.   *)
LEMMA ExpiresSets ==
  ASSUME NEW m \in Monitors, SolverExpires(m), hd[m] \in Handlers
  PROVE  \/ \E a \in {hd[m].attempt, "starting", "moving", "burying"} :
              hd' = [hd EXCEPT ![m] = [hd[m] EXCEPT !.solver = "gone", !.attempt = a]]
         \/ /\ hd[m].attempt = "waiting" /\ UNCHANGED <<doc, running, helper>>
            /\ hd' = Closed(m, [hd[m] EXCEPT !.solver = "gone", !.task = "failed"], "broken")
         \/ hd' = Ended(m, TRUE) /\ hd[m].attempt \in {"moving", "adopting"}
<1> DEFINE h == hd[m]
<1>1. CASE ExpiresOver(m)
  <2>1. [h EXCEPT !.solver = "gone"] = [h EXCEPT !.solver = "gone", !.attempt = h.attempt]
    BY DEF Handlers
  <2> QED BY <1>1, <2>1 DEF ExpiresOver, Set
<1>2. CASE ExpiresSaving(m) \/ ExpiresAsking(m)
  BY <1>2 DEF ExpiresSaving, ExpiresAsking, Set
<1>3. CASE ExpiresWaiting(m)
  BY <1>3 DEF ExpiresWaiting
<1>4. CASE ExpiresStarting(m)
  <2> DEFINE a == IF case.strategy = "wherever" THEN "moving" ELSE "burying"
  <2>1. RestartFailed([h EXCEPT !.solver = "gone"]) = [h EXCEPT !.solver = "gone", !.attempt = a]
    BY DEF Handlers, RestartFailed
  <2> QED BY <1>4, <2>1 DEF ExpiresStarting, Set
<1>5. CASE ExpiresMoving(m)
  BY <1>5 DEF ExpiresMoving
<1> QED BY <1>1, <1>2, <1>3, <1>4, <1>5 DEF SolverExpires

LEMMA ExpiresWorld ==
  ASSUME EndInv, NEW m \in Monitors, SolverExpires(m)
  PROVE  /\ WorldOK' /\ doc.instance <= doc'.instance /\ (running => running')
         /\ UNCHANGED <<case, up, buried, known, watching, news>>
<1>0. UNCHANGED <<case, up, buried, known, watching, news>> /\ watching' \subseteq watching
  BY DEF SolverExpires
<1>1. helper \in [Monitors -> {"none", "working", "reporting"}] /\ doc.instance \in Nat
  BY DEF EndInv, WorldOK
<1>2. CASE UNCHANGED <<doc, running, helper>>
  BY <1>0, <1>1, <1>2, SameWorld
<1>3. CASE UNCHANGED <<doc, running>> /\ helper' = [helper EXCEPT ![m] = "working"]
  BY <1>0, <1>1, <1>3, SameWorld
<1>4. CASE UNCHANGED <<running, helper>> /\ \E k \in {1, 2} : doc' = [doc EXCEPT !.rev = @ + k]
  BY <1>0, <1>1, <1>4, SaveOK
<1>5. CASE /\ helper' = helper /\ running' = TRUE
           /\ \E k \in {1, 3} : doc' = [doc EXCEPT !.rev = @ + k, !.instance = @ + 1]
  BY <1>0, <1>1, <1>5, StartOK
<1> QED BY <1>0, <1>2, <1>3, <1>4, <1>5
        DEF SolverExpires, ExpiresOver, ExpiresSaving, ExpiresAsking, ExpiresWaiting,
            ExpiresStarting, ExpiresMoving, StartAgent

LEMMA ExpiresGoes ==
  ASSUME EndInv, NEW m \in Monitors, SolverExpires(m)
  PROVE  Goes
<1> DEFINE h == hd[m]
<1>0. /\ h \in Handlers /\ HandlerOK(h, doc.instance, running, buried)
      /\ running \in BOOLEAN /\ buried \in BOOLEAN /\ doc.instance \in Nat
      /\ DOMAIN hd = Monitors /\ up \subseteq Monitors
  BY HandlerFacts
<1>1. /\ WorldOK' /\ doc.instance <= doc'.instance /\ (running => running')
      /\ buried' = buried /\ up' = up
      /\ doc'.instance \in Nat /\ running' \in BOOLEAN /\ buried' \in BOOLEAN
  BY ExpiresWorld DEF WorldOK
<1>2. HandlerOK(h, doc'.instance, running', buried')
  BY <1>0, <1>1, StaysOK
<1>3. ASSUME NEW a \in {h.attempt, "starting", "moving", "burying"},
             hd' = [hd EXCEPT ![m] = [h EXCEPT !.solver = "gone", !.attempt = a]]
      PROVE  Goes
  <2> DEFINE g == [h EXCEPT !.solver = "gone", !.attempt = a]
  <2>1. g = [h EXCEPT !.solver = "gone", !.attempt = a] /\ hd' = [hd EXCEPT ![m] = g]
    BY <1>3
  <2> HIDE DEF g
  <2>2. /\ g \in Handlers /\ g.task = h.task /\ g.instance = h.instance /\ g.solver = "gone"
        /\ g.answer = h.answer /\ g.telling = h.telling /\ g.attempt = a
        /\ g.tries = h.tries
    BY <1>0, <2>1 DEF Handlers
  <2>3. HandlerOK(g, doc'.instance, running', buried')
    BY <1>2, <2>2 DEF HandlerOK
  <2> QED BY <1>1, <2>1, <2>2, <2>3, Sets
<1>4. CASE /\ h.attempt = "waiting" /\ UNCHANGED <<doc, running, helper>>
           /\ hd' = Closed(m, [h EXCEPT !.solver = "gone", !.task = "failed"], "broken")
  <2> DEFINE g == [h EXCEPT !.solver = "gone", !.task = "failed"]
  <2>1. /\ g \in Handlers /\ g.task = "failed" /\ g.solver = "gone" /\ g.tries = h.tries
        /\ g.answer = h.answer /\ g.telling = h.telling /\ g.attempt = h.attempt
        /\ g.instance = h.instance
    BY <1>0 DEF Handlers
  <2>2. hd' = Closed(m, g, "broken")
    BY <1>4
  <2> HIDE DEF g
  <2>4. HandlerOK(g, doc.instance, running, buried)
    BY <1>0, <2>1 DEF HandlerOK
  <2>5. ASSUME NEW x \in Monitors, x # m
        PROVE  HandlerOK(hd'[x], doc.instance, running, buried) /\ hd'[x].task = hd[x].task
    <3>1. hd[x] \in Handlers /\ HandlerOK(hd[x], doc.instance, running, buried)
      BY HandlerFacts
    <3>2. hd'[x] = hd[x] \/ hd'[x] = [hd[x] EXCEPT !.answer = "broken"]
      BY <2>2, <2>5 DEF Closed
    <3>3. /\ [hd[x] EXCEPT !.answer = "broken"] \in Handlers
          /\ HandlerOK([hd[x] EXCEPT !.answer = "broken"], doc.instance, running, buried)
          /\ [hd[x] EXCEPT !.answer = "broken"].task = hd[x].task
      BY <3>1 DEF HandlerOK, Handlers
    <3> QED BY <3>1, <3>2, <3>3
  <2>6. hd'[m] = g /\ DOMAIN hd' = Monitors /\ hd' = [x \in Monitors |-> hd'[x]]
    BY <2>2 DEF Closed
  <2>7. doc' = doc /\ running' = running /\ buried' = buried
    BY <1>1, <1>4
  <2>8. \A x \in Monitors : HandlerOK(hd'[x], doc.instance, running, buried)
    BY <2>4, <2>5, <2>6
  <2>9. TasksOK'
    BY <2>6, <2>7, <2>8 DEF TasksOK
  <2>10. EndsWell
    BY <1>0, <2>1, <2>5, <2>6 DEF EndsWell
  <2> QED BY <1>1, <2>9, <2>10 DEF Goes, EndInv
<1>5. CASE hd' = Ended(m, TRUE)
  BY <1>1, <1>5, Ends
<1> QED BY <1>0, <1>3, <1>4, <1>5, ExpiresSets

LEMMA AttemptStepsGo ==
  ASSUME EndInv, NEW m \in Monitors, AttemptSteps(m)
  PROVE  Goes
<1> DEFINE h == hd[m]
<1>0. /\ h \in Handlers /\ HandlerOK(h, doc.instance, running, buried)
      /\ doc.instance \in Nat /\ doc.rev \in Nat /\ running \in BOOLEAN /\ buried \in BOOLEAN
      /\ doc.deleted \in BOOLEAN /\ DOMAIN hd = Monitors
  BY HandlerFacts
<1>01. helper \in [Monitors -> {"none", "working", "reporting"}]
  BY DEF EndInv, WorldOK
<1>1. CASE SetRestartFlag(m)
  <2>0. watching' \subseteq watching /\ helper' = helper
        /\ UNCHANGED <<case, up, running, buried, known, news>>
    BY <1>1 DEF SetRestartFlag
  <2>1. CASE Current(m) /\ Saved(m, [hd[m] EXCEPT !.attempt = "asking"], 1)
    <3> DEFINE g == [h EXCEPT !.attempt = "asking"]
               f == [g EXCEPT !.rev = doc.rev + 1]
    <3>11. g = [h EXCEPT !.attempt = "asking"]
      OBVIOUS
    <3> HIDE DEF g
    <3>1. HandlerOK(g, doc.instance, running, buried) /\ g.task = h.task
      BY <1>0, <3>11, AttemptOK
    <3>2. doc.rev + 1 \in Nat
      BY <1>0
    <3>3. HandlerOK(f, doc.instance, running, buried) /\ f.task = g.task
      BY ONLY <1>0, <3>1, <3>2, RevisionOK
    <3>4. hd' = [hd EXCEPT ![m] = f] /\ doc' = [doc EXCEPT !.rev = @ + 1]
      BY <2>1, <3>11 DEF Saved, Set
    <3> HIDE DEF f
    <3>5. WorldOK' /\ doc'.instance = doc.instance /\ doc.instance <= doc'.instance
      BY <1>01, <2>0, <3>4, SaveOK
    <3> QED BY <2>0, <3>1, <3>3, <3>4, <3>5, Sets
  <2>2. CASE Set(m, [hd[m] EXCEPT !.attempt = "starting"]) /\ UNCHANGED doc
    <3>1. WorldOK' /\ doc'.instance = doc.instance /\ doc.instance <= doc'.instance
      BY <1>01, <2>0, <2>2, SameWorld
    <3> DEFINE g == [h EXCEPT !.attempt = "starting"]
    <3>11. g = [h EXCEPT !.attempt = "starting"] /\ hd' = [hd EXCEPT ![m] = g]
      BY <2>2 DEF Set
    <3> HIDE DEF g
    <3>2. HandlerOK(g, doc.instance, running, buried) /\ g.task = h.task
      BY <1>0, <3>11, AttemptOK
    <3> QED BY <2>0, <2>2, <3>1, <3>2, <3>11, Sets
  <2> QED BY <1>1, <2>1, <2>2 DEF SetRestartFlag
<1>2. CASE PartnersAnswer(m)
  <2>0. watching' \subseteq watching /\ UNCHANGED <<case, up, doc, running, buried, known, news>>
    BY <1>2 DEF PartnersAnswer
  <2>1. CASE helper' = [helper EXCEPT ![m] = "working"]
             /\ Set(m, [hd[m] EXCEPT !.attempt = "waiting", !.timer = TRUE])
    <3>1. WorldOK' /\ doc'.instance = doc.instance /\ doc.instance <= doc'.instance
      BY <1>01, <2>0, <2>1, SameWorld
    <3> DEFINE g == [h EXCEPT !.attempt = "waiting", !.timer = TRUE]
    <3>2. /\ g \in Handlers /\ g.task = h.task /\ g.instance = h.instance /\ g.solver = h.solver
          /\ g.answer = h.answer /\ g.telling = h.telling /\ g.attempt = "waiting"
          /\ g.ahead = h.ahead /\ g.tries = h.tries
      BY <1>0 DEF Handlers
    <3>3. hd' = [hd EXCEPT ![m] = g]
      BY <2>1 DEF Set
    <3> HIDE DEF g
    <3>4. HandlerOK(g, doc.instance, running, buried)
      BY <1>0, <3>2 DEF HandlerOK
    <3> QED BY <2>0, <3>1, <3>2, <3>3, <3>4, Sets
  <2>2. CASE Set(m, [hd[m] EXCEPT !.attempt = "starting"]) /\ UNCHANGED helper
    <3>1. WorldOK' /\ doc'.instance = doc.instance /\ doc.instance <= doc'.instance
      BY <1>01, <2>0, <2>2, SameWorld
    <3> DEFINE g == [h EXCEPT !.attempt = "starting"]
    <3>11. g = [h EXCEPT !.attempt = "starting"] /\ hd' = [hd EXCEPT ![m] = g]
      BY <2>2 DEF Set
    <3> HIDE DEF g
    <3>2. HandlerOK(g, doc.instance, running, buried) /\ g.task = h.task
      BY <1>0, <3>11, AttemptOK
    <3> QED BY <2>0, <2>2, <3>1, <3>2, <3>11, Sets
  <2> QED BY <1>2, <2>1, <2>2 DEF PartnersAnswer
<1>3. CASE HelperEnds(m)
  <2>0. /\ hd' = hd /\ watching' \subseteq watching /\ UNCHANGED <<case, up, buried, known, news>>
        /\ helper' \in [Monitors -> {"none", "working", "reporting"}]
    BY <1>01, <1>3 DEF HelperEnds
  <2>1. CASE StartAgent
    <3>1. running' = TRUE /\ doc' = [doc EXCEPT !.rev = @ + 1, !.instance = @ + 1]
      BY <2>1 DEF StartAgent
    <3>2. WorldOK' /\ doc.instance <= doc'.instance /\ (running => running')
      BY <2>0, <3>1, StartOK
    <3> QED BY <2>0, <3>2, Keeps
  <2>2. CASE helper' = [helper EXCEPT ![m] = "none"] /\ UNCHANGED <<doc, running>>
    <3>1. WorldOK' /\ doc.instance <= doc'.instance
      BY <1>01, <2>0, <2>2, SameWorld
    <3> QED BY <2>0, <2>2, <3>1, Keeps
  <2>3. CASE helper' = [helper EXCEPT ![m] = "none"] /\ doc' = [doc EXCEPT !.rev = @ + 1] /\ UNCHANGED running
    <3>1. WorldOK' /\ doc.instance <= doc'.instance
      BY <1>01, <2>0, <2>3, SaveOK
    <3> QED BY <2>0, <2>3, <3>1, Keeps
  <2> QED BY <1>3, <2>1, <2>2, <2>3 DEF HelperEnds
<1>4. CASE RestartComplete(m)
  <2>0. /\ watching' \subseteq watching /\ UNCHANGED <<case, up, doc, running, buried, known, news>>
        /\ helper' = [helper EXCEPT ![m] = "none"]
    BY <1>4 DEF RestartComplete
  <2>1. WorldOK' /\ doc'.instance = doc.instance /\ doc.instance <= doc'.instance
    BY <1>01, <2>0, SameWorld
  <2>2. running
    BY <1>4 DEF RestartComplete, EndInv, WorldOK
  <2>3. CASE Set(m, [h EXCEPT !.timer = FALSE, !.telling = TRUE])
    <3> DEFINE g == [h EXCEPT !.timer = FALSE, !.telling = TRUE]
    <3>1. HandlerOK(g, doc.instance, TRUE, buried) /\ g.task = h.task
      BY <1>0, <2>2, TellingOK
    <3>2. hd' = [hd EXCEPT ![m] = g]
      BY <2>3 DEF Set
    <3> HIDE DEF g
    <3> QED BY <2>0, <2>1, <2>2, <3>1, <3>2, Sets
  <2>4. CASE hd' = hd
    BY <2>0, <2>1, <2>4, Keeps
  <2> QED BY <1>4, <2>3, <2>4 DEF RestartComplete
<1>5. CASE WaitingTimeout(m)
  <2>0. /\ watching' \subseteq watching /\ UNCHANGED <<case, up, doc, running, buried, known, news, helper>>
        /\ hd' = [hd EXCEPT ![m] = Retry(h)]
    BY <1>5 DEF WaitingTimeout, Set
  <2>1. WorldOK' /\ doc'.instance = doc.instance /\ doc.instance <= doc'.instance
    BY <1>01, <2>0, SameWorld
  <2>2. HandlerOK(Retry(h), doc.instance, running, buried) /\ Retry(h).task = h.task
    BY <1>0, RetryOK
  <2> QED BY <2>0, <2>1, <2>2, Sets
<1>6. CASE RestartYourself(m)
  <2>0. watching' \subseteq watching /\ UNCHANGED <<case, up, buried, known, news, helper>>
    BY <1>6 DEF RestartYourself
  <2>1. CASE StartAgent /\ Set(m, [hd[m] EXCEPT !.attempt = "done", !.telling = TRUE])
    <3> DEFINE g == [h EXCEPT !.attempt = "done", !.telling = TRUE]
    <3>1. /\ running' = TRUE /\ doc' = [doc EXCEPT !.rev = @ + 1, !.instance = @ + 1]
          /\ hd' = [hd EXCEPT ![m] = g]
      BY <2>1 DEF StartAgent, Set
    <3>2. WorldOK' /\ doc'.instance \in Nat /\ doc.instance <= doc'.instance /\ (running => running')
      BY <1>01, <2>0, <3>1, StartOK
    <3>3. HandlerOK(h, doc'.instance, TRUE, buried)
      BY <1>0, <3>2, StaysOK
    <3>4. HandlerOK(g, doc'.instance, TRUE, buried) /\ g.task = h.task
      BY <1>0, <3>2, <3>3, TellingOK
    <3> HIDE DEF g
    <3> QED BY <2>0, <3>1, <3>2, <3>4, Sets
  <2>2. CASE Set(m, RestartFailed(hd[m])) /\ UNCHANGED <<doc, running>>
    <3>1. WorldOK' /\ doc'.instance = doc.instance /\ doc.instance <= doc'.instance
      BY <1>01, <2>0, <2>2, SameWorld
    <3>2. PICK a \in {"moving", "burying"} : hd' = [hd EXCEPT ![m] = [h EXCEPT !.attempt = a]]
      BY <2>2 DEF RestartFailed, Set
    <3> DEFINE g == [h EXCEPT !.attempt = a]
    <3>11. g = [h EXCEPT !.attempt = a]
      OBVIOUS
    <3>4. hd' = [hd EXCEPT ![m] = g]
      BY <3>2
    <3> HIDE DEF g
    <3>3. HandlerOK(g, doc.instance, running, buried) /\ g.task = h.task
      BY <1>0, <3>11, AttemptOK
    <3> QED BY <2>0, <2>2, <3>1, <3>3, <3>4, Sets
  <2> QED BY <1>6, <2>1, <2>2 DEF RestartYourself
<1>7. CASE Move(m)
  <2>0. watching' \subseteq watching /\ UNCHANGED <<case, up, buried, known, news, helper>>
    BY <1>7 DEF Move
  <2>1. CASE /\ running' = TRUE
             /\ doc' = [doc EXCEPT !.rev = @ + 3, !.instance = @ + 1]
             /\ Set(m, [hd[m] EXCEPT !.attempt = "done", !.telling = TRUE])
    <3> DEFINE g == [h EXCEPT !.attempt = "done", !.telling = TRUE]
    <3>1. hd' = [hd EXCEPT ![m] = g]
      BY <2>1 DEF Set
    <3>2. WorldOK' /\ doc'.instance \in Nat /\ doc.instance <= doc'.instance /\ (running => running')
      BY <1>01, <2>0, <2>1, StartOK
    <3>3. HandlerOK(h, doc'.instance, TRUE, buried)
      BY <1>0, <3>2, StaysOK
    <3>4. HandlerOK(g, doc'.instance, TRUE, buried) /\ g.task = h.task
      BY <1>0, <3>2, <3>3, TellingOK
    <3> HIDE DEF g
    <3> QED BY <2>0, <2>1, <3>1, <3>2, <3>4, Sets
  <2>2. CASE Saved(m, [hd[m] EXCEPT !.attempt = "lost"], 2) /\ UNCHANGED running
    <3> DEFINE g == [h EXCEPT !.attempt = "lost"]
               f == [g EXCEPT !.rev = doc.rev + 2]
    <3>11. g = [h EXCEPT !.attempt = "lost"]
      OBVIOUS
    <3> HIDE DEF g
    <3>1. HandlerOK(g, doc.instance, running, buried) /\ g.task = h.task
      BY <1>0, <3>11, AttemptOK
    <3>2. doc.rev + 2 \in Nat
      BY <1>0
    <3>3. HandlerOK(f, doc.instance, running, buried) /\ f.task = g.task
      BY ONLY <1>0, <3>1, <3>2, RevisionOK
    <3>4. hd' = [hd EXCEPT ![m] = f] /\ doc' = [doc EXCEPT !.rev = @ + 2]
      BY <2>2, <3>11 DEF Saved, Set
    <3> HIDE DEF f
    <3>5. WorldOK' /\ doc'.instance = doc.instance /\ doc.instance <= doc'.instance
      BY <1>01, <2>0, <2>2, <3>4, SaveOK
    <3> QED BY <2>0, <2>2, <3>1, <3>3, <3>4, <3>5, Sets
  <2>3. CASE hd' = Ended(m, TRUE) /\ UNCHANGED <<doc, running>>
    <3>1. WorldOK' /\ doc.instance <= doc'.instance
      BY <1>01, <2>0, <2>3, SameWorld
    <3> QED BY <2>0, <2>3, <3>1, Ends
  <2> QED BY <1>7, <2>1, <2>2, <2>3 DEF Move
<1>8. CASE RestartedTold(m)
  <2>1. /\ running /\ UNCHANGED <<case, up, doc, running, buried, known, watching, helper>>
        /\ news' = news \cup Listeners
    BY <1>0, <1>8 DEF RestartedTold, HandlerOK
  <2>2. WorldOK' /\ doc.instance <= doc'.instance
    BY <1>0, <2>1 DEF EndInv, WorldOK, Listeners
  <2>3. CASE hd' = Ended(m, FALSE)
    BY <2>1, <2>2, <2>3, Ends
  <2>4. CASE hd' = [hd EXCEPT ![m].telling = FALSE]
    <3> DEFINE g == [h EXCEPT !.telling = FALSE]
    <3>1. hd' = [hd EXCEPT ![m] = g]
      BY <2>4
    <3>3. /\ g \in Handlers /\ g.task = h.task /\ g.instance = h.instance /\ g.solver = h.solver
          /\ g.answer = h.answer /\ g.telling = FALSE /\ g.attempt = h.attempt
          /\ g.ahead = h.ahead /\ g.tries = h.tries
      BY <1>0 DEF Handlers
    <3> HIDE DEF g
    <3>2. HandlerOK(g, doc.instance, running, buried) /\ g.task = h.task
      BY <1>0, <3>3 DEF HandlerOK
    <3> QED BY <2>1, <2>2, <3>1, <3>2, Sets
  <2> QED BY <1>8, <2>3, <2>4 DEF RestartedTold
<1>9. CASE BuriedTold(m)
  <2>0. /\ UNCHANGED <<case, up, running, known, watching, helper>> /\ buried' = TRUE
        /\ news' = news \cup Listeners /\ doc' \in {doc, [doc EXCEPT !.deleted = TRUE]}
    BY <1>9 DEF BuriedTold
  <2>1. doc'.instance = doc.instance /\ doc' \in [rev : Nat, instance : Nat, deleted : BOOLEAN]
    BY <2>0 DEF EndInv, WorldOK
  <2>2. WorldOK' /\ doc.instance <= doc'.instance
    BY <1>0, <2>0, <2>1 DEF EndInv, WorldOK, Listeners
  <2>3. CASE case.strategy = "monitor"
    <3> DEFINE g == [h EXCEPT !.attempt = "adopting"]
    <3>1. /\ g \in Handlers /\ g.task = h.task /\ g.instance = h.instance /\ g.solver = h.solver
          /\ g.answer = h.answer /\ g.telling = h.telling /\ g.attempt = "adopting"
          /\ g.ahead = h.ahead /\ g.tries = h.tries
      BY <1>0 DEF Handlers
    <3>2. hd' = [hd EXCEPT ![m] = g]
      BY <1>9, <2>3 DEF BuriedTold
    <3> HIDE DEF g
    <3>3. HandlerOK(g, doc'.instance, running', TRUE)
      BY <1>0, <2>0, <2>1, <3>1 DEF HandlerOK
    <3> QED BY <2>0, <2>2, <3>1, <3>2, <3>3, Sets
  <2>4. CASE case.strategy # "monitor"
    <3>1. hd' = Ended(m, h.attempt = "lost")
      BY <1>9, <2>4 DEF BuriedTold
    <3> DEFINE failed == h.attempt = "lost"
    <3>2. failed \in BOOLEAN
      OBVIOUS
    <3>3. hd' = Ended(m, failed)
      BY <3>1
    <3> HIDE DEF failed
    <3> QED BY <2>0, <2>2, <3>2, <3>3, Ends
  <2> QED BY <2>3, <2>4
<1>10. CASE Adopt(m)
  <2>1. /\ buried /\ hd' = Ended(m, FALSE) /\ Alone
    BY <1>0, <1>10, HandlerFacts DEF Adopt, HandlerOK, Attempts, Alone
  <2> QED BY ONLY <2>1, AloneEnds, EndInv, m \in Monitors, FALSE \in BOOLEAN
<1>11. CASE SolverExpires(m)
  BY <1>11, ExpiresGoes
<1> QED BY <1>1, <1>2, <1>3, <1>4, <1>5, <1>6, <1>7, <1>8, <1>9, <1>10, <1>11 DEF AttemptSteps

LEMMA NewsGo ==
  ASSUME EndInv, NEW m \in Monitors, Hear(m) \/ MonitorCrash(m)
  PROVE  Goes
<1>1. CASE Hear(m)
  <2>1. /\ hd' = hd /\ UNCHANGED <<case, up, doc, running, buried, helper>>
        /\ watching' \subseteq watching /\ news' \subseteq news
        /\ \E k \in {0, doc.instance} : known' = [known EXCEPT ![m] = k]
    BY <1>1 DEF Hear
  <2>2. WorldOK' /\ doc.instance <= doc'.instance
    <3>1. doc.instance \in Nat /\ known \in [Monitors -> Nat] /\ \A x \in Monitors : known[x] <= doc.instance
      BY DEF EndInv, WorldOK
    <3>2. known' \in [Monitors -> Nat] /\ \A x \in Monitors : known'[x] <= doc.instance
      BY <2>1, <3>1
    <3> QED BY <2>1, <3>1, <3>2 DEF EndInv, WorldOK
  <2> QED BY <2>1, <2>2, Keeps
<1>2. CASE MonitorCrash(m)
  <2>0. /\ hd' = [hd EXCEPT ![m] = Idle] /\ UNCHANGED <<doc, running, buried, known, watching, news, helper>>
        /\ up' = up \ {m} /\ case' = [case EXCEPT !.crashes = @ - 1] /\ case.crashes > 0
    BY <1>2 DEF MonitorCrash, Set
  <2>1. case \in Case /\ case.crashes \in Nat
    BY DEF EndInv, WorldOK, Case
  <2>2. case.crashes - 1 \in Nat
    BY <2>0, <2>1
  <2>3. case' \in Case
    BY <2>0, <2>1, <2>2 DEF Case
  <2>4. WorldOK' /\ doc'.instance = doc.instance /\ doc.instance \in Nat
        /\ running \in BOOLEAN /\ buried \in BOOLEAN
    BY <2>0, <2>3 DEF EndInv, WorldOK
  <2>5. HandlerOK(Idle, doc.instance, running, buried)
    BY <2>4, IdleOK
  <2>6. TasksOK'
    <3>1. running' = running /\ buried' = buried /\ doc' = doc
      BY <2>0
    <3>2. /\ doc'.instance \in Nat /\ running' \in BOOLEAN /\ buried' \in BOOLEAN
          /\ doc.instance <= doc'.instance /\ (running => running') /\ (buried => buried')
          /\ HandlerOK(Idle, doc'.instance, running', buried')
      BY <2>4, <2>5, <3>1
    <3> QED BY ONLY <2>0, <3>2, SetOK, EndInv, m \in Monitors
  <2>7. EndsWell
    BY <2>0, HandlerFacts DEF EndsWell
  <2> QED BY <2>4, <2>6, <2>7 DEF Goes, EndInv
<1> QED BY <1>1, <1>2

LEMMA DeathGoes ==
  ASSUME EndInv, [DeathNext]_deathVars
  PROVE  EndInv' /\ (EndsWell \/ UNCHANGED deathVars)
<1>1. CASE DeathNext
  <2>1. PICK m \in Monitors : TaskSteps(m) \/ AttemptSteps(m) \/ Hear(m) \/ MonitorCrash(m)
    BY <1>1 DEF DeathNext
  <2>2. Goes
    BY <2>1, TaskStepsGo, AttemptStepsGo, NewsGo
  <2> QED BY <2>2 DEF Goes
<1>2. CASE UNCHANGED deathVars
  <2>1. Goes
    BY <1>2, Keeps DEF deathVars, EndInv, WorldOK
  <2> QED BY <2>1, <1>2 DEF Goes
<1> QED BY <1>1, <1>2

LEMMA DeathBegins == DeathInit => EndInv
<1> SUFFICES ASSUME DeathInit PROVE EndInv
  OBVIOUS
<1>0. known \in [Monitors -> {0, 1}]
  BY DEF DeathInit
<1>01. known \in [Monitors -> Nat] /\ \A m \in Monitors : known[m] <= 1
  BY <1>0
<1>02. /\ doc \in [rev : Nat, instance : Nat, deleted : BOOLEAN] /\ doc.instance = 1
       /\ doc.deleted = FALSE /\ case \in Case /\ Partnered \subseteq Monitors
  BY BrothersAssumption DEF DeathInit
<1>03. helper \in [Monitors -> {"none", "working", "reporting"}] /\ \A m \in Monitors : helper[m] = "none"
  BY DEF DeathInit
<1>04. up = Monitors /\ running = FALSE /\ buried = FALSE /\ watching = Partnered /\ news = {}
  BY DEF DeathInit
<1>05. running \in BOOLEAN /\ buried \in BOOLEAN /\ ~running /\ ~buried /\ ~doc.deleted
  BY <1>02, <1>04
<1>06. \A m \in Monitors : helper[m] # "reporting"
  BY <1>03
<1>07. up \subseteq Monitors /\ watching \subseteq Monitors /\ news \subseteq Monitors
  BY <1>02, <1>04
<1>08. doc.instance >= 1 /\ ~(doc.instance > 1) /\ \A m \in Monitors : known[m] <= doc.instance
  BY <1>01, <1>02
<1>1. WorldOK
  BY ONLY <1>01, <1>02, <1>03, <1>05, <1>06, <1>07, <1>08 DEF WorldOK
<1>2. HandlerOK(Idle, 1, FALSE, FALSE)
  BY IdleOK
<1>3. TasksOK
  BY <1>2 DEF DeathInit, TasksOK
<1> QED BY <1>1, <1>3 DEF EndInv

(* A monitor's HandleDeath task ends well only when the agent has been     *)
(* restarted or buried, by whomever: restart_handeled() and the answers of *)
(* handling_death_requested() never come too early, whatever is lost or    *)
(* late, whoever crashes, and whatever volunteers do to the document.      *)
THEOREM SettledFirst == DeathSpec => EndsWhenSettled
<1>1. DeathInit => EndInv
  BY DeathBegins
<1>2. EndInv /\ [DeathNext]_deathVars => EndInv'
  BY DeathGoes
<1>3. EndInv /\ [DeathNext]_deathVars => [\A m \in up \cap up' : hd[m].task # "none" /\ hd'[m].task = "none" => Settled']_deathVars
  BY DeathGoes DEF EndsWell
<1> QED BY <1>1, <1>2, <1>3, PTL DEF DeathSpec, EndsWhenSettled

-----------------------------------------------------------------------------
(* One monitor resolves the death *)

(* Whoever resolves the death, or asks, has removed brothers that are down. *)
Resolves(h) == h.solver = "local" \/ h.attempt # "none"

AheadOK(h, m, live) ==
  /\ h.ahead <= Place(m)
  /\ h.task \in {"none", "fetching"} => h.solver = "none"
  /\ h.attempt # "none" => h.solver \in {"local", "gone"}
  /\ h.timer => h.attempt # "none"
  /\ Resolves(h) => h.ahead = 0
  /\ h.solver \in {"announced", "granted"} \/ Resolves(h) =>
       \A k \in h.ahead + 1 .. Place(m) : Brothers[k] \notin live

AheadInv == ~case.lost /\ \A m \in Monitors : AheadOK(hd[m], m, up)

(* How the list and the solver of a monitor x change from h to g.          *)
Waits(h) == h.solver \in {"announced", "granted"}
Early(h) == h.task \in {"none", "fetching"}
Stays(h, g) ==
  /\ g.ahead = h.ahead
  /\ \/ g.solver = h.solver
     \/ Waits(h) /\ g.solver \in {"gone", "announced", "granted"}
     \/ h.solver = "local" /\ g.solver = "gone"
  /\ Early(g) => Early(h)
  /\ (g.attempt = "none" <=> h.attempt = "none") /\ (g.timer => h.timer \/ g.attempt # "none")
Clears(g) == g.ahead = 0 /\ g.solver = "none" /\ g.attempt = "none" /\ ~g.timer
Asked(g) ==
  /\ g.solver = IF g.ahead = 0 THEN "local" ELSE "announced"
  /\ ~Early(g) /\ (g.ahead # 0 => g.attempt = "none") /\ (g.timer => g.attempt # "none")
Begins(g, x) == g.ahead = Place(x) /\ Asked(g)
Skips(h, g) ==
  /\ h.solver = "announced" /\ h.ahead > 0 /\ (Brothers[h.ahead] \notin up \/ case.lost)
  /\ g.ahead = h.ahead - 1 /\ Asked(g)
AheadStep ==
  /\ up' \subseteq up /\ case'.lost = case.lost
  /\ \A x \in Monitors :
       Stays(hd[x], hd'[x]) \/ Clears(hd'[x]) \/ Begins(hd'[x], x) \/ Skips(hd[x], hd'[x])

LEMMA AheadOne ==
  ASSUME NEW x \in Monitors, NEW h \in Handlers, NEW g \in Handlers, NEW live \in SUBSET up,
         ~case.lost, AheadOK(h, x, up),
         Stays(h, g) \/ Clears(g) \/ Begins(g, x) \/ Skips(h, g)
  PROVE  AheadOK(g, x, live)
<1> DEFINE p == Place(x)
<1>1. h.ahead \in 0..Len(Brothers) /\ p \in 0..Len(Brothers) /\ Len(Brothers) \in Nat
  BY PlaceBounds, BrothersAssumption DEF Handlers
<1>2. CASE Stays(h, g)
  BY <1>2 DEF AheadOK, Stays, Waits, Early, Resolves
<1>3. CASE Clears(g)
  BY <1>1, <1>3 DEF AheadOK, Clears, Resolves
<1>4. CASE Begins(g, x)
  <2>1. g.ahead = p /\ Asked(g)
    BY <1>4 DEF Begins
  <2> HIDE DEF p
  <2>2. \A k \in g.ahead + 1 .. p : FALSE
    BY <1>1, <2>1
  <2>3. g.ahead <= p
    BY <1>1, <2>1
  <2> QED BY <1>1, <2>1, <2>2, <2>3 DEF AheadOK, Asked, Early, Resolves, p
<1>5. CASE Skips(h, g)
  <2>1. /\ Brothers[h.ahead] \notin up /\ g.ahead = h.ahead - 1 /\ h.ahead > 0
        /\ h.solver = "announced" /\ Asked(g)
    BY <1>5 DEF Skips
  <2>2. h.ahead <= p /\ \A k \in h.ahead + 1 .. p : Brothers[k] \notin up
    BY <2>1 DEF AheadOK
  <2> HIDE DEF p
  <2>3. \A k \in g.ahead + 1 .. p : k = h.ahead \/ k \in h.ahead + 1 .. p
    BY <1>1, <2>1
  <2>4. g.ahead <= p
    BY <1>1, <2>1, <2>2
  <2>5. \A k \in g.ahead + 1 .. p : Brothers[k] \notin live
    BY <2>1, <2>2, <2>3
  <2> QED BY <2>1, <2>4, <2>5 DEF AheadOK, Asked, Early, Resolves, p
<1> QED BY <1>2, <1>3, <1>4, <1>5

LEMMA AheadKept ==
  ASSUME EndInv, EndInv', AheadInv, AheadStep
  PROVE  AheadInv'
<1>1. ~case.lost /\ ~case'.lost /\ up' \in SUBSET up
  BY DEF AheadInv, AheadStep
<1>2. ASSUME NEW x \in Monitors
      PROVE  AheadOK(hd'[x], x, up')
  <2>1. hd[x] \in Handlers /\ hd'[x] \in Handlers
    BY DEF EndInv, TasksOK, HandlerOK
  <2>2. AheadOK(hd[x], x, up)
    BY DEF AheadInv
  <2>3. Stays(hd[x], hd'[x]) \/ Clears(hd'[x]) \/ Begins(hd'[x], x) \/ Skips(hd[x], hd'[x])
    BY DEF AheadStep
  <2> QED BY ONLY <1>1, <2>1, <2>2, <2>3, x \in Monitors, AheadOne
<1> QED BY <1>1, <1>2 DEF AheadInv

LEMMA AheadBegins ==
  ASSUME Heard, DeathInit
  PROVE  AheadInv
<1>1. \A m \in Monitors : /\ hd[m].ahead = 0 /\ hd[m].solver = "none" /\ hd[m].attempt = "none"
                           /\ hd[m].timer = FALSE
  BY DEF DeathInit, Idle
<1>2. \A m \in Monitors : 0 <= Place(m)
  BY PlaceBounds, BrothersAssumption
<1> QED BY <1>1, <1>2 DEF AheadInv, AheadOK, Resolves, Heard, DeathInit

LEMMA ResolverAlone ==
  ASSUME Heard, EndInv, AheadInv
  PROVE  OneResolver
<1> SUFFICES ASSUME NEW m \in up, NEW n \in up, Resolver(m), Resolver(n), Place(m) <= Place(n)
             PROVE  m = n
  <2>1. up \subseteq Monitors
    BY DEF EndInv, WorldOK
  <2>2. \A m \in up : Place(m) \in Nat
    BY <2>1, PlaceBounds, BrothersAssumption
  <2>3. \A m, n \in up : Place(m) <= Place(n) \/ Place(n) <= Place(m)
    BY <2>2
  <2> QED BY <2>3 DEF OneResolver
<1>1. m \in Monitors /\ n \in Monitors
  BY DEF EndInv, WorldOK
<1>2. \A k \in 1 .. Place(n) : Brothers[k] \notin up
  <2>1. hd[n].ahead = 0 /\ \A k \in hd[n].ahead + 1 .. Place(n) : Brothers[k] \notin up
    BY <1>1 DEF AheadInv, AheadOK, Resolves, Resolver
  <2> QED BY <2>1
<1>3. Place(m) \in 0..Len(Brothers) /\ Place(n) \in 0..Len(Brothers) /\ Len(Brothers) \in Nat
  BY <1>1, PlaceBounds, BrothersAssumption
<1>4. CASE m \in ToSet(Brothers)
  <2>1. Place(m) < Len(Brothers) /\ Brothers[Place(m) + 1] = m
    BY <1>1, <1>4, PlaceBounds
  <2>2. ~(Place(m) < Place(n))
    <3>1. Place(m) < Place(n) => Place(m) + 1 \in 1 .. Place(n)
      BY <1>3
    <3> QED BY <1>2, <2>1, <3>1
  <2>3. Place(n) = Place(m)
    BY <1>3, <2>2
  <2>4. n \in ToSet(Brothers)
    BY <1>1, <1>3, <2>1, <2>3, PlaceBounds
  <2> QED BY <1>1, <2>1, <2>3, <2>4, PlaceBounds
<1>5. CASE m \notin ToSet(Brothers)
  <2>1. Place(m) = Len(Brothers)
    BY <1>1, <1>5, PlaceBounds
  <2>2. n \notin ToSet(Brothers)
    BY <1>1, <1>3, <2>1, PlaceBounds
  <2> QED BY <1>1, <1>5, <2>2 DEF Heard
<1> QED BY <1>4, <1>5

(* A step that changes one handler, or ends a task, changes the lists and  *)
(* the solvers of the others not at all.                                   *)
LEMMA AheadSets ==
  ASSUME EndInv, up' \subseteq up, case'.lost = case.lost, NEW m \in Monitors, NEW g,
         hd' = [hd EXCEPT ![m] = g],
         Stays(hd[m], g) \/ Clears(g) \/ Begins(g, m) \/ Skips(hd[m], g)
  PROVE  AheadStep
<1>1. \A x \in Monitors : hd'[x] = IF x = m THEN g ELSE hd[x]
  BY DEF EndInv, TasksOK
<1>2. \A x \in Monitors : Stays(hd[x], hd[x])
  BY DEF Stays, Early
<1> QED BY <1>1, <1>2 DEF AheadStep

LEMMA AheadKeeps ==
  ASSUME hd' = hd, up' \subseteq up, case'.lost = case.lost
  PROVE  AheadStep
BY DEF AheadStep, Stays, Early

LEMMA AheadEnds ==
  ASSUME EndInv, up' \subseteq up, case'.lost = case.lost, NEW m \in Monitors,
         NEW failed \in BOOLEAN, hd' = Ended(m, failed)
  PROVE  AheadStep
<1>1. ASSUME NEW x \in Monitors
      PROVE  Stays(hd[x], hd'[x]) \/ Clears(hd'[x])
  <2>1. CASE x = m
    <3>1. hd'[x] \in {Idle, [Idle EXCEPT !.task = "failed"]}
      BY <2>1, EndedFields
    <3> QED BY <3>1 DEF Clears, Idle
  <2>2. CASE x # m
    <3>1. /\ hd'[x].ahead = hd[x].ahead /\ hd'[x].solver = hd[x].solver /\ hd'[x].task = hd[x].task
          /\ hd'[x].attempt = hd[x].attempt /\ hd'[x].timer = hd[x].timer
      BY <2>2, EndedFields
    <3> QED BY <3>1 DEF Stays, Early
  <2> QED BY <2>1, <2>2
<1> QED BY <1>1 DEF AheadStep

LEMMA AheadTask ==
  ASSUME EndInv, AheadInv, NEW m \in Monitors, TaskSteps(m)
  PROVE  AheadStep
<1> DEFINE h == hd[m]
<1>0. h \in Handlers /\ HandlerOK(h, doc.instance, running, buried) /\ DOMAIN hd = Monitors
      /\ case \in Case /\ up \subseteq Monitors
  BY HandlerFacts
<1>01. AheadOK(h, m, up)
  BY DEF AheadInv
<1>1. CASE HandleAgentDeath(m)
  <2>1. up' = up /\ case' = case
    BY <1>1 DEF HandleAgentDeath
  <2>2. CASE h.task = "none"
    <3> DEFINE g == [h EXCEPT !.task = "fetching"]
    <3>1. hd' = [hd EXCEPT ![m] = g]
      BY <1>0, <1>1, <2>2 DEF HandleAgentDeath
    <3>2. g.ahead = h.ahead /\ g.solver = h.solver /\ g.attempt = h.attempt /\ g.timer = h.timer
      BY <1>0 DEF Handlers
    <3> HIDE DEF g
    <3>3. Stays(h, g)
      BY <2>2, <3>2 DEF Stays, Early
    <3> QED BY <2>1, <3>1, <3>3, AheadSets
  <2>3. CASE h.task # "none"
    BY <1>1, <2>1, <2>3, AheadKeeps DEF HandleAgentDeath
  <2> QED BY <2>2, <2>3
<1>2. CASE FetchDescriptor(m)
  <2>1. up' = up /\ case' = case
    BY <1>2 DEF FetchDescriptor
  <2>2. CASE doc.deleted
    BY <1>2, <2>1, <2>2, AheadEnds DEF FetchDescriptor
  <2>3. CASE ~doc.deleted
    <3> DEFINE f == [h EXCEPT !.task = "open", !.rev = doc.rev, !.instance = doc.instance]
               g == Iterate(f, Place(m))
    <3>1. f \in Handlers /\ f.task = "open" /\ f.attempt = h.attempt /\ f.timer = h.timer
      BY <1>0, HandlerFacts DEF Handlers
    <3>2. hd' = [hd EXCEPT ![m] = g]
      BY <1>2, <2>3 DEF FetchDescriptor
    <3> HIDE DEF f
    <3>3. Place(m) \in 0..Len(Brothers)
      BY PlaceBounds
    <3>4. /\ g.ahead = Place(m) /\ g.solver = IF Place(m) = 0 THEN "local" ELSE "announced"
          /\ g.task = f.task /\ (Place(m) # 0 => g.attempt = f.attempt /\ g.timer = f.timer)
          /\ Place(m) = 0 => g.attempt \in {"flag", "burying"}
      BY <3>1, <3>3, IterateFields
    <3>6. h.attempt = "none" /\ h.timer = FALSE
      BY <1>0, <1>01, <1>2 DEF AheadOK, FetchDescriptor, Handlers
    <3> HIDE DEF g
    <3>5. Begins(g, m)
      BY <3>1, <3>4, <3>6 DEF Begins, Asked, Early
    <3> QED BY <2>1, <3>2, <3>5, AheadSets
  <2> QED BY <2>2, <2>3
<1>3. CASE HandlingDeathRequested(m)
  <2> DEFINE r == Left(m)
             starts == hd[r].task = "none" /\ known[r] # 0 /\ known[r] = hd[m].instance
             answer == IF hd[r].task \in {"fetching", "open"} \/ starts THEN "waits"
                       ELSE IF hd[r].task = "failed" \/ known[r] = 0 THEN "broken" ELSE "ready"
  <2>1. /\ up' = up /\ case' = case /\ h.solver = "announced" /\ r \in Monitors
        /\ hd' = [hd EXCEPT ![m].solver = "granted", ![m].answer = answer,
                            ![r].task = IF starts THEN "fetching" ELSE @]
    BY <1>0, <1>3 DEF HandlingDeathRequested
  <2>2. hd[r] \in Handlers
    BY <2>1, HandlerFacts
  <2> HIDE DEF r, starts, answer
  <2>3. \A x \in Monitors : /\ hd'[x].ahead = hd[x].ahead /\ hd'[x].attempt = hd[x].attempt
                             /\ hd'[x].timer = hd[x].timer
    BY <1>0, <2>1, <2>2 DEF Handlers
  <2>6. \A x \in Monitors : Early(hd'[x]) => Early(hd[x])
    <3>1. starts => hd[r].task = "none"
      BY DEF starts
    <3> QED BY <1>0, <2>1, <2>2, <3>1 DEF Handlers, Early
  <2>4. \A x \in Monitors : hd'[x].solver = IF x = m THEN "granted" ELSE hd[x].solver
    BY <1>0, <2>1, <2>2 DEF Handlers
  <2>5. \A x \in Monitors : Stays(hd[x], hd'[x])
    BY <2>1, <2>3, <2>4, <2>6 DEF Stays, Waits
  <2> QED BY <2>1, <2>5 DEF AheadStep
<1>4. CASE AnnounceExpires(m)
  <2> DEFINE n == h.ahead - 1
             g == Iterate(h, n)
  <2>1. /\ up' = up /\ case' = case /\ hd' = [hd EXCEPT ![m] = g]
        /\ h.solver = "announced" /\ (Brothers[h.ahead] \notin up \/ case.lost)
    BY <1>4 DEF AnnounceExpires, Set, Left
  <2>2. h.ahead > 0 /\ n \in 0..Len(Brothers)
    BY <1>0, <2>1, BrothersAssumption DEF HandlerOK, Handlers
  <2> HIDE DEF n
  <2>3. /\ g.ahead = n /\ g.solver = IF n = 0 THEN "local" ELSE "announced"
        /\ g.task = h.task /\ (n # 0 => g.attempt = h.attempt /\ g.timer = h.timer)
        /\ n = 0 => g.attempt \in {"flag", "burying"}
    BY <1>0, <2>2, IterateFields
  <2>5. h.attempt = "none" /\ h.timer = FALSE /\ h.task = "open"
    BY <1>0, <1>01, <2>1 DEF AheadOK, Handlers, HandlerOK
  <2> HIDE DEF g
  <2>6. Asked(g)
    BY <2>3, <2>5 DEF Asked, Early
  <2>4. Skips(h, g)
    BY <2>1, <2>2, <2>3, <2>6 DEF Skips, n
  <2> QED BY <2>1, <2>4, AheadSets
<1>5. CASE GrantExpires(m)
  <2> DEFINE tried == h.tries + 1
             solver == IF tried < Tries THEN "announced" ELSE "gone"
             g == [h EXCEPT !.tries = tried, !.answer = "none", !.solver = solver]
  <2>1. up' = up /\ hd' = [hd EXCEPT ![m] = g] /\ h.solver = "granted"
    BY <1>5 DEF GrantExpires, Set
  <2>2. case' \in {case, [case EXCEPT !.slow = @ - 1]}
    BY <1>5 DEF GrantExpires
  <2>3. case'.lost = case.lost
    BY <1>0, <2>2 DEF Case
  <2>4. solver \in {"announced", "gone"}
    OBVIOUS
  <2> HIDE DEF tried, solver
  <2>5. /\ g.ahead = h.ahead /\ g.solver = solver /\ g.task = h.task /\ g.attempt = h.attempt
        /\ g.timer = h.timer
    BY <1>0 DEF Handlers
  <2> HIDE DEF g
  <2>6. Stays(h, g)
    BY <2>1, <2>4, <2>5 DEF Stays, Waits, Early
  <2> QED BY <2>1, <2>3, <2>6, AheadSets
<1>6. CASE RestartHandled(m)
  BY <1>6, AheadEnds DEF RestartHandled
<1> QED BY <1>1, <1>2, <1>3, <1>4, <1>5, <1>6 DEF TaskSteps

(* The attempts change no list, and no solver but one that expires.        *)
LEMMA AheadAttempt ==
  ASSUME EndInv, AheadInv, NEW m \in Monitors, AttemptSteps(m)
  PROVE  AheadStep
<1> DEFINE h == hd[m]
<1>0. h \in Handlers
  BY HandlerFacts
<1>01. AheadOK(h, m, up)
  BY DEF AheadInv
<1>1. up' = up /\ case' = case
  BY DEF AttemptSteps, SetRestartFlag, PartnersAnswer, HelperEnds, RestartComplete, WaitingTimeout,
         RestartYourself, Move, RestartedTold, BuriedTold, Adopt, SolverExpires
<1>2. ASSUME NEW g, hd' = [hd EXCEPT ![m] = g], g.ahead = h.ahead, g.task = h.task,
             g.solver = h.solver \/ (h.solver = "local" /\ g.solver = "gone"),
             (g.attempt = "none" <=> h.attempt = "none"), (g.timer => (h.timer \/ g.attempt # "none"))
      PROVE  AheadStep
  <2>1. Stays(h, g)
    BY <1>2 DEF Stays, Early
  <2> QED BY <1>1, <1>2, <2>1, AheadSets
<1>3. ASSUME NEW a \in {"asking", "starting", "moving", "burying", "adopting"}, h.attempt # "none",
             Set(m, [h EXCEPT !.attempt = a])
      PROVE  AheadStep
  <2> DEFINE g == [h EXCEPT !.attempt = a]
  <2>1. /\ g.ahead = h.ahead /\ g.solver = h.solver /\ g.task = h.task /\ g.timer = h.timer
        /\ g.attempt = a
    BY <1>0 DEF Handlers
  <2>2. hd' = [hd EXCEPT ![m] = g]
    BY <1>3 DEF Set
  <2> HIDE DEF g
  <2> QED BY <1>2, <1>3, <2>1, <2>2
<1>4. ASSUME NEW a \in {"asking", "lost"}, NEW n \in {1, 2}, h.attempt # "none",
             Saved(m, [h EXCEPT !.attempt = a], n)
      PROVE  AheadStep
  <2> DEFINE g == [h EXCEPT !.attempt = a]
             f == [g EXCEPT !.rev = doc.rev + n]
  <2>2. hd' = [hd EXCEPT ![m] = f]
    BY <1>4 DEF Saved, Set
  <2>3. /\ f.ahead = h.ahead /\ f.solver = h.solver /\ f.task = h.task /\ f.timer = h.timer
        /\ f.attempt = a
    BY <1>0 DEF Handlers
  <2> HIDE DEF f
  <2> QED BY <1>2, <1>4, <2>2, <2>3
<1>5. ASSUME h.attempt # "none", Set(m, [h EXCEPT !.attempt = "done", !.telling = TRUE])
      PROVE  AheadStep
  <2> DEFINE g == [h EXCEPT !.attempt = "done", !.telling = TRUE]
  <2>1. /\ g.ahead = h.ahead /\ g.solver = h.solver /\ g.task = h.task /\ g.timer = h.timer
        /\ g.attempt = "done"
    BY <1>0 DEF Handlers
  <2>2. hd' = [hd EXCEPT ![m] = g]
    BY <1>5 DEF Set
  <2> HIDE DEF g
  <2> QED BY <1>2, <1>5, <2>1, <2>2
<1>6. CASE SetRestartFlag(m)
  <2>0. h.attempt # "none"
    BY <1>6 DEF SetRestartFlag, Attempts
  <2>1. CASE Saved(m, [hd[m] EXCEPT !.attempt = "asking"], 1)
    BY <1>4, <2>0, <2>1
  <2>2. CASE Set(m, [hd[m] EXCEPT !.attempt = "starting"])
    BY <1>3, <2>0, <2>2
  <2> QED BY <1>6, <2>1, <2>2 DEF SetRestartFlag
<1>7. CASE PartnersAnswer(m)
  <2>0. h.attempt # "none"
    BY <1>7 DEF PartnersAnswer, Attempts
  <2>1. CASE Set(m, [h EXCEPT !.attempt = "waiting", !.timer = TRUE])
    <3> DEFINE g == [h EXCEPT !.attempt = "waiting", !.timer = TRUE]
    <3>1. g.ahead = h.ahead /\ g.solver = h.solver /\ g.task = h.task /\ g.attempt = "waiting"
      BY <1>0 DEF Handlers
    <3>2. hd' = [hd EXCEPT ![m] = g]
      BY <2>1 DEF Set
    <3> HIDE DEF g
    <3> QED BY <1>2, <2>0, <3>1, <3>2
  <2>2. CASE Set(m, [h EXCEPT !.attempt = "starting"])
    BY <1>3, <2>0, <2>2
  <2> QED BY <1>7, <2>1, <2>2 DEF PartnersAnswer
<1>8. CASE HelperEnds(m)
  BY <1>1, <1>8, AheadKeeps DEF HelperEnds
<1>9. CASE RestartComplete(m)
  <2>1. CASE Set(m, [h EXCEPT !.timer = FALSE, !.telling = TRUE])
    <3> DEFINE g == [h EXCEPT !.timer = FALSE, !.telling = TRUE]
    <3>1. hd' = [hd EXCEPT ![m] = g]
      BY <2>1 DEF Set
    <3>2. /\ g.ahead = h.ahead /\ g.solver = h.solver /\ g.task = h.task /\ g.attempt = h.attempt
          /\ g.timer = FALSE
      BY <1>0 DEF Handlers
    <3> HIDE DEF g
    <3> QED BY <1>2, <3>1, <3>2
  <2>2. CASE hd' = hd
    BY <1>1, <2>2, AheadKeeps
  <2> QED BY <1>9, <2>1, <2>2 DEF RestartComplete
<1>10. CASE WaitingTimeout(m)
  <2>1. h.timer /\ hd' = [hd EXCEPT ![m] = Retry(h)]
    BY <1>10 DEF WaitingTimeout, Set
  <2>2. h.attempt # "none"
    BY <1>01, <2>1 DEF AheadOK
  <2>3. /\ Retry(h).ahead = h.ahead /\ Retry(h).task = h.task /\ Retry(h).solver = h.solver
        /\ Retry(h).attempt # "none" /\ Retry(h).timer = FALSE
    BY <1>0, RetryFields
  <2> QED BY <1>2, <2>1, <2>2, <2>3
<1>11. CASE RestartYourself(m)
  <2>0. h.attempt # "none"
    BY <1>11 DEF RestartYourself, Attempts
  <2>1. CASE Set(m, [hd[m] EXCEPT !.attempt = "done", !.telling = TRUE])
    BY <1>5, <2>0, <2>1
  <2>2. CASE Set(m, RestartFailed(hd[m]))
    <3>1. Set(m, [h EXCEPT !.attempt = "moving"]) \/ Set(m, [h EXCEPT !.attempt = "burying"])
      BY <2>2 DEF RestartFailed
    <3> QED BY <1>3, <2>0, <3>1
  <2> QED BY <1>11, <2>1, <2>2 DEF RestartYourself
<1>12. CASE Move(m)
  <2>0. h.attempt # "none"
    BY <1>12 DEF Move, Attempts
  <2>1. CASE Set(m, [hd[m] EXCEPT !.attempt = "done", !.telling = TRUE])
    BY <1>5, <2>0, <2>1
  <2>2. CASE Saved(m, [hd[m] EXCEPT !.attempt = "lost"], 2)
    BY <1>4, <2>0, <2>2
  <2>3. CASE hd' = Ended(m, TRUE)
    BY <1>1, <2>3, AheadEnds
  <2> QED BY <1>12, <2>1, <2>2, <2>3 DEF Move
<1>13. CASE RestartedTold(m)
  <2>1. CASE hd' = [hd EXCEPT ![m].telling = FALSE]
    <3> DEFINE g == [h EXCEPT !.telling = FALSE]
    <3>1. hd' = [hd EXCEPT ![m] = g]
      BY <2>1
    <3>2. /\ g.ahead = h.ahead /\ g.solver = h.solver /\ g.task = h.task /\ g.attempt = h.attempt
          /\ g.timer = h.timer
      BY <1>0 DEF Handlers
    <3> HIDE DEF g
    <3> QED BY <1>2, <3>1, <3>2
  <2>2. CASE hd' = Ended(m, FALSE)
    BY <1>1, <2>2, AheadEnds
  <2> QED BY <1>13, <2>1, <2>2 DEF RestartedTold
<1>14. CASE BuriedTold(m)
  <2>0. h.attempt # "none"
    BY <1>14 DEF BuriedTold, Attempts
  <2>1. CASE hd' = [hd EXCEPT ![m].attempt = "adopting"]
    <3>1. Set(m, [h EXCEPT !.attempt = "adopting"])
      BY <2>1, HandlerFacts DEF Set
    <3> QED BY <1>3, <2>0, <3>1
  <2>2. CASE hd' = Ended(m, hd[m].attempt = "lost")
    <3> DEFINE failed == hd[m].attempt = "lost"
    <3>1. failed \in BOOLEAN /\ hd' = Ended(m, failed)
      BY <2>2
    <3> HIDE DEF failed
    <3> QED BY <1>1, <3>1, AheadEnds
  <2> QED BY <1>14, <2>1, <2>2 DEF BuriedTold
<1>15. CASE Adopt(m)
  BY <1>1, <1>15, AheadEnds DEF Adopt
<1>16. CASE SolverExpires(m)
  <2>0. h.solver = "local" /\ h.attempt # "none"
    BY <1>16 DEF SolverExpires, ExpiresOver, ExpiresSaving, ExpiresAsking, ExpiresWaiting,
                 ExpiresStarting, ExpiresMoving
  <2>1. ASSUME NEW a \in {h.attempt, "starting", "moving", "burying"},
               hd' = [hd EXCEPT ![m] = [h EXCEPT !.solver = "gone", !.attempt = a]]
        PROVE  AheadStep
    <3> DEFINE g == [h EXCEPT !.solver = "gone", !.attempt = a]
    <3>1. /\ g.ahead = h.ahead /\ g.solver = "gone" /\ g.task = h.task /\ g.attempt = a
          /\ g.timer = h.timer
      BY <1>0 DEF Handlers
    <3>2. hd' = [hd EXCEPT ![m] = g]
      BY <2>1
    <3> HIDE DEF g
    <3> QED BY <1>2, <2>0, <3>1, <3>2
  <2>2. CASE hd' = Closed(m, [h EXCEPT !.solver = "gone", !.task = "failed"], "broken")
    <3> DEFINE g == [h EXCEPT !.solver = "gone", !.task = "failed"]
    <3>1. /\ g.ahead = h.ahead /\ g.solver = "gone" /\ g.task = "failed" /\ g.attempt = h.attempt
          /\ g.timer = h.timer
      BY <1>0 DEF Handlers
    <3>2. hd' = Closed(m, g, "broken")
      BY <2>2
    <3> HIDE DEF g
    <3>3. ASSUME NEW x \in Monitors
          PROVE  Stays(hd[x], hd'[x])
      <4>1. CASE x = m
        BY <2>0, <3>1, <3>2, <4>1 DEF Closed, Stays, Early
      <4>2. CASE x # m
        <5>1. hd'[x] = hd[x] \/ hd'[x] = [hd[x] EXCEPT !.answer = "broken"]
          BY <3>2, <4>2 DEF Closed
        <5>2. hd[x] \in Handlers
          BY HandlerFacts
        <5>3. /\ hd'[x].ahead = hd[x].ahead /\ hd'[x].solver = hd[x].solver
              /\ hd'[x].task = hd[x].task /\ hd'[x].attempt = hd[x].attempt
              /\ hd'[x].timer = hd[x].timer
          BY <5>1, <5>2 DEF Handlers
        <5> QED BY <5>3 DEF Stays, Early
      <4> QED BY <4>1, <4>2
    <3> QED BY <1>1, <3>3 DEF AheadStep
  <2>3. CASE hd' = Ended(m, TRUE)
    BY <1>1, <2>3, AheadEnds
  <2> QED BY <1>0, <1>16, <2>1, <2>2, <2>3, ExpiresSets
<1> QED BY <1>6, <1>7, <1>8, <1>9, <1>10, <1>11, <1>12, <1>13, <1>14, <1>15, <1>16 DEF AttemptSteps

LEMMA AheadGoes ==
  ASSUME EndInv, EndInv', AheadInv, [DeathNext]_deathVars
  PROVE  AheadInv'
<1>1. CASE DeathNext
  <2>1. PICK m \in Monitors : TaskSteps(m) \/ AttemptSteps(m) \/ Hear(m) \/ MonitorCrash(m)
    BY <1>1 DEF DeathNext
  <2>2. ASSUME Hear(m)
        PROVE  AheadStep
    BY <2>2, AheadKeeps DEF Hear
  <2>3. ASSUME MonitorCrash(m)
        PROVE  AheadStep
    <3>1. /\ hd' = [hd EXCEPT ![m] = Idle] /\ up' \subseteq up
          /\ case' = [case EXCEPT !.crashes = @ - 1]
      BY <2>3 DEF MonitorCrash, Set
    <3>2. case'.lost = case.lost
      BY <3>1 DEF EndInv, WorldOK, Case
    <3>3. Clears(Idle)
      BY DEF Clears, Idle
    <3> QED BY <3>1, <3>2, <3>3, AheadSets
  <2>4. AheadStep
    BY <2>1, <2>2, <2>3, AheadTask, AheadAttempt
  <2> QED BY <2>4, AheadKept
<1>2. CASE UNCHANGED deathVars
  BY <1>2, AheadKeeps, AheadKept DEF deathVars
<1> QED BY <1>1, <1>2

(* One monitor resolves a death, also when monitors crash: a solver is     *)
(* left alone with its list only when all before it are down, provided     *)
(* that no announcement is lost.                                           *)
THEOREM OneResolves == Heard => (DeathSpec => []OneResolver)
<1> SUFFICES ASSUME Heard PROVE DeathSpec => []OneResolver
  OBVIOUS
<1> DEFINE I == EndInv /\ AheadInv
<1>1. DeathInit => I
  BY DeathBegins, AheadBegins
<1>2. I /\ [DeathNext]_deathVars => I'
  BY DeathGoes, AheadGoes
<1>3. I => OneResolver
  BY ResolverAlone
<1> QED BY <1>1, <1>2, <1>3, PTL DEF DeathSpec

-----------------------------------------------------------------------------
(* Nobody is left with the death *)

(* A grant that will expire, as the one who has it has crashed.            *)
Pending(h, live) == IF h.solver = "granted" /\ Brothers[h.ahead] \notin live THEN 1 ELSE 0

(* The task of a monitor while the death is not settled: it has tries      *)
(* left, and whoever resolves the death goes on.                           *)
Going(h, c, live, rev) ==
  /\ h.task # "failed" /\ h.answer # "broken"
  /\ h.attempt # "none" \/ h.timer => h.solver = "local"
  /\ h.solver = "local" => /\ h.task = "open"
                           /\ h.attempt \notin {"none", "done", "adopting"}
                           /\ c.strategy = "wherever" => h.rev = rev
  /\ h.attempt \in {"moving", "lost"} => c.strategy = "wherever"
  /\ h.attempt = "waiting" => h.timer
  /\ h.task = "open" => /\ h.solver \in {"announced", "granted", "local"}
                        /\ h.tries + c.slow + c.crashes + Pending(h, live) < Tries

CaseCalm ==
  /\ ~case.expires
  /\ case.slow + case.crashes < Tries
  /\ case.strategy = "wherever" => case.crashes = 0 /\ "touches" \notin case.helpers /\ up = Monitors

CalmInv ==
  /\ CaseCalm
  /\ ~Settled => /\ \A m \in ToSet(Brothers) : known[m] # 0
                 /\ \A m \in up : Going(hd[m], case, up, doc.rev)

LEMMA NobodyStranded ==
  ASSUME EndInv, CalmInv
  PROVE  NeverStranded
<1> SUFFICES ASSUME NEW m \in up, hd[m].task # "none", ~Settled
             PROVE  InProgress(m)
  BY DEF NeverStranded
<1>1. Going(hd[m], case, up, doc.rev) /\ hd[m] \in Handlers
  BY HandlerFacts DEF CalmInv, EndInv, WorldOK
<1>2. hd[m].task \in {"fetching", "open"}
  BY <1>1 DEF Going, Handlers
<1> QED BY <1>1, <1>2 DEF Going, InProgress, Works

(* A step that settles the death, or finds it settled. *)
LEMMA CalmSettled ==
  ASSUME CalmInv, case' = case, up' = up, Settled'
  PROVE  CalmInv'
BY DEF CalmInv, CaseCalm

(* A step that changes one handler: others that resolve the death too      *)
(* would lose their copy of a document that is changed.                    *)
LEMMA CalmSets ==
  ASSUME EndInv, CalmInv, UNCHANGED <<case, up, known>>, Settled => Settled',
         NEW m \in up, NEW g, hd' = [hd EXCEPT ![m] = g],
         \/ doc'.rev = doc.rev
         \/ case.strategy # "wherever"
         \/ OneResolver /\ hd[m].solver = "local",
         ~Settled => Going(g, case, up, doc'.rev)
  PROVE  CalmInv'
<1> SUFFICES ASSUME ~Settled' PROVE CalmInv'
  BY CalmSettled
<1>1. ~Settled /\ Going(g, case, up, doc'.rev)
  OBVIOUS
<1>2. up \subseteq Monitors /\ DOMAIN hd = Monitors
  BY DEF EndInv, WorldOK, TasksOK
<1>3. ASSUME NEW x \in up
      PROVE  Going(hd'[x], case, up, doc'.rev)
  <2>1. CASE x = m
    BY <1>1, <1>2, <2>1
  <2>2. CASE x # m
    <3>1. hd'[x] = hd[x] /\ Going(hd[x], case, up, doc.rev)
      BY <1>1, <1>2, <2>2 DEF CalmInv
    <3>2. doc'.rev = doc.rev \/ case.strategy # "wherever" \/ hd[x].solver # "local"
      <4>1. (OneResolver /\ hd[m].solver = "local") => hd[x].solver # "local"
        BY <2>2 DEF OneResolver, Resolver
      <4> QED BY <4>1
    <3> QED BY <3>1, <3>2 DEF Going
  <2> QED BY <2>1, <2>2
<1> QED BY <1>1, <1>3 DEF CalmInv, CaseCalm

LEMMA CalmKeeps ==
  ASSUME EndInv, CalmInv, UNCHANGED <<case, up, known, hd>>, Settled => Settled',
         doc'.rev = doc.rev \/ case.strategy # "wherever"
  PROVE  CalmInv'
<1> SUFFICES ASSUME ~Settled' PROVE CalmInv'
  BY CalmSettled
<1>1. \A x \in up : Going(hd[x], case, up, doc'.rev)
  BY DEF CalmInv, Going
<1> QED BY <1>1 DEF CalmInv, CaseCalm

LEMMA CalmBegins ==
  ASSUME Mild, DeathInit, ~case.expires
  PROVE  CalmInv
<1>1. case \in Cases /\ up = Monitors /\ ToSet(Brothers) \subseteq Partnered
  BY DEF DeathInit, Mild
<1>2. CaseCalm
  BY <1>1, ~case.expires DEF CaseCalm, Mild
<1>3. \A m \in ToSet(Brothers) : known[m] # 0
  BY <1>1, BrothersAssumption DEF DeathInit
<1>4. \A m \in up : Going(hd[m], case, up, doc.rev)
  BY DEF DeathInit, Going, Idle
<1> QED BY <1>2, <1>3, <1>4 DEF CalmInv

(* The state of a monitor that runs, of a death that is not settled. *)
LEMMA CalmFacts ==
  ASSUME EndInv, CalmInv, NEW m \in up
  PROVE  /\ m \in Monitors /\ hd[m] \in Handlers /\ HandlerOK(hd[m], doc.instance, running, buried)
         /\ DOMAIN hd = Monitors /\ case \in Case /\ case.slow \in Nat /\ case.crashes \in Nat
         /\ hd[m].tries \in Nat /\ hd[m].ahead \in Nat /\ doc.rev \in Nat /\ doc.deleted \in BOOLEAN
         /\ doc.deleted => Settled
         /\ ~Settled => Going(hd[m], case, up, doc.rev)
BY HandlerFacts DEF EndInv, WorldOK, Handlers, Case, CalmInv, Tries, Settled

LEMMA CalmFetches ==
  ASSUME EndInv, CalmInv, NEW m \in Monitors, FetchDescriptor(m)
  PROVE  CalmInv'
<1> DEFINE h == hd[m]
           f == [h EXCEPT !.task = "open", !.rev = doc.rev, !.instance = doc.instance]
           g == Iterate(f, Place(m))
<1>1. m \in up /\ h.task = "fetching"
      /\ UNCHANGED <<case, up, doc, running, buried, known, watching, news, helper>>
  BY DEF FetchDescriptor
<1>2. Settled' <=> Settled
  BY <1>1 DEF Settled
<1> SUFFICES ASSUME ~Settled PROVE CalmInv'
  BY <1>1, <1>2, CalmSettled
<1>3. /\ h \in Handlers /\ HandlerOK(h, doc.instance, running, buried)
      /\ case.slow \in Nat /\ case.crashes \in Nat /\ doc.rev \in Nat /\ ~doc.deleted
      /\ Going(h, case, up, doc.rev) /\ doc.instance \in Nat
  BY <1>1, CalmFacts, HandlerFacts
<1>4. hd' = [hd EXCEPT ![m] = g]
  BY <1>3 DEF FetchDescriptor
<1>5. /\ f \in Handlers /\ f.task = "open" /\ f.rev = doc.rev /\ f.answer = h.answer
      /\ f.attempt = h.attempt /\ f.timer = h.timer /\ f.tries = h.tries
  BY <1>3 DEF Handlers
<1>6. h.tries = 0 /\ h.attempt = "none" /\ ~h.timer /\ h.solver # "local"
  BY <1>1, <1>3 DEF HandlerOK, Going, Handlers
<1> HIDE DEF f
<1>7. Place(m) \in 0..Len(Brothers)
  BY PlaceBounds
<1>8. /\ g.task = "open" /\ g.tries = 0 /\ g.rev = doc.rev
      /\ Place(m) = 0 => g.solver = "local" /\ g.attempt \in {"flag", "burying"} /\ g.answer = h.answer
      /\ Place(m) # 0 => /\ g.solver = "announced" /\ g.answer = "none"
                         /\ g.attempt = "none" /\ g.timer = h.timer
  BY <1>5, <1>6, <1>7, IterateFields
<1> HIDE DEF g
<1>9. case.slow + case.crashes < Tries
  BY DEF CalmInv, CaseCalm
<1>10. Going(g, case, up, doc.rev)
  <2>1. Pending(g, up) = 0
    BY <1>8 DEF Pending
  <2>2. g.tries + case.slow + case.crashes + Pending(g, up) < Tries
    BY <1>3, <1>8, <1>9, <2>1 DEF Tries
  <2> QED BY <1>3, <1>6, <1>8, <2>2 DEF Going
<1> QED BY <1>1, <1>2, <1>4, <1>10, CalmSets

(* The one who is asked is up and a partner: it has a task, or gets one. *)
LEMMA CalmRequests ==
  ASSUME EndInv, CalmInv, NEW m \in Monitors, HandlingDeathRequested(m)
  PROVE  CalmInv'
<1> DEFINE h == hd[m]
           r == Left(m)
           starts == hd[r].task = "none" /\ known[r] # 0 /\ known[r] = h.instance
           answer == IF hd[r].task \in {"fetching", "open"} \/ starts THEN "waits"
                     ELSE IF hd[r].task = "failed" \/ known[r] = 0 THEN "broken" ELSE "ready"
           g == [h EXCEPT !.solver = "granted", !.answer = answer]
           k == [hd[r] EXCEPT !.task = "fetching"]
<1>1. /\ m \in up /\ h.solver = "announced" /\ r \in up
      /\ UNCHANGED <<case, up, doc, running, buried, known, watching, news, helper>>
      /\ hd' = [hd EXCEPT ![m].solver = "granted", ![m].answer = answer,
                          ![r].task = IF starts THEN "fetching" ELSE @]
  BY DEF HandlingDeathRequested
<1>2. Settled' <=> Settled
  BY <1>1 DEF Settled
<1> SUFFICES ASSUME ~Settled PROVE CalmInv'
  BY <1>1, <1>2, CalmSettled
<1>3. /\ h \in Handlers /\ hd[r] \in Handlers /\ DOMAIN hd = Monitors /\ up \subseteq Monitors
      /\ HandlerOK(h, doc.instance, running, buried)
      /\ Going(h, case, up, doc.rev) /\ Going(hd[r], case, up, doc.rev)
  BY <1>1, CalmFacts DEF EndInv, WorldOK
<1>4. h.task = "open" /\ h.ahead \in 1..Len(Brothers) /\ r = Brothers[h.ahead]
  BY <1>1, <1>3 DEF HandlerOK, Handlers, Left
<1>5. r \in ToSet(Brothers)
  BY <1>4, BrothersAssumption DEF ToSet
<1>6. answer # "broken"
  BY <1>3, <1>5 DEF Going, CalmInv
<1>7. answer \in {"waits", "ready"}
  BY <1>6
<1>8. starts => r # m
  BY <1>4
<1>9. \A x \in Monitors : hd'[x] = IF x = m THEN g ELSE IF x = r /\ starts THEN k ELSE hd[x]
  <2> HIDE DEF answer, starts, r
  <2>1. CASE starts
    BY <1>1, <1>3, <1>8, <2>1
  <2>2. CASE ~starts
    <3>1. CASE r = m
      BY <1>1, <1>3, <2>2, <3>1 DEF Handlers
    <3>2. CASE r # m
      <4>1. [hd[r] EXCEPT !.task = hd[r].task] = hd[r]
        BY <1>3 DEF Handlers
      <4> QED BY <1>1, <1>3, <2>2, <3>2, <4>1
    <3> QED BY <3>1, <3>2
  <2> QED BY <2>1, <2>2
<1>10. Going(g, case, up, doc.rev)
  <2> HIDE DEF answer
  <2>1. /\ g.task = h.task /\ g.solver = "granted" /\ g.answer = answer /\ g.attempt = h.attempt
        /\ g.timer = h.timer /\ g.tries = h.tries /\ g.ahead = h.ahead
    BY <1>3 DEF Handlers
  <2> HIDE DEF g
  <2>2. Pending(g, up) = 0 /\ Pending(h, up) = 0
    BY <1>1, <1>4, <2>1 DEF Pending
  <2> QED BY <1>1, <1>3, <1>4, <1>7, <2>1, <2>2 DEF Going
<1>11. starts => Going(k, case, up, doc.rev)
  <2>1. /\ k.task = "fetching" /\ k.solver = hd[r].solver /\ k.answer = hd[r].answer
        /\ k.attempt = hd[r].attempt /\ k.timer = hd[r].timer
    BY <1>3 DEF Handlers
  <2> HIDE DEF k
  <2> QED BY <1>3, <2>1 DEF Going
<1> HIDE DEF g, k, starts, answer, r
<1>12. \A x \in up : Going(hd'[x], case, up, doc.rev)
  <2>1. \A x \in up : Going(hd[x], case, up, doc.rev)
    BY DEF CalmInv
  <2> QED BY <1>3, <1>9, <1>10, <1>11, <2>1
<1> QED BY <1>1, <1>12 DEF CalmInv, CaseCalm

LEMMA CalmAnnounces ==
  ASSUME EndInv, AheadInv, CalmInv, NEW m \in Monitors, AnnounceExpires(m)
  PROVE  CalmInv'
<1> DEFINE h == hd[m]
           n == h.ahead - 1
           g == Iterate(h, n)
<1>1. /\ m \in up /\ h.solver = "announced" /\ (Left(m) \notin up \/ case.lost)
      /\ hd' = [hd EXCEPT ![m] = g]
      /\ UNCHANGED <<case, up, doc, running, buried, known, watching, news, helper>>
  BY DEF AnnounceExpires, Set
<1>2. Settled' <=> Settled
  BY <1>1 DEF Settled
<1> SUFFICES ASSUME ~Settled PROVE CalmInv'
  BY <1>1, <1>2, CalmSettled
<1>3. /\ h \in Handlers /\ HandlerOK(h, doc.instance, running, buried)
      /\ Going(h, case, up, doc.rev)
  BY <1>1, CalmFacts
<1>4. h.task = "open" /\ h.ahead \in 1..Len(Brothers) /\ Left(m) = Brothers[h.ahead]
  BY <1>1, <1>3 DEF HandlerOK, Handlers, Left
<1>5. Left(m) \in Monitors /\ n \in 0..Len(Brothers)
  BY <1>4, BrothersAssumption
<1>6. Left(m) \notin up /\ case.strategy # "wherever"
  BY <1>1, <1>5 DEF AheadInv, CalmInv, CaseCalm
<1> HIDE DEF n
<1>7. /\ g.task = h.task /\ g.tries = h.tries
      /\ n = 0 => g.solver = "local" /\ g.attempt \in {"flag", "burying"} /\ g.answer = h.answer
      /\ n # 0 => /\ g.solver = "announced" /\ g.answer = "none"
                  /\ g.attempt = h.attempt /\ g.timer = h.timer
  BY <1>3, <1>5, IterateFields
<1> HIDE DEF g
<1>8. Going(g, case, up, doc.rev)
  <2>1. Pending(g, up) = 0 /\ Pending(h, up) = 0
    BY <1>1, <1>7 DEF Pending
  <2> QED BY <1>1, <1>3, <1>4, <1>6, <1>7, <2>1 DEF Going
<1> QED BY <1>1, <1>2, <1>8, CalmSets

(* A grant that expires uses up a slow answer, or the crash of the one who *)
(* had it.                                                                 *)
LEMMA CalmGrants ==
  ASSUME EndInv, CalmInv, NEW m \in Monitors, GrantExpires(m)
  PROVE  CalmInv'
<1> DEFINE h == hd[m]
           late == Left(m) \in up /\ h.answer # "broken"
           tried == h.tries + 1
           solver == IF tried < Tries THEN "announced" ELSE "gone"
           g == [h EXCEPT !.tries = tried, !.answer = "none", !.solver = solver]
           slow == IF late THEN case.slow - 1 ELSE case.slow
<1>1. /\ m \in up /\ h.solver = "granted" /\ hd' = [hd EXCEPT ![m] = g] /\ (late => case.slow > 0)
      /\ UNCHANGED <<up, doc, running, buried, known, watching, news, helper>>
      /\ case' = IF late THEN [case EXCEPT !.slow = @ - 1] ELSE case
  BY DEF GrantExpires, Set
<1>2. Settled' <=> Settled
  BY <1>1 DEF Settled
<1>3. /\ h \in Handlers /\ case \in Case /\ case.slow \in Nat /\ case.crashes \in Nat
      /\ h.tries \in Nat /\ DOMAIN hd = Monitors /\ up \subseteq Monitors
      /\ HandlerOK(h, doc.instance, running, buried)
  BY <1>1, CalmFacts, HandlerFacts
<1>4. /\ case'.slow = slow /\ case'.crashes = case.crashes /\ case'.strategy = case.strategy
      /\ case'.helpers = case.helpers /\ case'.expires = case.expires
      /\ slow \in Nat /\ slow <= case.slow
  <2>1. CASE late
    <3>1. case' = [case EXCEPT !.slow = case.slow - 1]
      BY <1>1, <2>1
    <3> QED BY <1>1, <1>3, <2>1, <3>1 DEF Case
  <2>2. CASE ~late
    BY <1>1, <1>3, <2>2
  <2> QED BY <2>1, <2>2
<1>5. CaseCalm'
  <2>1. case'.slow + case'.crashes < Tries
    BY <1>3, <1>4 DEF CalmInv, CaseCalm, Tries
  <2> QED BY <1>1, <1>4, <2>1 DEF CalmInv, CaseCalm
<1> SUFFICES ASSUME ~Settled PROVE CalmInv'
  BY <1>2, <1>5 DEF CalmInv
<1>6. Going(h, case, up, doc.rev)
  BY <1>1, CalmFacts
<1>7. h.task = "open"
  BY <1>1, <1>3 DEF HandlerOK
<1>8. tried + slow + case.crashes < Tries
  <2>1. h.tries + case.slow + case.crashes + Pending(h, up) < Tries
    BY <1>6, <1>7 DEF Going
  <2>2. late \/ Pending(h, up) = 1
    BY <1>1, <1>6 DEF Going, Pending, Left
  <2>3. CASE late
    <3>1. Pending(h, up) \in {0, 1} /\ slow = case.slow - 1
      BY <2>3 DEF Pending
    <3> HIDE DEF slow, late
    <3> QED BY <1>3, <2>1, <3>1 DEF Tries
  <2>4. CASE ~late
    <3>1. Pending(h, up) = 1 /\ slow = case.slow
      BY <2>2, <2>4
    <3> HIDE DEF slow, late
    <3> QED BY <1>3, <2>1, <3>1 DEF Tries
  <2> QED BY <2>3, <2>4
<1>9. solver = "announced"
  BY <1>3, <1>4, <1>8 DEF Tries
<1>10. tried \in Nat
  BY <1>3
<1> HIDE DEF tried, solver, slow, late
<1>11. /\ g.task = h.task /\ g.solver = solver /\ g.answer = "none" /\ g.attempt = h.attempt
       /\ g.timer = h.timer /\ g.tries = tried
  BY <1>3 DEF Handlers
<1> HIDE DEF g
<1>12. Going(g, case', up, doc.rev)
  <2>1. Pending(g, up) = 0
    BY <1>9, <1>11 DEF Pending
  <2>2. g.tries + case'.slow + case'.crashes + Pending(g, up) < Tries
    BY <1>3, <1>4, <1>8, <1>10, <1>11, <2>1 DEF Tries
  <2> QED BY <1>1, <1>4, <1>6, <1>7, <1>9, <1>11, <2>2 DEF Going
<1>13. ASSUME NEW x \in up, x # m
       PROVE  Going(hd[x], case', up, doc.rev)
  <2>1. Going(hd[x], case, up, doc.rev) /\ hd[x].tries \in Nat
    BY CalmFacts
  <2>2. Pending(hd[x], up) \in {0, 1}
    BY DEF Pending
  <2>3. hd[x].tries + case.slow + case.crashes + Pending(hd[x], up) < Tries
          => hd[x].tries + case'.slow + case'.crashes + Pending(hd[x], up) < Tries
    BY <1>3, <1>4, <2>1, <2>2 DEF Tries
  <2> QED BY <1>4, <2>1, <2>3 DEF Going
<1>14. \A x \in up : Going(hd'[x], case', up, doc.rev)
  BY <1>1, <1>3, <1>12, <1>13
<1> QED BY <1>1, <1>5, <1>14 DEF CalmInv

LEMMA CalmTask ==
  ASSUME EndInv, AheadInv, CalmInv, NEW m \in Monitors, TaskSteps(m)
  PROVE  CalmInv'
<1> DEFINE h == hd[m]
<1>1. CASE HandleAgentDeath(m)
  <2>1. m \in up /\ UNCHANGED <<case, up, doc, running, buried, known, news, helper>>
    BY <1>1 DEF HandleAgentDeath
  <2>2. Settled' <=> Settled
    BY <2>1 DEF Settled
  <2>3. CASE h.task = "none"
    <3> DEFINE g == [h EXCEPT !.task = "fetching"]
    <3>1. h \in Handlers /\ DOMAIN hd = Monitors /\ (~Settled => Going(h, case, up, doc.rev))
      BY <2>1, CalmFacts
    <3>2. hd' = [hd EXCEPT ![m] = g]
      BY <1>1, <2>3, <3>1 DEF HandleAgentDeath
    <3>3. /\ g.task = "fetching" /\ g.solver = h.solver /\ g.answer = h.answer
          /\ g.attempt = h.attempt /\ g.timer = h.timer
      BY <3>1 DEF Handlers
    <3> HIDE DEF g
    <3>4. ~Settled => Going(g, case, up, doc.rev)
      BY <2>3, <3>1, <3>3 DEF Going
    <3> QED BY <2>1, <2>2, <3>2, <3>4, CalmSets
  <2>4. CASE h.task # "none"
    BY <1>1, <2>1, <2>2, <2>4, CalmKeeps DEF HandleAgentDeath
  <2> QED BY <2>3, <2>4
<1>2. CASE RestartHandled(m)
  <2>1. /\ hd[m].answer = "ready" /\ UNCHANGED <<case, up, running, buried>>
    BY <1>2 DEF RestartHandled
  <2>2. Settled'
    BY <2>1, HandlerFacts DEF HandlerOK, Settled
  <2> QED BY <2>1, <2>2, CalmSettled
<1> QED BY <1>1, <1>2, CalmFetches, CalmRequests, CalmAnnounces, CalmGrants DEF TaskSteps

(* An attempt goes on, while the tries are as they were. *)
LEMMA CalmSteps ==
  ASSUME EndInv, CalmInv, UNCHANGED <<case, up, known, running, buried>>,
         NEW m \in up, NEW g, hd' = [hd EXCEPT ![m] = g],
         hd[m].solver = "local",
         g.task = hd[m].task, g.solver = hd[m].solver, g.answer = hd[m].answer,
         g.tries = hd[m].tries,
         g.attempt \notin {"none", "done", "adopting"}, g.attempt = "waiting" => g.timer,
         g.attempt \in {"moving", "lost"} => case.strategy = "wherever",
         \/ doc'.rev = doc.rev /\ g.rev = hd[m].rev
         \/ OneResolver /\ g.rev = doc'.rev
  PROVE  CalmInv'
<1>1. Settled' <=> Settled
  BY DEF Settled
<1>2. CASE ~Settled
  <2>1. Going(hd[m], case, up, doc.rev)
    BY <1>2 DEF CalmInv
  <2>2. Pending(g, up) = 0 /\ Pending(hd[m], up) = 0
    BY DEF Pending
  <2>3. Going(g, case, up, doc'.rev)
    BY <2>1, <2>2 DEF Going
  <2> QED BY <1>1, <2>3, CalmSets
<1>3. CASE Settled
  BY <1>1, <1>3, CalmSettled
<1> QED BY <1>2, <1>3

LEMMA CalmAttempt ==
  ASSUME EndInv, OneResolver, CalmInv, NEW m \in Monitors, AttemptSteps(m)
  PROVE  CalmInv'
<1> DEFINE h == hd[m]
<1>0. UNCHANGED <<case, up, known>>
  BY DEF AttemptSteps, SetRestartFlag, PartnersAnswer, HelperEnds, RestartComplete, WaitingTimeout,
         RestartYourself, Move, RestartedTold, BuriedTold, Adopt, SolverExpires
<1>1. CASE Settled'
  BY <1>0, <1>1, CalmSettled
<1> SUFFICES ASSUME ~Settled' PROVE CalmInv'
  BY <1>1
<1>2. h \in Handlers /\ HandlerOK(h, doc.instance, running, buried)
      /\ running \in BOOLEAN /\ buried \in BOOLEAN
  BY HandlerFacts
<1>3. /\ doc.rev \in Nat /\ doc.deleted \in BOOLEAN /\ (doc.deleted => buried)
      /\ doc \in [rev : Nat, instance : Nat, deleted : BOOLEAN]
      /\ helper[m] = "reporting" => running
  BY DEF EndInv, WorldOK
<1>4. ASSUME NEW a, Attempts(m, a), a # "none", ~Settled
      PROVE  m \in up /\ h.solver = "local" /\ Going(h, case, up, doc.rev)
  <2>1. m \in up /\ h.attempt = a /\ Going(h, case, up, doc.rev)
    BY <1>4, CalmFacts DEF Attempts
  <2> QED BY <1>4, <2>1 DEF Going
<1>5. ASSUME NEW a \in {"asking", "starting", "moving", "burying"}, m \in up, h.solver = "local",
             Set(m, [h EXCEPT !.attempt = a]), UNCHANGED <<doc, running, buried>>,
             a = "moving" => case.strategy = "wherever"
      PROVE  CalmInv'
  <2> DEFINE g == [h EXCEPT !.attempt = a]
  <2>1. /\ g.task = h.task /\ g.solver = h.solver /\ g.answer = h.answer /\ g.tries = h.tries
        /\ g.attempt = a /\ g.rev = h.rev
    BY <1>2 DEF Handlers
  <2>2. hd' = [hd EXCEPT ![m] = g]
    BY <1>5 DEF Set
  <2> HIDE DEF g
  <2> QED BY <1>0, <1>5, <2>1, <2>2, CalmSteps
<1>6. ASSUME NEW a \in {"asking", "lost"}, NEW n \in {1, 2}, m \in up, h.solver = "local",
             Saved(m, [h EXCEPT !.attempt = a], n), UNCHANGED <<running, buried>>,
             a = "lost" => case.strategy = "wherever"
      PROVE  CalmInv'
  <2> DEFINE r == doc.rev + n
             f == [h EXCEPT !.attempt = a]
             g == [f EXCEPT !.rev = r]
  <2>1. hd' = [hd EXCEPT ![m] = g] /\ doc' = [doc EXCEPT !.rev = r]
    BY <1>6 DEF Saved, Set
  <2> HIDE DEF r
  <2>2. /\ g.task = h.task /\ g.solver = h.solver /\ g.answer = h.answer /\ g.tries = h.tries
        /\ g.attempt = a /\ g.rev = r
    BY <1>2 DEF Handlers
  <2>3. doc'.rev = r
    BY <1>3, <2>1
  <2> HIDE DEF g
  <2> QED BY <1>0, <1>6, <2>1, <2>2, <2>3, CalmSteps
<1>7. CASE SetRestartFlag(m)
  <2>1. /\ Attempts(m, "flag") /\ UNCHANGED <<running, buried>> /\ ~Settled
    BY <1>7 DEF SetRestartFlag, Settled
  <2>2. m \in up /\ h.solver = "local"
    BY <1>4, <2>1
  <2>3. CASE Saved(m, [hd[m] EXCEPT !.attempt = "asking"], 1)
    BY <1>6, <2>1, <2>2, <2>3
  <2>4. CASE Set(m, [hd[m] EXCEPT !.attempt = "starting"]) /\ UNCHANGED doc
    BY <1>5, <2>1, <2>2, <2>4
  <2> QED BY <1>7, <2>3, <2>4 DEF SetRestartFlag
<1>8. CASE PartnersAnswer(m)
  <2>1. /\ Attempts(m, "asking") /\ UNCHANGED <<doc, running, buried>> /\ ~Settled
    BY <1>8 DEF PartnersAnswer, Settled
  <2>2. m \in up /\ h.solver = "local"
    BY <1>4, <2>1
  <2>3. CASE Set(m, [hd[m] EXCEPT !.attempt = "waiting", !.timer = TRUE])
    <3> DEFINE g == [h EXCEPT !.attempt = "waiting", !.timer = TRUE]
    <3>1. /\ g.task = h.task /\ g.solver = h.solver /\ g.answer = h.answer /\ g.tries = h.tries
          /\ g.attempt = "waiting" /\ g.timer /\ g.rev = h.rev
      BY <1>2 DEF Handlers
    <3>2. hd' = [hd EXCEPT ![m] = g]
      BY <2>3 DEF Set
    <3> HIDE DEF g
    <3> QED BY <1>0, <2>1, <2>2, <3>1, <3>2, CalmSteps
  <2>4. CASE Set(m, [hd[m] EXCEPT !.attempt = "starting"])
    BY <1>5, <2>1, <2>2, <2>4
  <2> QED BY <1>8, <2>3, <2>4 DEF PartnersAnswer
<1>9. CASE HelperEnds(m)
  <2>1. hd' = hd /\ buried' = buried
    BY <1>9 DEF HelperEnds
  <2>2. CASE StartAgent
    BY <2>2 DEF StartAgent, Settled
  <2>3. CASE UNCHANGED <<doc, running>>
    BY <1>0, <2>1, <2>3, CalmKeeps DEF Settled
  <2>4. CASE "touches" \in case.helpers /\ UNCHANGED running
    BY <1>0, <2>1, <2>4, CalmKeeps DEF Settled, CalmInv, CaseCalm
  <2> QED BY <1>9, <2>2, <2>3, <2>4 DEF HelperEnds
<1>10. CASE RestartComplete(m)
  BY <1>3, <1>10 DEF RestartComplete, Settled
<1>11. CASE WaitingTimeout(m)
  <2>1. /\ m \in up /\ h.timer /\ hd' = [hd EXCEPT ![m] = Retry(h)]
        /\ UNCHANGED <<doc, running, buried>> /\ ~Settled
    BY <1>11 DEF WaitingTimeout, Set, Settled
  <2>2. h.solver = "local"
    BY <2>1, CalmFacts DEF Going
  <2> DEFINE g == Retry(h)
  <2>3. /\ g.task = h.task /\ g.solver = h.solver /\ g.answer = h.answer /\ g.tries = h.tries
        /\ g.attempt \in {"flag", "burying"} /\ g.rev = h.rev
    BY <1>2, RetryFields
  <2> HIDE DEF g
  <2>4. hd' = [hd EXCEPT ![m] = g]
    BY <2>1 DEF g
  <2> QED BY <1>0, <2>1, <2>2, <2>3, <2>4, CalmSteps
<1>12. CASE RestartYourself(m)
  <2>1. Attempts(m, "starting") /\ buried' = buried
    BY <1>12 DEF RestartYourself
  <2>2. CASE StartAgent
    BY <2>2 DEF StartAgent, Settled
  <2>3. CASE Set(m, RestartFailed(h)) /\ UNCHANGED <<doc, running>>
    <3>1. ~Settled
      BY <2>1, <2>3 DEF Settled
    <3>2. m \in up /\ h.solver = "local"
      BY <1>4, <2>1, <3>1
    <3>3. CASE case.strategy = "wherever"
      <4>1. Set(m, [h EXCEPT !.attempt = "moving"])
        BY <2>3, <3>3 DEF RestartFailed
      <4> QED BY <1>5, <2>1, <2>3, <3>2, <3>3, <4>1
    <3>4. CASE case.strategy # "wherever"
      <4>1. Set(m, [h EXCEPT !.attempt = "burying"])
        BY <2>3, <3>4 DEF RestartFailed
      <4> QED BY <1>5, <2>1, <2>3, <3>2, <4>1
    <3> QED BY <3>3, <3>4
  <2> QED BY <1>12, <2>2, <2>3 DEF RestartYourself
<1>13. CASE Move(m)
  <2>1. Attempts(m, "moving") /\ buried' = buried
    BY <1>13 DEF Move
  <2>2. CASE running' = TRUE
    BY <2>2 DEF Settled
  <2>3. ASSUME UNCHANGED running
        PROVE  /\ m \in up /\ h.solver = "local" /\ case.strategy = "wherever" /\ Current(m)
    <3>1. ~Settled
      BY <2>1, <2>3 DEF Settled
    <3>2. m \in up /\ h.solver = "local" /\ Going(h, case, up, doc.rev) /\ h.attempt = "moving"
      BY <1>4, <2>1, <3>1 DEF Attempts
    <3>3. case.strategy = "wherever" /\ h.rev = doc.rev
      BY <3>2 DEF Going
    <3> QED BY <1>3, <3>1, <3>2, <3>3 DEF Current, Settled
  <2>4. CASE Saved(m, [hd[m] EXCEPT !.attempt = "lost"], 2) /\ UNCHANGED running
    BY <1>6, <2>1, <2>3, <2>4
  <2>5. CASE ~Current(m) /\ UNCHANGED running
    BY <2>3, <2>5
  <2> QED BY <1>13, <2>2, <2>4, <2>5 DEF Move
<1>14. CASE RestartedTold(m)
  BY <1>2, <1>14 DEF RestartedTold, HandlerOK, Settled
<1>15. CASE BuriedTold(m)
  BY <1>15 DEF BuriedTold, Settled
<1>16. CASE Adopt(m)
  BY <1>2, <1>16 DEF Adopt, Attempts, HandlerOK, Settled
<1>17. CASE SolverExpires(m)
  BY <1>17 DEF SolverExpires, CalmInv, CaseCalm
<1> QED BY <1>7, <1>8, <1>9, <1>10, <1>11, <1>12, <1>13, <1>14, <1>15, <1>16, <1>17
        DEF AttemptSteps

(* A monitor crashes: the grants that it had will expire. *)
LEMMA CalmCrash ==
  ASSUME EndInv, CalmInv, NEW m \in Monitors, MonitorCrash(m)
  PROVE  CalmInv'
<1> DEFINE crashes == case.crashes - 1
<1>1. /\ m \in up /\ up' = up \ {m} /\ case.crashes > 0 /\ hd' = [hd EXCEPT ![m] = Idle]
      /\ case' = [case EXCEPT !.crashes = crashes]
      /\ UNCHANGED <<doc, running, buried, known, watching, news, helper>>
  BY DEF MonitorCrash, Set
<1>2. Settled' <=> Settled
  BY <1>1 DEF Settled
<1>3. /\ case \in Case /\ case.slow \in Nat /\ case.crashes \in Nat /\ DOMAIN hd = Monitors
      /\ up \subseteq Monitors
  BY <1>1, CalmFacts DEF EndInv, WorldOK
<1>4. crashes \in Nat /\ crashes + 1 = case.crashes
  BY <1>1, <1>3
<1> HIDE DEF crashes
<1>5. /\ case'.slow = case.slow /\ case'.crashes = crashes /\ case'.strategy = case.strategy
      /\ case'.helpers = case.helpers /\ case'.expires = case.expires
  BY <1>1, <1>3 DEF Case
<1>6. case.strategy # "wherever" /\ ~case.expires /\ case.slow + case.crashes < Tries
  BY <1>1 DEF CalmInv, CaseCalm
<1>7. CaseCalm'
  BY <1>3, <1>4, <1>5, <1>6 DEF CaseCalm, Tries
<1>8. ASSUME ~Settled, NEW x \in up'
      PROVE  Going(hd'[x], case', up', doc'.rev)
  <2>1. x \in up /\ hd'[x] = hd[x]
    BY <1>1, <1>3
  <2>2. Going(hd[x], case, up, doc.rev) /\ hd[x].tries \in Nat
    BY <1>8, <2>1, CalmFacts
  <2>3. Pending(hd[x], up) \in {0, 1} /\ Pending(hd[x], up') \in {0, 1}
    BY DEF Pending
  <2>4. hd[x].tries + case.slow + case.crashes + Pending(hd[x], up) < Tries
          => hd[x].tries + case'.slow + case'.crashes + Pending(hd[x], up') < Tries
    BY <1>3, <1>4, <1>5, <2>2, <2>3 DEF Tries
  <2> QED BY <1>5, <1>6, <2>1, <2>2, <2>4 DEF Going
<1> QED BY <1>1, <1>2, <1>7, <1>8 DEF CalmInv

LEMMA CalmGoes ==
  ASSUME EndInv, AheadInv, OneResolver, CalmInv, [DeathNext]_deathVars
  PROVE  CalmInv'
<1>1. CASE DeathNext
  <2>1. PICK m \in Monitors : TaskSteps(m) \/ AttemptSteps(m) \/ Hear(m) \/ MonitorCrash(m)
    BY <1>1 DEF DeathNext
  <2>2. ASSUME Hear(m)
        PROVE  CalmInv'
    <3>1. UNCHANGED <<case, up, doc, running, buried, hd>>
      BY <2>2 DEF Hear
    <3>2. known' = [known EXCEPT ![m] = IF buried THEN 0 ELSE doc.instance]
      BY <2>2 DEF Hear
    <3>3. (Settled' <=> Settled) /\ (~Settled => ~buried)
      BY <3>1 DEF Settled
    <3>4. known \in [Monitors -> Nat] /\ doc.instance >= 1 /\ doc.instance \in Nat
      BY DEF EndInv, WorldOK
    <3>5. ToSet(Brothers) \subseteq Monitors
      BY BrothersAssumption DEF ToSet
    <3>6. ~Settled => \A b \in ToSet(Brothers) : known'[b] # 0
      BY <3>2, <3>3, <3>4, <3>5 DEF CalmInv
    <3> QED BY <3>1, <3>3, <3>6 DEF CalmInv, CaseCalm
  <2> QED BY <2>1, <2>2, CalmTask, CalmAttempt, CalmCrash
<1>2. CASE UNCHANGED deathVars
  BY <1>2, CalmKeeps DEF deathVars, Settled
<1> QED BY <1>1, <1>2

-----------------------------------------------------------------------------
(* Nobody is left with the death although solvers expire *)

(* The state of a monitor while the death is not settled, when so many are *)
(* busy with it: whoever neither asks nor resolves the death has asked one *)
(* before it that is busy.                                                 *)
Chained(h, busy) ==
  /\ h.attempt \in {"none", "flag", "asking", "waiting", "starting", "burying"}
  /\ h.attempt = "waiting" => h.timer
  /\ h.task \in {"open", "failed"} =>
       \/ h.solver = "announced" \/ h.attempt # "none"
       \/ h.solver \in {"granted", "gone"} /\ h.ahead > 0 /\ Brothers[h.ahead] \in busy

Busy == {x \in Monitors : hd[x].task # "none"}

ChainInv ==
  /\ case.expires /\ case.crashes = 0 /\ case.strategy # "wherever" /\ up = Monitors
  /\ ~Settled => /\ \A b \in ToSet(Brothers) : known[b] # 0
                 /\ \A m \in Monitors : Chained(hd[m], Busy)

LEMMA ChainBegins ==
  ASSUME Mild, DeathInit, case.expires
  PROVE  ChainInv
<1>1. /\ case \in Cases /\ up = Monitors /\ ToSet(Brothers) \subseteq Partnered
      /\ ToSet(Brothers) \subseteq Monitors
  BY BrothersAssumption DEF DeathInit, Mild, ToSet
<1>2. case.crashes = 0 /\ case.strategy # "wherever"
  BY <1>1 DEF Mild
<1>3. \A b \in ToSet(Brothers) : known[b] # 0
  BY <1>1 DEF DeathInit
<1>4. \A m \in Monitors : Chained(hd[m], Busy)
  BY DEF DeathInit, Chained, Idle
<1> QED BY <1>1, <1>2, <1>3, <1>4 DEF ChainInv

(* One that is busy and first in the list of the others works on it.       *)
LEMMA SomebodyWorks ==
  ASSUME EndInv, AheadInv, ChainInv
  PROVE  NeverStranded
<1> SUFFICES ASSUME NEW m \in up, hd[m].task # "none", ~Settled
             PROVE  \E r \in up : Works(r)
  BY DEF NeverStranded
<1> DEFINE P == {Place(x) : x \in Busy}
<1>1. P \subseteq Nat /\ P # {}
  <2>1. m \in Busy
    BY HandlerFacts DEF Busy, ChainInv
  <2>2. \A x \in Busy : Place(x) \in Nat
    BY PlaceBounds DEF Busy
  <2> QED BY <2>1, <2>2
<1>2. PICK p \in P : \A q \in P : <<q, p>> \notin OpToRel(<, Nat)
  BY <1>1, NatLessThanWellFounded, WFMin
<1>3. \A q \in P : p <= q
  <2>1. ASSUME NEW q \in P, q < p
        PROVE  FALSE
    <3>1. <<q, p>> \in Nat \X Nat
      BY <1>1
    <3> HIDE DEF P
    <3>2. <<q, p>> \in OpToRel(<, Nat)
      BY <2>1, <3>1 DEF OpToRel
    <3> QED BY <1>2, <3>2
  <2>2. p \in Nat /\ \A q \in P : q \in Nat
    BY <1>1
  <2> HIDE DEF P
  <2> QED BY <2>1, <2>2
<1>4. PICK r \in Busy : p = Place(r)
  OBVIOUS
<1>5. /\ r \in Monitors /\ r \in up /\ hd[r].task # "none" /\ Chained(hd[r], Busy)
      /\ AheadOK(hd[r], r, up) /\ hd[r] \in Handlers
  BY <1>4, HandlerFacts DEF Busy, ChainInv, AheadInv
<1>6. ~(hd[r].ahead > 0 /\ Brothers[hd[r].ahead] \in Busy)
  <2> SUFFICES ASSUME hd[r].ahead > 0, Brothers[hd[r].ahead] \in Busy
               PROVE  FALSE
    OBVIOUS
  <2> DEFINE a == hd[r].ahead
             b == Brothers[a]
  <2>1. a \in 1..Len(Brothers) /\ a <= Place(r)
    BY <1>5 DEF Handlers, AheadOK
  <2>2. b \in Monitors /\ b \in ToSet(Brothers)
    BY <2>1, BrothersAssumption DEF ToSet
  <2>3. Place(b) \in Nat /\ Place(b) + 1 \in 1..Len(Brothers) /\ Brothers[Place(b) + 1] = b
    BY <2>2, PlaceBounds
  <2>4. Place(b) + 1 = a
    BY <2>1, <2>3, BrothersAssumption DEF IsInjective
  <2>5. Place(r) <= Place(b) /\ Place(r) \in Nat
    BY <1>3, <1>4, <1>5, PlaceBounds
  <2>6. a \in Nat /\ Place(b) \in Nat /\ Place(b) + 1 = a /\ a <= Place(r)
    BY <2>1, <2>3, <2>4
  <2> QED BY ONLY <2>5, <2>6
<1>7. Works(r)
  <2>1. CASE hd[r].task = "fetching"
    BY <2>1 DEF Works
  <2>2. CASE hd[r].task \in {"open", "failed"}
    <3>1. hd[r].solver = "announced" \/ hd[r].attempt # "none"
      BY <1>5, <1>6, <2>2 DEF Chained
    <3> QED BY <1>5, <3>1 DEF Chained, Works
  <2> QED BY <1>5, <2>1, <2>2 DEF Handlers
<1> QED BY <1>5, <1>7

LEMMA ChainSettled ==
  ASSUME ChainInv, up' = up, case'.expires = case.expires, case'.crashes = case.crashes,
         case'.strategy = case.strategy, Settled'
  PROVE  ChainInv'
BY DEF ChainInv

(* A step that changes one handler and takes no task away.                 *)
LEMMA ChainSets ==
  ASSUME EndInv, ChainInv, UNCHANGED <<up, known>>, case'.expires = case.expires,
         case'.crashes = case.crashes, case'.strategy = case.strategy, Settled => Settled',
         NEW m \in Monitors, NEW g, hd' = [hd EXCEPT ![m] = g],
         g.task = "none" => hd[m].task = "none",
         ~Settled => Chained(g, Busy)
  PROVE  ChainInv'
<1> SUFFICES ASSUME ~Settled' PROVE ChainInv'
  BY ChainSettled
<1>1. \A x \in Monitors : hd'[x] = IF x = m THEN g ELSE hd[x]
  BY DEF EndInv, TasksOK
<1>2. Busy \subseteq Busy'
  BY <1>1 DEF Busy
<1>3. \A x \in Monitors : Chained(hd'[x], Busy)
  BY <1>1 DEF ChainInv
<1>4. \A x \in Monitors : Chained(hd'[x], Busy')
  BY <1>2, <1>3 DEF Chained
<1> QED BY <1>4 DEF ChainInv

LEMMA ChainKeeps ==
  ASSUME ChainInv, UNCHANGED <<up, known, hd, case>>, Settled => Settled'
  PROVE  ChainInv'
<1>1. Busy' = Busy
  BY DEF Busy
<1> QED BY <1>1 DEF ChainInv

LEMMA ChainFetches ==
  ASSUME EndInv, AheadInv, ChainInv, NEW m \in Monitors, FetchDescriptor(m)
  PROVE  ChainInv'
<1> DEFINE h == hd[m]
           f == [h EXCEPT !.task = "open", !.rev = doc.rev, !.instance = doc.instance]
           g == Iterate(f, Place(m))
<1>1. m \in up /\ h.task = "fetching"
      /\ UNCHANGED <<case, up, doc, running, buried, known, watching, news, helper>>
  BY DEF FetchDescriptor
<1>2. Settled' <=> Settled
  BY <1>1 DEF Settled
<1> SUFFICES ASSUME ~Settled PROVE ChainInv'
  BY <1>1, <1>2, ChainSettled
<1>3. /\ h \in Handlers /\ doc.instance \in Nat /\ doc.rev \in Nat /\ ~doc.deleted
      /\ AheadOK(h, m, up)
  BY HandlerFacts DEF AheadInv, EndInv, WorldOK, Settled
<1>4. hd' = [hd EXCEPT ![m] = g]
  BY <1>3 DEF FetchDescriptor
<1>5. f \in Handlers /\ f.task = "open" /\ f.attempt = h.attempt
  BY <1>3 DEF Handlers
<1>6. h.attempt = "none"
  BY <1>1, <1>3 DEF AheadOK
<1> HIDE DEF f
<1>7. Place(m) \in 0..Len(Brothers)
  BY PlaceBounds
<1>8. /\ g.task = "open"
      /\ Place(m) = 0 => g.attempt \in {"flag", "burying"}
      /\ Place(m) # 0 => g.solver = "announced" /\ g.attempt = "none"
  BY <1>5, <1>6, <1>7, IterateFields
<1> HIDE DEF g
<1>9. Chained(g, Busy)
  BY <1>8 DEF Chained
<1> QED BY <1>1, <1>2, <1>4, <1>8, <1>9, ChainSets

(* The one who is asked is busy, or gets a task.                           *)
LEMMA ChainRequests ==
  ASSUME EndInv, EndInv', AheadInv, ChainInv, NEW m \in Monitors, HandlingDeathRequested(m)
  PROVE  ChainInv'
<1> DEFINE h == hd[m]
           r == Left(m)
           starts == hd[r].task = "none" /\ known[r] # 0 /\ known[r] = h.instance
           answer == IF hd[r].task \in {"fetching", "open"} \/ starts THEN "waits"
                     ELSE IF hd[r].task = "failed" \/ known[r] = 0 THEN "broken" ELSE "ready"
           g == [h EXCEPT !.solver = "granted", !.answer = answer]
           k == [hd[r] EXCEPT !.task = "fetching"]
<1>1. /\ m \in up /\ h.solver = "announced" /\ r \in up
      /\ UNCHANGED <<case, up, doc, running, buried, known, watching, news, helper>>
      /\ hd' = [hd EXCEPT ![m].solver = "granted", ![m].answer = answer,
                          ![r].task = IF starts THEN "fetching" ELSE @]
  BY DEF HandlingDeathRequested
<1>2. Settled' <=> Settled
  BY <1>1 DEF Settled
<1> SUFFICES ASSUME ~Settled PROVE ChainInv'
  BY <1>1, <1>2, ChainSettled
<1>3. /\ h \in Handlers /\ hd[r] \in Handlers /\ DOMAIN hd = Monitors /\ r \in Monitors
      /\ HandlerOK(h, doc.instance, running, buried)
  BY <1>1, HandlerFacts DEF EndInv, WorldOK
<1>4. h.task = "open" /\ h.ahead \in 1..Len(Brothers) /\ r = Brothers[h.ahead]
  BY <1>1, <1>3 DEF HandlerOK, Handlers, Left
<1>5. r \in ToSet(Brothers)
  BY <1>4, BrothersAssumption DEF ToSet
<1>6. starts => r # m
  BY <1>4
<1>7. \A x \in Monitors : hd'[x] = IF x = m THEN g ELSE IF x = r /\ starts THEN k ELSE hd[x]
  <2> HIDE DEF answer, starts, r
  <2>1. CASE starts
    BY <1>1, <1>3, <1>6, <2>1
  <2>2. CASE ~starts
    <3>1. CASE r = m
      BY <1>1, <1>3, <2>2, <3>1 DEF Handlers
    <3>2. CASE r # m
      <4>1. [hd[r] EXCEPT !.task = hd[r].task] = hd[r]
        BY <1>3 DEF Handlers
      <4> QED BY <1>1, <1>3, <2>2, <3>2, <4>1
    <3> QED BY <3>1, <3>2
  <2> QED BY <2>1, <2>2
<1>8. /\ g.task = h.task /\ g.solver = "granted" /\ g.answer = answer /\ g.attempt = h.attempt
      /\ g.timer = h.timer /\ g.ahead = h.ahead
  BY <1>3 DEF Handlers
<1>9. answer # "ready"
  <2>1. hd'[m].answer = answer
    <3> HIDE DEF g, answer
    <3> QED BY <1>7, <1>8
  <2>2. HandlerOK(hd'[m], doc'.instance, running', buried')
    BY DEF EndInv, TasksOK
  <2> HIDE DEF answer
  <2> QED BY <1>1, <2>1, <2>2 DEF HandlerOK, Settled
<1>10. known[r] # 0
  BY <1>5 DEF ChainInv
<1>11. starts \/ hd[r].task # "none"
  BY <1>9, <1>10
<1>12. k.task = "fetching" /\ k.attempt = hd[r].attempt /\ k.timer = hd[r].timer
  BY <1>3 DEF Handlers
<1> HIDE DEF g, k, starts, answer
<1>13. Busy \subseteq Busy' /\ r \in Busy'
  BY <1>3, <1>4, <1>7, <1>8, <1>11, <1>12 DEF Busy
<1>14. ASSUME NEW x \in Monitors
       PROVE  Chained(hd'[x], Busy')
  <2>1. Chained(hd[x], Busy)
    BY DEF ChainInv
  <2>2. Chained(hd[x], Busy')
    BY <1>13, <2>1 DEF Chained
  <2>3. CASE x = m
    <3>1. hd'[x] = g
      BY <1>7, <2>3
    <3> QED BY <1>4, <1>8, <1>13, <2>2, <2>3, <3>1 DEF Chained
  <2>4. CASE x # m /\ x = r /\ starts
    <3>1. hd'[x] = k
      BY <1>7, <2>4
    <3> QED BY <1>12, <2>2, <2>4, <3>1 DEF Chained
  <2>5. CASE x # m /\ ~(x = r /\ starts)
    BY <1>7, <2>2, <2>5
  <2> QED BY <2>3, <2>4, <2>5
<1> QED BY <1>1, <1>2, <1>14 DEF ChainInv

LEMMA ChainGrants ==
  ASSUME EndInv, ChainInv, NEW m \in Monitors, GrantExpires(m)
  PROVE  ChainInv'
<1> DEFINE h == hd[m]
           late == Left(m) \in up /\ h.answer # "broken"
           tried == h.tries + 1
           solver == IF tried < Tries THEN "announced" ELSE "gone"
           g == [h EXCEPT !.tries = tried, !.answer = "none", !.solver = solver]
<1>1. /\ m \in up /\ h.solver = "granted" /\ hd' = [hd EXCEPT ![m] = g]
      /\ UNCHANGED <<up, doc, running, buried, known, watching, news, helper>>
      /\ case' = IF late THEN [case EXCEPT !.slow = @ - 1] ELSE case
  BY DEF GrantExpires, Set
<1>2. Settled' <=> Settled
  BY <1>1 DEF Settled
<1>3. h \in Handlers /\ case \in Case /\ DOMAIN hd = Monitors
  BY HandlerFacts
<1>4. /\ case'.crashes = case.crashes /\ case'.strategy = case.strategy
      /\ case'.expires = case.expires
  <2> HIDE DEF late
  <2> QED BY <1>1, <1>3 DEF Case
<1>5. solver \in {"announced", "gone"}
  OBVIOUS
<1> HIDE DEF tried, solver, late
<1>6. /\ g.task = h.task /\ g.solver = solver /\ g.attempt = h.attempt /\ g.timer = h.timer
      /\ g.ahead = h.ahead
  BY <1>3 DEF Handlers
<1> HIDE DEF g
<1>7. ~Settled => Chained(g, Busy)
  <2>1. ~Settled => Chained(h, Busy)
    BY DEF ChainInv
  <2> QED BY <1>1, <1>5, <1>6, <2>1 DEF Chained
<1> QED BY <1>1, <1>2, <1>4, <1>6, <1>7, ChainSets

LEMMA ChainTask ==
  ASSUME EndInv, EndInv', AheadInv, ChainInv, NEW m \in Monitors, TaskSteps(m)
  PROVE  ChainInv'
<1> DEFINE h == hd[m]
<1>1. CASE HandleAgentDeath(m)
  <2>1. m \in up /\ UNCHANGED <<case, up, doc, running, buried, known, news, helper>>
    BY <1>1 DEF HandleAgentDeath
  <2>2. Settled' <=> Settled
    BY <2>1 DEF Settled
  <2>3. CASE h.task = "none"
    <3> DEFINE g == [h EXCEPT !.task = "fetching"]
    <3>1. h \in Handlers /\ DOMAIN hd = Monitors /\ (~Settled => Chained(h, Busy))
      BY HandlerFacts DEF ChainInv
    <3>2. hd' = [hd EXCEPT ![m] = g]
      BY <1>1, <2>3, <3>1 DEF HandleAgentDeath
    <3>3. g.task = "fetching" /\ g.attempt = h.attempt /\ g.timer = h.timer
      BY <3>1 DEF Handlers
    <3> HIDE DEF g
    <3>4. ~Settled => Chained(g, Busy)
      BY <3>1, <3>3 DEF Chained
    <3> QED BY <2>1, <2>2, <3>2, <3>3, <3>4, ChainSets
  <2>4. CASE h.task # "none"
    BY <1>1, <2>1, <2>2, <2>4, ChainKeeps DEF HandleAgentDeath
  <2> QED BY <2>3, <2>4
<1>2. CASE RestartHandled(m)
  <2>1. /\ hd[m].answer = "ready" /\ UNCHANGED <<case, up, running, buried>>
    BY <1>2 DEF RestartHandled
  <2>2. Settled'
    BY <2>1, HandlerFacts DEF HandlerOK, Settled
  <2> QED BY <2>1, <2>2, ChainSettled
<1>3. CASE AnnounceExpires(m)
  <2>1. /\ m \in up /\ h.solver = "announced" /\ Left(m) \notin up
    BY <1>3 DEF AnnounceExpires, AheadInv
  <2>2. h.ahead \in 1..Len(Brothers) /\ Left(m) = Brothers[h.ahead]
    BY <2>1, HandlerFacts DEF HandlerOK, Handlers, Left
  <2> QED BY <2>1, <2>2, BrothersAssumption DEF ChainInv
<1> QED BY <1>1, <1>2, <1>3, ChainFetches, ChainRequests, ChainGrants DEF TaskSteps

(* An attempt goes on, or its solver expires. *)
LEMMA ChainSteps ==
  ASSUME EndInv, ChainInv, UNCHANGED <<case, up, known>>, Settled => Settled',
         NEW m \in Monitors, NEW g, hd' = [hd EXCEPT ![m] = g], g.task = hd[m].task,
         g.attempt \in {"flag", "asking", "waiting", "starting", "burying"},
         g.attempt = "waiting" => g.timer
  PROVE  ChainInv'
<1>1. Chained(g, Busy)
  BY DEF Chained
<1> QED BY <1>1, ChainSets

LEMMA ChainExpires ==
  ASSUME EndInv, ChainInv, NEW m \in Monitors, SolverExpires(m), ~Settled'
  PROVE  ChainInv'
<1> DEFINE h == hd[m]
<1>0. UNCHANGED <<case, up, known>> /\ (Settled => Settled')
  BY ExpiresWorld DEF Settled
<1>1. h \in Handlers /\ DOMAIN hd = Monitors /\ Chained(h, Busy)
  BY <1>0, HandlerFacts DEF ChainInv
<1>2. ASSUME NEW a \in {"asking", "starting", "burying"},
             hd' = [hd EXCEPT ![m] = [h EXCEPT !.solver = "gone", !.attempt = a]]
      PROVE  ChainInv'
  <2> DEFINE g == [h EXCEPT !.solver = "gone", !.attempt = a]
  <2>1. g.task = h.task /\ g.attempt = a
    BY <1>1 DEF Handlers
  <2>2. hd' = [hd EXCEPT ![m] = g]
    BY <1>2
  <2> HIDE DEF g
  <2> QED BY <1>0, <2>1, <2>2, ChainSteps
<1>3. CASE ExpiresOver(m)
  <2>1. h.attempt \in {"asking", "burying"} /\ hd' = [hd EXCEPT ![m] = [h EXCEPT !.solver = "gone"]]
    BY <1>1, <1>3 DEF ExpiresOver, Set, Chained
  <2>2. [h EXCEPT !.solver = "gone"] = [h EXCEPT !.solver = "gone", !.attempt = h.attempt]
    BY <1>1 DEF Handlers
  <2> QED BY <1>2, <2>1, <2>2
<1>4. CASE ExpiresSaving(m) \/ ExpiresAsking(m)
  BY <1>2, <1>4 DEF ExpiresSaving, ExpiresAsking, Set
<1>5. CASE ExpiresWaiting(m)
  <2> DEFINE g == [h EXCEPT !.solver = "gone", !.task = "failed"]
  <2>1. /\ g.task = "failed" /\ g.attempt = "waiting" /\ g.timer
    BY <1>1, <1>5 DEF Handlers, ExpiresWaiting, Chained
  <2>2. hd' = Closed(m, g, "broken")
    BY <1>5 DEF ExpiresWaiting
  <2> HIDE DEF g
  <2>3. ASSUME NEW x \in Monitors
        PROVE  /\ hd'[x].task = "none" => hd[x].task = "none"
               /\ Chained(hd'[x], Busy)
    <3>1. CASE x = m
      BY <2>1, <2>2, <3>1 DEF Closed, Chained
    <3>2. CASE x # m
      <4>1. hd'[x] = hd[x] \/ hd'[x] = [hd[x] EXCEPT !.answer = "broken"]
        BY <2>2, <3>2 DEF Closed
      <4>2. hd[x] \in Handlers /\ Chained(hd[x], Busy)
        BY <1>0, HandlerFacts DEF ChainInv
      <4>3. /\ hd'[x].task = hd[x].task /\ hd'[x].solver = hd[x].solver
            /\ hd'[x].ahead = hd[x].ahead /\ hd'[x].attempt = hd[x].attempt
            /\ hd'[x].timer = hd[x].timer
        BY <4>1, <4>2 DEF Handlers
      <4> QED BY <4>2, <4>3 DEF Chained
    <3> QED BY <3>1, <3>2
  <2>4. Busy \subseteq Busy'
    BY <2>3 DEF Busy
  <2>5. \A x \in Monitors : Chained(hd'[x], Busy')
    BY <2>3, <2>4 DEF Chained
  <2> QED BY <1>0, <2>5 DEF ChainInv
<1>6. CASE ExpiresStarting(m)
  <2>1. RestartFailed([h EXCEPT !.solver = "gone"]) = [h EXCEPT !.solver = "gone", !.attempt = "burying"]
    BY <1>1 DEF Handlers, RestartFailed, ChainInv
  <2> QED BY <1>2, <1>6, <2>1 DEF ExpiresStarting, Set
<1>7. CASE ExpiresMoving(m)
  BY <1>1, <1>7 DEF ExpiresMoving, Chained
<1> QED BY <1>3, <1>4, <1>5, <1>6, <1>7 DEF SolverExpires

LEMMA ChainAttempt ==
  ASSUME EndInv, EndInv', ChainInv, NEW m \in Monitors, AttemptSteps(m), Settled => Settled'
  PROVE  ChainInv'
<1> DEFINE h == hd[m]
<1>0. UNCHANGED <<case, up, known>>
  BY DEF AttemptSteps, SetRestartFlag, PartnersAnswer, HelperEnds, RestartComplete, WaitingTimeout,
         RestartYourself, Move, RestartedTold, BuriedTold, Adopt, SolverExpires
<1>1. CASE Settled'
  BY <1>0, <1>1, ChainSettled
<1> SUFFICES ASSUME ~Settled' PROVE ChainInv'
  BY <1>1
<1>2. /\ h \in Handlers /\ HandlerOK(h, doc.instance, running, buried) /\ ~running /\ ~buried
      /\ Chained(h, Busy) /\ case.strategy # "wherever"
  BY HandlerFacts DEF ChainInv, Settled
<1>3. ASSUME NEW a \in {"asking", "starting", "burying"}, Set(m, [h EXCEPT !.attempt = a])
      PROVE  ChainInv'
  <2> DEFINE g == [h EXCEPT !.attempt = a]
  <2>1. g.task = h.task /\ g.attempt = a
    BY <1>2 DEF Handlers
  <2>2. hd' = [hd EXCEPT ![m] = g]
    BY <1>3 DEF Set
  <2> HIDE DEF g
  <2> QED BY <1>0, <2>1, <2>2, ChainSteps
<1>4. CASE SetRestartFlag(m)
  <2>1. CASE Saved(m, [hd[m] EXCEPT !.attempt = "asking"], 1)
    <3> DEFINE f == [h EXCEPT !.attempt = "asking"]
               g == [f EXCEPT !.rev = doc.rev + 1]
    <3>1. hd' = [hd EXCEPT ![m] = g]
      BY <2>1 DEF Saved, Set
    <3>2. g.task = h.task /\ g.attempt = "asking"
      BY <1>2 DEF Handlers
    <3> HIDE DEF g
    <3> QED BY <1>0, <3>1, <3>2, ChainSteps
  <2> QED BY <1>3, <1>4, <2>1 DEF SetRestartFlag
<1>5. CASE PartnersAnswer(m)
  <2>1. CASE Set(m, [hd[m] EXCEPT !.attempt = "waiting", !.timer = TRUE])
    <3> DEFINE g == [h EXCEPT !.attempt = "waiting", !.timer = TRUE]
    <3>1. g.task = h.task /\ g.attempt = "waiting" /\ g.timer
      BY <1>2 DEF Handlers
    <3>2. hd' = [hd EXCEPT ![m] = g]
      BY <2>1 DEF Set
    <3> HIDE DEF g
    <3> QED BY <1>0, <3>1, <3>2, ChainSteps
  <2> QED BY <1>3, <1>5, <2>1 DEF PartnersAnswer
<1>6. CASE HelperEnds(m)
  BY <1>0, <1>6, ChainKeeps DEF HelperEnds
<1>7. CASE RestartComplete(m)
  BY <1>2, <1>7 DEF RestartComplete, EndInv, WorldOK
<1>8. CASE WaitingTimeout(m)
  <2> DEFINE g == Retry(h)
  <2>1. g.task = h.task /\ g.attempt \in {"flag", "burying"}
    BY <1>2, RetryFields
  <2>2. hd' = [hd EXCEPT ![m] = g]
    BY <1>8 DEF WaitingTimeout, Set
  <2> HIDE DEF g
  <2> QED BY <1>0, <2>1, <2>2, ChainSteps
<1>9. CASE RestartYourself(m)
  <2>1. ~StartAgent
    BY DEF StartAgent, Settled
  <2>2. Set(m, [h EXCEPT !.attempt = "burying"])
    BY <1>2, <1>9, <2>1 DEF RestartYourself, RestartFailed
  <2> QED BY <1>3, <2>2
<1>10. CASE Move(m) \/ Adopt(m)
  BY <1>2, <1>10 DEF Move, Adopt, Attempts, Chained
<1>11. CASE RestartedTold(m)
  BY <1>2, <1>11 DEF RestartedTold, HandlerOK
<1>12. CASE BuriedTold(m)
  BY <1>12 DEF BuriedTold, Settled
<1>13. CASE SolverExpires(m)
  BY <1>13, ChainExpires
<1> QED BY <1>4, <1>5, <1>6, <1>7, <1>8, <1>9, <1>10, <1>11, <1>12, <1>13 DEF AttemptSteps

LEMMA StaysSettled ==
  ASSUME EndInv, [DeathNext]_deathVars
  PROVE  Settled => Settled'
<1>1. CASE DeathNext
  <2>1. PICK m \in Monitors : TaskSteps(m) \/ AttemptSteps(m) \/ Hear(m) \/ MonitorCrash(m)
    BY <1>1 DEF DeathNext
  <2>2. CASE TaskSteps(m) \/ Hear(m) \/ MonitorCrash(m)
    BY <2>2 DEF TaskSteps, HandleAgentDeath, FetchDescriptor, HandlingDeathRequested,
                AnnounceExpires, GrantExpires, RestartHandled, Hear, MonitorCrash, Settled
  <2>3. CASE SolverExpires(m)
    BY <2>3, ExpiresWorld DEF Settled
  <2>4. CASE AttemptSteps(m) /\ ~SolverExpires(m)
    BY <2>4 DEF AttemptSteps, SetRestartFlag, PartnersAnswer, HelperEnds, RestartComplete,
                WaitingTimeout, RestartYourself, Move, RestartedTold, BuriedTold, Adopt,
                StartAgent, Settled
  <2> QED BY <2>1, <2>2, <2>3, <2>4
<1> QED BY <1>1 DEF deathVars, Settled

LEMMA ChainGoes ==
  ASSUME EndInv, EndInv', AheadInv, ChainInv, [DeathNext]_deathVars
  PROVE  ChainInv'
<1>0. Settled => Settled'
  BY StaysSettled
<1>1. CASE DeathNext
  <2>1. PICK m \in Monitors : TaskSteps(m) \/ AttemptSteps(m) \/ Hear(m) \/ MonitorCrash(m)
    BY <1>1 DEF DeathNext
  <2>2. ASSUME Hear(m)
        PROVE  ChainInv'
    <3>1. UNCHANGED <<case, up, doc, running, buried, hd>>
      BY <2>2 DEF Hear
    <3>2. known' = [known EXCEPT ![m] = IF buried THEN 0 ELSE doc.instance]
      BY <2>2 DEF Hear
    <3>3. (Settled' <=> Settled) /\ (~Settled => ~buried) /\ Busy' = Busy
      BY <3>1 DEF Settled, Busy
    <3>4. known \in [Monitors -> Nat] /\ doc.instance >= 1 /\ doc.instance \in Nat
      BY DEF EndInv, WorldOK
    <3>5. ToSet(Brothers) \subseteq Monitors
      BY BrothersAssumption DEF ToSet
    <3>6. ~Settled => \A b \in ToSet(Brothers) : known'[b] # 0
      BY <3>2, <3>3, <3>4, <3>5 DEF ChainInv
    <3> QED BY <3>1, <3>3, <3>6 DEF ChainInv
  <2>3. ~MonitorCrash(m)
    BY DEF MonitorCrash, ChainInv
  <2> QED BY <1>0, <2>1, <2>2, <2>3, ChainTask, ChainAttempt
<1>2. CASE UNCHANGED deathVars
  BY <1>0, <1>2, ChainKeeps DEF deathVars
<1> QED BY <1>1, <1>2

(* One monitor resolves a death, and none is left with a task that nobody  *)
(* works on before the agent has been restarted or buried: for any number  *)
(* of monitors, when fewer crash, or are late, than a solver has time to   *)
(* ask again, and with none that crashes whenever solvers expire, the one  *)
(* who resolves the death included.                                        *)
THEOREM NoDeathForgotten == Mild => (DeathSpec => []DeathSafe)
<1> SUFFICES ASSUME Mild PROVE DeathSpec => []DeathSafe
  OBVIOUS
<1>0. Heard
  BY DEF Mild
<1> DEFINE I == EndInv /\ AheadInv /\ (CalmInv \/ ChainInv)
<1>1. DeathInit => I
  <2> SUFFICES ASSUME DeathInit PROVE I
    OBVIOUS
  <2>1. EndInv /\ AheadInv
    BY <1>0, DeathBegins, AheadBegins
  <2> QED BY <2>1, CalmBegins, ChainBegins
<1>2. I /\ [DeathNext]_deathVars => I'
  <2> SUFFICES ASSUME I, [DeathNext]_deathVars PROVE I'
    OBVIOUS
  <2>1. EndInv' /\ AheadInv' /\ OneResolver
    BY <1>0, DeathGoes, AheadGoes, ResolverAlone
  <2> QED BY <2>1, CalmGoes, ChainGoes
<1>3. I => DeathSafe
  BY <1>0, ResolverAlone, NobodyStranded, SomebodyWorks DEF DeathSafe
<1> QED BY <1>1, <1>2, <1>3, PTL DEF DeathSpec

-----------------------------------------------------------------------------
(* Sums over finite sets.  The induction is a set without smallest element. *)

(* The sum of f over a finite set is a fold, whose function satisfies:     *)
Folds(g, f, S) ==
  g = [s \in SUBSET S |-> IF s = {} THEN 0
                          ELSE LET x == CHOOSE x \in s : TRUE IN f[x] + g[s \ {x}]]

(* What holds of the empty set, and of a finite set when it holds of its   *)
(* strict subsets, holds of all finite sets.                               *)
LEMMA SmallestSet ==
  ASSUME NEW S, IsFiniteSet(S), NEW T \in SUBSET SUBSET S, T # {}
  PROVE  \E s \in T : \A r \in T : r \subseteq s => r = s
<1> DEFINE R == StrictSubsetOrdering(S)
<1>1. IsWellFoundedOn(R, SUBSET S)
  BY FS_StrictSubsetOrderingWellFounded, FS_FiniteSubsetsOfFinite
<1>2. \A r, s \in SUBSET S : r \subseteq s /\ r # s => <<r, s>> \in R
  BY DEF StrictSubsetOrdering
<1> HIDE DEF R
<1>3. PICK s \in T : \A r \in T : ~(<<r, s>> \in R)
  BY <1>1, WFMin
<1> QED BY <1>2, <1>3

LEMMA FoldsAgree ==
  ASSUME NEW f, NEW g, NEW S, Folds(g, f, S), NEW e, NEW h, NEW Q, Folds(h, e, Q),
         Q \subseteq S, IsFiniteSet(Q), \A x \in Q : f[x] = e[x]
  PROVE  \A s \in SUBSET Q : g[s] = h[s]
<1> DEFINE T == {s \in SUBSET Q : g[s] # h[s]}
<1> SUFFICES ASSUME T # {} PROVE FALSE OBVIOUS
<1>0. T \in SUBSET SUBSET Q OBVIOUS
<1>1. PICK s \in T : \A r \in T : r \subseteq s => r = s
  <2> HIDE DEF T
  <2> QED BY <1>0, SmallestSet
<1> DEFINE c == CHOOSE x \in s : TRUE
<1>2. s \in SUBSET Q /\ s \in SUBSET S /\ g[s] # h[s] OBVIOUS
<1>3. /\ g[s] = IF s = {} THEN 0 ELSE f[c] + g[s \ {c}]
      /\ h[s] = IF s = {} THEN 0 ELSE e[c] + h[s \ {c}]
  BY <1>2 DEF Folds
<1>4. s # {} BY <1>2, <1>3
<1>5. c \in s BY <1>4
<1>6. s \ {c} \notin T BY <1>1, <1>5
<1> QED BY <1>2, <1>3, <1>4, <1>5, <1>6

LEMMA FoldsExist ==
  ASSUME NEW f, NEW S, IsFiniteSet(S)
  PROVE  Folds(CHOOSE g : Folds(g, f, S), f, S)
<1> DEFINE T == {s \in SUBSET S : ~ \E g : Folds(g, f, s)}
<1> SUFFICES ASSUME T # {} PROVE FALSE OBVIOUS
<1>0. T \in SUBSET SUBSET S OBVIOUS
<1>1. PICK s \in T : \A r \in T : r \subseteq s => r = s
  <2> HIDE DEF T
  <2> QED BY <1>0, SmallestSet
<1> DEFINE G(r) == CHOOSE g : Folds(g, f, r)
           c == CHOOSE x \in s : TRUE
           all == IF s = {} THEN 0 ELSE f[c] + G(s \ {c})[s \ {c}]
           h == [r \in SUBSET s |-> IF r = s THEN all ELSE G(r)[r]]
           step(r) == IF r = {} THEN 0
                      ELSE LET x == CHOOSE x \in r : TRUE IN f[x] + h[r \ {x}]
<1>2. s \in SUBSET S /\ IsFiniteSet(s) BY FS_Subset
<1>3. \A r \in SUBSET s : r # s => Folds(G(r), f, r)
  <2>1. ASSUME NEW r \in SUBSET s, r # s PROVE \E g : Folds(g, f, r)
    BY <2>1, <1>1, <1>2
  <2> QED BY <2>1
<1>4. ASSUME NEW r \in SUBSET s, NEW x \in r PROVE h[r \ {x}] = G(r \ {x})[r \ {x}]
  BY <1>4
<1>5. ASSUME NEW r \in SUBSET s, r # s PROVE h[r] = step(r)
  <2>1. Folds(G(r), f, r) BY <1>3, <1>5
  <2>2. h[r] = G(r)[r] BY <1>5
  <2>3. CASE r = {} BY <2>1, <2>2, <2>3 DEF Folds
  <2>4. ASSUME r # {} PROVE h[r] = step(r)
    <3> DEFINE x == CHOOSE x \in r : TRUE
    <3>1. x \in r BY <2>4
    <3>2. G(r)[r] = f[x] + G(r)[r \ {x}] BY <2>1, <2>4 DEF Folds
    <3>3. r \ {x} \in SUBSET s /\ r \ {x} # s BY <3>1, <1>5
    <3>4. Folds(G(r \ {x}), f, r \ {x}) BY <1>3, <3>3
    <3>5. IsFiniteSet(r \ {x}) BY <1>2, FS_Subset
    <3>6. G(r)[r \ {x}] = G(r \ {x})[r \ {x}]
      <4> HIDE DEF G, x
      <4>1. \A q \in SUBSET (r \ {x}) : G(r)[q] = G(r \ {x})[q]
        BY <2>1, <3>4, <3>5, FoldsAgree
      <4> QED BY <4>1
    <3>7. h[r \ {x}] = G(r \ {x})[r \ {x}] BY <3>1, <1>4
    <3> HIDE DEF h, G
    <3> QED BY <2>2, <2>4, <3>2, <3>6, <3>7
  <2> QED BY <2>3, <2>4
<1>6. h[s] = step(s)
  <2>1. h[s] = all OBVIOUS
  <2>2. CASE s = {} BY <2>1, <2>2
  <2>3. ASSUME s # {} PROVE h[s] = step(s)
    <3>1. c \in s BY <2>3
    <3>2. h[s \ {c}] = G(s \ {c})[s \ {c}] BY <3>1, <1>4
    <3> HIDE DEF h, G
    <3> QED BY <2>1, <2>3, <3>2
  <2> QED BY <2>2, <2>3
<1>7. h = [r \in SUBSET s |-> step(r)]
  <2>1. ASSUME NEW r \in SUBSET s PROVE h[r] = step(r)
    <3>1. CASE r = s BY <3>1, <1>6
    <3>2. CASE r # s BY <3>2, <1>5
    <3> QED BY <3>1, <3>2
  <2>2. h = [r \in SUBSET s |-> h[r]] OBVIOUS
  <2> HIDE DEF h, step
  <2> QED BY <2>1, <2>2
<1>8. Folds(h, f, s)
  <2> HIDE DEF h
  <2> QED BY <1>7 DEF Folds
<1> HIDE DEF h
<1> QED BY <1>8, <1>1

LEMMA SumIsFold ==
  ASSUME NEW f, NEW S
  PROVE  SumFunctionOnSet(f, S) = (CHOOSE g : Folds(g, f, S))[S]
BY DEF Folds, SumFunctionOnSet, FoldFunctionOnSet, MapThenFoldSet

LEMMA SumStep ==
  ASSUME NEW f, NEW S, IsFiniteSet(S)
  PROVE  LET c == CHOOSE x \in S : TRUE
         IN  SumFunctionOnSet(f, S) = IF S = {} THEN 0 ELSE f[c] + SumFunctionOnSet(f, S \ {c})
<1> DEFINE c == CHOOSE x \in S : TRUE
           G(r) == CHOOSE g : Folds(g, f, r)
<1>1. IsFiniteSet(S \ {c}) BY FS_Subset
<1>2. Folds(G(S), f, S) /\ Folds(G(S \ {c}), f, S \ {c}) BY <1>1, FoldsExist
<1>3. G(S)[S] = IF S = {} THEN 0 ELSE f[c] + G(S)[S \ {c}]
  BY <1>2 DEF Folds
<1>4. SumFunctionOnSet(f, S) = G(S)[S] /\ SumFunctionOnSet(f, S \ {c}) = G(S \ {c})[S \ {c}]
  BY SumIsFold
<1> HIDE DEF G, c
<1>5. \A q \in SUBSET (S \ {c}) : G(S)[q] = G(S \ {c})[q]
  BY <1>1, <1>2, FoldsAgree
<1>6. SumFunctionOnSet(f, S) = IF S = {} THEN 0 ELSE f[c] + SumFunctionOnSet(f, S \ {c})
  BY <1>3, <1>4, <1>5
<1> QED BY <1>6 DEF c

(* Sums of numbers are numbers, and do not depend on the order.            *)
LEMMA SumType ==
  ASSUME NEW N, 0 \in N, \A m, n \in N : m + n \in N,
         NEW f, NEW S, IsFiniteSet(S), \A x \in S : f[x] \in N
  PROVE  \A s \in SUBSET S : SumFunctionOnSet(f, s) \in N
<1> DEFINE T == {s \in SUBSET S : SumFunctionOnSet(f, s) \notin N}
<1> SUFFICES ASSUME T # {} PROVE FALSE OBVIOUS
<1>0. T \in SUBSET SUBSET S OBVIOUS
<1>1. PICK s \in T : \A r \in T : r \subseteq s => r = s
  <2> HIDE DEF T
  <2> QED BY <1>0, SmallestSet
<1> DEFINE c == CHOOSE x \in s : TRUE
<1>2. IsFiniteSet(s) BY FS_Subset
<1>3. SumFunctionOnSet(f, s) = IF s = {} THEN 0 ELSE f[c] + SumFunctionOnSet(f, s \ {c})
  BY <1>2, SumStep
<1>4. s # {} BY <1>3
<1>5. c \in s BY <1>4
<1> HIDE DEF c
<1>6. s \ {c} \in SUBSET S /\ s \ {c} \notin T BY <1>1, <1>5
<1>7. f[c] \in N /\ SumFunctionOnSet(f, s \ {c}) \in N BY <1>5, <1>6
<1> QED BY <1>3, <1>4, <1>7

LEMMA SumAgree ==
  ASSUME NEW f, NEW g, NEW S, IsFiniteSet(S), \A x \in S : f[x] = g[x]
  PROVE  SumFunctionOnSet(f, S) = SumFunctionOnSet(g, S)
<1>1. Folds(CHOOSE h : Folds(h, f, S), f, S) /\ Folds(CHOOSE h : Folds(h, g, S), g, S)
  BY FoldsExist
<1> DEFINE F == CHOOSE h : Folds(h, f, S)
           G == CHOOSE h : Folds(h, g, S)
<1>2. SumFunctionOnSet(f, S) = F[S] /\ SumFunctionOnSet(g, S) = G[S] BY SumIsFold
<1> HIDE DEF F, G
<1>3. \A s \in SUBSET S : F[s] = G[s] BY <1>1, FoldsAgree DEF F, G
<1> QED BY <1>2, <1>3

LEMMA SumRemove ==
  ASSUME NEW f, NEW S, IsFiniteSet(S), \A x \in S : f[x] \in Int, NEW x \in S
  PROVE  SumFunctionOnSet(f, S) = f[x] + SumFunctionOnSet(f, S \ {x})
<1> DEFINE V(s) == SumFunctionOnSet(f, s)
           T == {s \in SUBSET S : \E y \in s : V(s) # f[y] + V(s \ {y})}
<1> SUFFICES ASSUME T # {} PROVE FALSE OBVIOUS
<1>0. T \in SUBSET SUBSET S OBVIOUS
<1>1. PICK s \in T : \A r \in T : r \subseteq s => r = s
  <2> HIDE DEF T
  <2> QED BY <1>0, SmallestSet
<1>2. PICK y \in s : V(s) # f[y] + V(s \ {y}) OBVIOUS
<1> DEFINE c == CHOOSE z \in s : TRUE
<1>3. s \in SUBSET S /\ c \in s OBVIOUS
<1>4. IsFiniteSet(s) /\ IsFiniteSet(s \ {y}) BY <1>3, FS_Subset
<1>5. V(s) = f[c] + V(s \ {c}) BY <1>3, <1>4, SumStep
<1>6. c # y BY <1>2, <1>5
<1> HIDE DEF c
<1>7. \A r \in SUBSET s : \A z \in r : r # s => V(r) = f[z] + V(r \ {z})
  BY <1>1, <1>3
<1> HIDE DEF T
<1>8. V(s \ {c}) = f[y] + V((s \ {c}) \ {y}) BY <1>3, <1>6, <1>7
<1>9. V(s \ {y}) = f[c] + V((s \ {y}) \ {c}) BY <1>2, <1>3, <1>6, <1>7
<1>10. (s \ {c}) \ {y} = (s \ {y}) \ {c} OBVIOUS
<1>11. V((s \ {c}) \ {y}) \in Int
  <2>1. 0 \in Int /\ \A m, n \in Int : m + n \in Int OBVIOUS
  <2> HIDE DEF c
  <2> QED BY <1>3, <2>1, SumType
<1>12. f[c] \in Int /\ f[y] \in Int BY <1>2, <1>3
<1> DEFINE rest == V((s \ {c}) \ {y})
<1>13. V(s \ {c}) = f[y] + rest /\ V(s \ {y}) = f[c] + rest /\ rest \in Int
  BY <1>8, <1>9, <1>10, <1>11
<1>14. f[c] + (f[y] + rest) = f[y] + (f[c] + rest)
  <2> HIDE DEF rest
  <2> QED BY <1>12, <1>13
<1> HIDE DEF rest, V
<1> QED BY <1>2, <1>5, <1>13, <1>14

LEMMA NatSet ==
  ASSUME NEW T \in SUBSET Nat, 0 \in T, \A n \in T : n + 1 \in T
  PROVE  T = Nat
<1> SUFFICES ASSUME T # Nat PROVE FALSE OBVIOUS
<1> DEFINE R == {ss \in Nat \X Nat : ss[1] < ss[2]}
<1>1. IsWellFoundedOn(R, Nat) BY NatLessThanWellFounded DEF OpToRel
<1>2. \A x, y \in Nat : <<x, y>> \in R <=> x < y OBVIOUS
<1> HIDE DEF R
<1>3. PICK x \in Nat \ T : \A y \in Nat \ T : <<y, x>> \notin R
  <2>1. Nat \ T \subseteq Nat /\ Nat \ T # {} OBVIOUS
  <2> QED BY <2>1, <1>1, WFMin
<1>4. x # 0 /\ x - 1 \in Nat /\ x - 1 < x OBVIOUS
<1>5. x - 1 \in T BY <1>2, <1>3, <1>4
<1> QED BY <1>3, <1>4, <1>5

(* A function that is changed at one argument. *)
At(f, x) == IF x \in DOMAIN f THEN f[x] ELSE 0

LEMMA SumNat ==
  ASSUME NEW f, NEW S, IsFiniteSet(S), \A x \in S : f[x] \in Nat
  PROVE  SumFunctionOnSet(f, S) \in Nat
<1>1. 0 \in Nat /\ \A m, n \in Nat : m + n \in Nat OBVIOUS
<1>2. S \in SUBSET S OBVIOUS
<1> QED BY ONLY <1>1, <1>2, SumType, IsFiniteSet(S), \A x \in S : f[x] \in Nat

LEMMA SumFunctionNat ==
  ASSUME NEW f, IsFiniteSet(DOMAIN f), \A x \in DOMAIN f : f[x] \in Nat
  PROVE  SumFunction(f) \in Nat
BY SumNat DEF SumFunction

LEMMA SumChange ==
  ASSUME NEW f, NEW g, NEW x, IsFiniteSet(DOMAIN f), IsFiniteSet(DOMAIN g),
         \A y \in DOMAIN f : f[y] \in Nat, \A y \in DOMAIN g : g[y] \in Nat,
         (DOMAIN f) \ {x} = (DOMAIN g) \ {x},
         \A y \in (DOMAIN f) \ {x} : f[y] = g[y]
  PROVE  SumFunction(g) + At(f, x) = SumFunction(f) + At(g, x)
<1> DEFINE D == (DOMAIN f) \ {x}
           E == (DOMAIN g) \ {x}
           rest == SumFunctionOnSet(f, D)
<1>1. IsFiniteSet(D) BY FS_Subset
<1>2. rest \in Nat BY <1>1, SumNat
<1>3. SumFunctionOnSet(g, E) = rest BY <1>1, SumAgree
<1>4. SumFunction(f) = At(f, x) + rest
  <2>1. CASE x \in DOMAIN f BY <2>1, SumRemove DEF SumFunction, At
  <2>2. CASE x \notin DOMAIN f
    <3>1. D = DOMAIN f BY <2>2
    <3>2. SumFunction(f) = rest BY <3>1 DEF SumFunction
    <3> HIDE DEF rest
    <3> QED BY <1>2, <2>2, <3>2 DEF At
  <2> QED BY <2>1, <2>2
<1>5. SumFunction(g) = At(g, x) + rest
  <2>1. CASE x \in DOMAIN g
    <3>1. SumFunctionOnSet(g, DOMAIN g) = g[x] + SumFunctionOnSet(g, E) BY <2>1, SumRemove
    <3> QED BY <1>3, <2>1, <3>1 DEF SumFunction, At
  <2>2. CASE x \notin DOMAIN g
    <3>1. E = DOMAIN g BY <2>2
    <3>2. SumFunction(g) = rest BY <1>3, <3>1 DEF SumFunction
    <3> HIDE DEF rest
    <3> QED BY <1>2, <2>2, <3>2 DEF At
  <2> QED BY <2>1, <2>2
<1>6. At(f, x) \in Nat /\ At(g, x) \in Nat BY DEF At
<1> HIDE DEF rest
<1> QED BY <1>2, <1>4, <1>5, <1>6

(* A sum over a sequence can be taken from its first element on. *)
Weights(n) == [1..n -> Nat]
Shifted(f, n) == [k \in 1..n |-> f[k + 1]]

LEMMA SumShift ==
  \A n \in Nat : \A f \in Weights(n + 1) : SumFunction(f) = f[1] + SumFunction(Shifted(f, n))
<1> DEFINE T == {n \in Nat : \A f \in Weights(n + 1) :
                   SumFunction(f) = f[1] + SumFunction(Shifted(f, n))}
<1>1. 0 \in T
  <2> SUFFICES ASSUME NEW f \in Weights(1)
               PROVE  SumFunction(f) = f[1] + SumFunction(Shifted(f, 0))
    OBVIOUS
  <2> DEFINE g == Shifted(f, 0)
  <2>1. DOMAIN f = {1} /\ f[1] \in Nat BY DEF Weights
  <2>2. DOMAIN g = {} BY DEF Shifted
  <2>3. IsFiniteSet({1}) /\ IsFiniteSet({}) BY FS_EmptySet, FS_Singleton
  <2>4. SumFunction(g) = 0
    <3>1. SumFunctionOnSet(g, {}) = 0 BY <2>3, SumStep
    <3> QED BY <2>2, <3>1 DEF SumFunction
  <2> HIDE DEF g
  <2>5. SumFunction(g) + At(f, 1) = SumFunction(f) + At(g, 1)
    BY <2>1, <2>2, <2>3, SumChange
  <2>6. At(f, 1) = f[1] /\ At(g, 1) = 0 BY <2>1, <2>2 DEF At
  <2>7. SumFunction(f) \in Nat BY <2>1, <2>3, SumFunctionNat
  <2> QED BY <2>1, <2>4, <2>5, <2>6, <2>7 DEF g
<1>2. ASSUME NEW n \in T PROVE n + 1 \in T
  <2> SUFFICES ASSUME NEW f \in Weights(n + 2)
               PROVE  SumFunction(f) = f[1] + SumFunction(Shifted(f, n + 1))
    OBVIOUS
  <2> DEFINE f0 == [k \in 1..(n + 1) |-> f[k]]
             g == Shifted(f, n + 1)
             g0 == Shifted(f0, n)
  <2>1. n \in Nat /\ f0 \in Weights(n + 1) /\ f0[1] = f[1] /\ f[1] \in Nat BY DEF Weights
  <2>2. SumFunction(f0) = f0[1] + SumFunction(g0) BY <2>1
  <2>3. /\ DOMAIN f = 1..(n + 2) /\ DOMAIN f0 = 1..(n + 1)
        /\ DOMAIN g = 1..(n + 1) /\ DOMAIN g0 = 1..n
    BY <2>1 DEF Weights, Shifted
  <2>4. /\ \A k \in 1..(n + 2) : f[k] \in Nat
        /\ \A k \in 1..(n + 1) : f0[k] = f[k] /\ g[k] = f[k + 1]
        /\ \A k \in 1..n : g0[k] = f[k + 1]
    BY <2>1 DEF Weights, Shifted
  <2> HIDE DEF f0, g, g0
  <2>5. /\ IsFiniteSet(1..(n + 2)) /\ IsFiniteSet(1..(n + 1)) /\ IsFiniteSet(1..n)
    BY <2>1, FS_Interval
  <2>6. \A k \in 1..(n + 1) : f0[k] \in Nat /\ g[k] \in Nat
    BY <2>1, <2>4
  <2>7. \A k \in 1..n : g0[k] \in Nat BY <2>1, <2>4
  <2>8. SumFunction(f) + At(f0, n + 2) = SumFunction(f0) + At(f, n + 2)
    <3>1. (1..(n + 2)) \ {n + 2} = (1..(n + 1)) \ {n + 2} BY <2>1
    <3>2. (DOMAIN f0) \ {n + 2} = (DOMAIN f) \ {n + 2} BY <2>3, <3>1
    <3>3. \A k \in (DOMAIN f0) \ {n + 2} : f0[k] = f[k] BY <2>3, <2>4
    <3>4. IsFiniteSet(DOMAIN f0) /\ IsFiniteSet(DOMAIN f) BY <2>3, <2>5
    <3>5. \A k \in DOMAIN f0 : f0[k] \in Nat BY <2>3, <2>6
    <3>6. \A k \in DOMAIN f : f[k] \in Nat BY <2>3, <2>4
    <3> QED BY <3>2, <3>3, <3>4, <3>5, <3>6, SumChange
  <2>9. SumFunction(g) + At(g0, n + 1) = SumFunction(g0) + At(g, n + 1)
    <3>1. (1..(n + 1)) \ {n + 1} = (1..n) \ {n + 1} BY <2>1
    <3>2. \A k \in (1..n) \ {n + 1} : g0[k] = g[k] BY <2>1, <2>4
    <3> QED BY <2>3, <2>5, <2>6, <2>7, <3>1, <3>2, SumChange
  <2>10. /\ At(f0, n + 2) = 0 /\ At(f, n + 2) = f[n + 2]
         /\ At(g0, n + 1) = 0 /\ At(g, n + 1) = f[n + 2]
    <3>1. n + 2 \notin 1..(n + 1) /\ n + 2 \in 1..(n + 2) /\ n + 1 \notin 1..n
          /\ n + 1 \in 1..(n + 1) /\ (n + 1) + 1 = n + 2
      BY <2>1
    <3> QED BY <2>3, <2>4, <3>1 DEF At
  <2>11. /\ SumFunction(f) \in Nat /\ SumFunction(f0) \in Nat
         /\ SumFunction(g) \in Nat /\ SumFunction(g0) \in Nat
    BY <2>3, <2>4, <2>5, <2>6, <2>7, SumFunctionNat
  <2>12. f[n + 2] \in Nat BY <2>1, <2>4
  <2> QED BY <2>1, <2>2, <2>8, <2>9, <2>10, <2>11, <2>12 DEF g
<1>3. T \in SUBSET Nat OBVIOUS
<1>4. T = Nat
  <2> HIDE DEF T
  <2> QED BY <1>1, <1>2, <1>3, NatSet
<1> QED BY <1>4

-----------------------------------------------------------------------------
(* Resources                                                               *)

Alloc == [kind : {"alloc"}, serial : Nat, a : Nat, ports : SUBSET Ports]
Change == [kind : {"change"}, of : Ids, a : Int, ports : SUBSET Signed]
Item ==
  [op : {"append"}, id : Ids, by : Alloc] \cup [op : {"apply"}, id : Ids, by : Change]
    \cup [op : {"remove"}, id : Ids]
ConfOK(c) == c \in [Ids -> Alloc \cup {None}]
ModsOK(m) == m \in [Ids -> Alloc \cup Change \cup {None}]

Allotted(c) == SumFunction([i \in {j \in Ids : c[j] # None} |-> c[i].a])
Pledged(m) == SumFunction([i \in {j \in Ids : m[j] # None} |-> Positive(m[i].a)])

(* No two allocations, promises and updates take the same port but in x.   *)
Apart(c, m, q, x) ==
  /\ \A i, j \in Ids :
       /\ i # j => Wants(c[i]) \cap Wants(c[j]) \subseteq x
       /\ i # j => Wants(m[i]) \cap Wants(m[j]) \subseteq x
       /\ Wants(c[i]) \cap Wants(m[j]) \subseteq x
  /\ \A k \in 1..Len(q) :
       /\ \A i \in Ids : Wants(Owes(q[k])) \cap (Wants(c[i]) \cup Wants(m[i])) \subseteq x
       /\ \A l \in 1..Len(q) : k # l => Wants(Owes(q[k])) \cap Wants(Owes(q[l])) \subseteq x

Enough(c, m, q, e) == Allotted(c) + Pledged(m) + Owed(q) <= Total + e

ResInv ==
  /\ ConfOK(conf) /\ ModsOK(mods) /\ queue \in Seq(Item) /\ nextId \in Nat /\ made \in Nat
  /\ unseen \in Nat
  /\ Apart(conf, mods, queue, unseenPorts) /\ Enough(conf, mods, queue, unseen)

(* The history of a step that grants nothing, or something, or a restart.  *)
Marks == unseen' \in Nat /\ unseen <= unseen' /\ unseenPorts \subseteq unseenPorts'

LEMMA WorthNat ==
  ASSUME NEW r \in Alloc \cup Change \cup {None}
  PROVE  Worth(r) \in Nat /\ (r \in Alloc => Worth(r) = r.a /\ Wants(r) = r.ports)
<1>1. CASE r = None
  <2>1. None \notin Alloc BY DEF None, Alloc
  <2> QED BY <1>1, <2>1 DEF Worth
<1>2. ASSUME r # None PROVE Worth(r) \in Nat
  <2>1. r.a \in Int BY <1>2 DEF Alloc, Change
  <2> QED BY <1>2, <2>1 DEF Worth, Positive
<1>3. ASSUME r \in Alloc PROVE r # None /\ Worth(r) = r.a /\ Wants(r) = r.ports
  <2>1. r # None BY <1>3 DEF None, Alloc
  <2>2. r.a \in Nat /\ r.ports \subseteq Ports BY <1>3 DEF Alloc
  <2> QED BY <2>1, <2>2 DEF Worth, Wants, Positive
<1> QED BY <1>1, <1>2, <1>3

LEMMA OwesType ==
  ASSUME NEW u \in Item
  PROVE  Owes(u) \in Alloc \cup Change \cup {None}
BY DEF Item, Owes

LEMMA IdsFinite == \A S \in SUBSET Ids : IsFiniteSet(S)
<1>1. IsFiniteSet(1..MaxMade) BY ResourceBoundsAssumption, FS_Interval
<1> QED BY <1>1, FS_Subset DEF Ids

LEMMA AllottedChange ==
  ASSUME NEW c, ConfOK(c), NEW i \in Ids, NEW v \in Alloc \cup {None}
  PROVE  /\ Allotted(c) \in Nat /\ ConfOK([c EXCEPT ![i] = v])
         /\ Allotted([c EXCEPT ![i] = v]) + Worth(c[i]) = Allotted(c) + Worth(v)
<1> DEFINE d == [c EXCEPT ![i] = v]
           f == [k \in {j \in Ids : c[j] # None} |-> c[k].a]
           g == [k \in {j \in Ids : d[j] # None} |-> d[k].a]
<1>1. /\ c \in [Ids -> Alloc \cup {None}] /\ d \in [Ids -> Alloc \cup {None}]
      /\ d[i] = v /\ \A j \in Ids \ {i} : d[j] = c[j]
  BY DEF ConfOK
<1> HIDE DEF d
<1>2. /\ \A k \in DOMAIN f : f[k] \in Nat /\ f[k] = c[k].a
      /\ \A k \in DOMAIN g : g[k] \in Nat /\ g[k] = d[k].a
  BY <1>1 DEF Alloc
<1>3. IsFiniteSet(DOMAIN f) /\ IsFiniteSet(DOMAIN g) BY IdsFinite
<1>4. /\ (DOMAIN f) \ {i} = (DOMAIN g) \ {i}
      /\ \A k \in (DOMAIN f) \ {i} : f[k] = g[k]
  BY <1>1
<1>5. At(f, i) = Worth(c[i]) /\ At(g, i) = Worth(v)
  <2>1. i \in DOMAIN f <=> c[i] # None OBVIOUS
  <2>2. i \in DOMAIN g <=> v # None BY <1>1
  <2>3. c[i] # None => Worth(c[i]) = c[i].a BY <1>1, WorthNat
  <2>4. v # None => Worth(v) = v.a BY WorthNat
  <2>5. c[i] = None => Worth(c[i]) = 0 BY DEF Worth
  <2>6. v = None => Worth(v) = 0 BY DEF Worth
  <2> HIDE DEF f, g
  <2> QED BY <1>1, <1>2, <2>1, <2>2, <2>3, <2>4, <2>5, <2>6 DEF At
<1>6. Allotted(c) = SumFunction(f) /\ Allotted(d) = SumFunction(g) BY DEF Allotted
<1> HIDE DEF f, g
<1>7. SumFunction(g) + At(f, i) = SumFunction(f) + At(g, i)
  BY <1>2, <1>3, <1>4, SumChange
<1>8. SumFunction(f) \in Nat BY <1>2, <1>3, SumFunctionNat
<1> QED BY <1>1, <1>5, <1>6, <1>7, <1>8 DEF d, ConfOK

LEMMA PledgedChange ==
  ASSUME NEW m, ModsOK(m), NEW i \in Ids, NEW v \in Alloc \cup Change \cup {None}
  PROVE  /\ Pledged(m) \in Nat /\ ModsOK([m EXCEPT ![i] = v])
         /\ Pledged([m EXCEPT ![i] = v]) + Worth(m[i]) = Pledged(m) + Worth(v)
<1> DEFINE d == [m EXCEPT ![i] = v]
           f == [k \in {j \in Ids : m[j] # None} |-> Positive(m[k].a)]
           g == [k \in {j \in Ids : d[j] # None} |-> Positive(d[k].a)]
<1>1. /\ m \in [Ids -> Alloc \cup Change \cup {None}] /\ d \in [Ids -> Alloc \cup Change \cup {None}]
      /\ d[i] = v /\ \A j \in Ids \ {i} : d[j] = m[j]
  BY DEF ModsOK
<1> HIDE DEF d
<1>2. /\ \A k \in DOMAIN f : f[k] = Worth(m[k]) /\ f[k] \in Nat
      /\ \A k \in DOMAIN g : g[k] = Worth(d[k]) /\ g[k] \in Nat
  <2>1. \A k \in Ids : Worth(m[k]) \in Nat /\ Worth(d[k]) \in Nat BY <1>1, WorthNat
  <2> QED BY <2>1 DEF Worth
<1>3. IsFiniteSet(DOMAIN f) /\ IsFiniteSet(DOMAIN g) BY IdsFinite
<1>4. /\ (DOMAIN f) \ {i} = (DOMAIN g) \ {i}
      /\ \A k \in (DOMAIN f) \ {i} : f[k] = g[k]
  BY <1>1
<1>5. At(f, i) = Worth(m[i]) /\ At(g, i) = Worth(v)
  <2>1. i \in DOMAIN f <=> m[i] # None OBVIOUS
  <2>2. i \in DOMAIN g <=> v # None BY <1>1
  <2>5. m[i] = None => Worth(m[i]) = 0 BY DEF Worth
  <2>6. v = None => Worth(v) = 0 BY DEF Worth
  <2> HIDE DEF f, g
  <2> QED BY <1>1, <1>2, <2>1, <2>2, <2>5, <2>6 DEF At
<1>6. Pledged(m) = SumFunction(f) /\ Pledged(d) = SumFunction(g) BY DEF Pledged
<1> HIDE DEF f, g
<1>7. SumFunction(g) + At(f, i) = SumFunction(f) + At(g, i)
  BY <1>2, <1>3, <1>4, SumChange
<1>8. SumFunction(f) \in Nat BY <1>2, <1>3, SumFunctionNat
<1> QED BY <1>1, <1>5, <1>6, <1>7, <1>8 DEF d, ModsOK

LEMMA OwedNat ==
  ASSUME NEW q \in Seq(Item)
  PROVE  /\ Owed(q) \in Nat
         /\ [k \in 1..Len(q) |-> Worth(Owes(q[k]))] \in Weights(Len(q))
<1> DEFINE f == [k \in 1..Len(q) |-> Worth(Owes(q[k]))]
<1>1. \A k \in 1..Len(q) : f[k] \in Nat
  <2>1. \A k \in 1..Len(q) : q[k] \in Item OBVIOUS
  <2> QED BY <2>1, OwesType, WorthNat
<1>2. DOMAIN f = 1..Len(q) /\ IsFiniteSet(1..Len(q)) BY FS_Interval
<1>3. Owed(q) = SumFunction(f) BY DEF Owed
<1>4. f \in Weights(Len(q)) BY <1>1 DEF Weights
<1>5. IsFiniteSet(DOMAIN f) /\ \A k \in DOMAIN f : f[k] \in Nat BY <1>1, <1>2
<1> HIDE DEF f
<1>6. SumFunction(f) \in Nat BY <1>5, SumFunctionNat
<1> QED BY <1>3, <1>4, <1>6 DEF f

LEMMA OwedAppend ==
  ASSUME NEW q \in Seq(Item), NEW u \in Item
  PROVE  Owed(Append(q, u)) = Owed(q) + Worth(Owes(u))
<1> DEFINE n == Len(q)
           p == Append(q, u)
           f == [k \in 1..Len(q) |-> Worth(Owes(q[k]))]
           g == [k \in 1..Len(p) |-> Worth(Owes(p[k]))]
<1>1. /\ p \in Seq(Item) /\ Len(p) = n + 1 /\ n \in Nat /\ p[n + 1] = u
      /\ \A k \in 1..n : p[k] = q[k]
  OBVIOUS
<1> HIDE DEF p
<1>2. f \in Weights(n) /\ g \in Weights(n + 1) BY <1>1, OwedNat
<1>3. DOMAIN f = 1..n /\ DOMAIN g = 1..(n + 1) BY <1>1
<1>4. g[n + 1] = Worth(Owes(u)) /\ \A k \in 1..n : f[k] = g[k] BY <1>1
<1>5. Owed(q) = SumFunction(f) /\ Owed(p) = SumFunction(g) BY DEF Owed
<1> HIDE DEF f, g, n
<1>6. /\ \A k \in DOMAIN f : f[k] \in Nat
      /\ \A k \in DOMAIN g : g[k] \in Nat
  BY <1>2, <1>3 DEF Weights
<1>7. /\ (DOMAIN f) \ {n + 1} = (DOMAIN g) \ {n + 1}
      /\ \A k \in (DOMAIN f) \ {n + 1} : f[k] = g[k]
  <2>1. (1..n) \ {n + 1} = (1..(n + 1)) \ {n + 1} BY <1>1
  <2> QED BY <1>3, <1>4, <2>1
<1>8. IsFiniteSet(DOMAIN f) /\ IsFiniteSet(DOMAIN g)
  <2>1. n \in Int /\ n + 1 \in Int /\ 1 \in Int BY <1>1
  <2>2. IsFiniteSet(1..n) /\ IsFiniteSet(1..(n + 1)) BY <2>1, FS_Interval
  <2> QED BY ONLY <1>3, <2>2
<1>9. SumFunction(g) + At(f, n + 1) = SumFunction(f) + At(g, n + 1)
  BY <1>6, <1>7, <1>8, SumChange
<1>10. At(f, n + 1) = 0 /\ At(g, n + 1) = Worth(Owes(u))
  BY <1>1, <1>3, <1>4 DEF At
<1>11. SumFunction(f) \in Nat /\ SumFunction(g) \in Nat
  BY <1>6, <1>8, SumFunctionNat
<1> QED BY <1>5, <1>9, <1>10, <1>11 DEF p

LEMMA OwedTail ==
  ASSUME NEW q \in Seq(Item), q # <<>>
  PROVE  /\ Tail(q) \in Seq(Item) /\ Head(q) \in Item
         /\ Owed(q) = Worth(Owes(Head(q))) + Owed(Tail(q))
<1> DEFINE n == Len(q) - 1
           t == Tail(q)
           f == [k \in 1..Len(q) |-> Worth(Owes(q[k]))]
           g == [k \in 1..Len(t) |-> Worth(Owes(t[k]))]
<1>1. /\ t \in Seq(Item) /\ n \in Nat /\ Len(q) = n + 1 /\ Len(t) = n
      /\ \A k \in 1..n : t[k] = q[k + 1]
  OBVIOUS
<1>2. Head(q) = q[1] /\ q[1] \in Item OBVIOUS
<1> HIDE DEF t
<1>3. f \in Weights(n + 1) BY <1>1, OwedNat
<1>4. g = Shifted(f, n)
  <2>1. \A k \in 1..n : k + 1 \in 1..(n + 1) BY <1>1
  <2>2. \A k \in 1..n : g[k] = f[k + 1] BY <1>1, <2>1
  <2> QED BY <1>1, <2>2 DEF Shifted
<1>5. Owed(q) = SumFunction(f) /\ Owed(t) = SumFunction(g) BY DEF Owed
<1>6. f[1] = Worth(Owes(q[1])) BY <1>1
<1> HIDE DEF f, g, n
<1>7. SumFunction(f) = f[1] + SumFunction(Shifted(f, n)) BY <1>1, <1>3, SumShift
<1> QED BY <1>1, <1>2, <1>4, <1>5, <1>6, <1>7 DEF t

LEMMA OwedEmpty == Owed(<<>>) = 0
<1> DEFINE f == [k \in 1..Len(<<>>) |-> Worth(Owes(<<>>[k]))]
<1>1. DOMAIN f = {} OBVIOUS
<1>2. Owed(<<>>) = SumFunction(f) BY DEF Owed
<1> HIDE DEF f
<1>3. SumFunctionOnSet(f, {}) = 0 BY FS_EmptySet, SumStep
<1> QED BY <1>1, <1>2, <1>3 DEF SumFunction

LEMMA ApartConf ==
  ASSUME NEW x, NEW c, NEW m, NEW q, Apart(c, m, q, x), NEW i \in Ids, NEW v, c \in [Ids -> Alloc \cup {None}],
         \A j \in Ids \ {i} : Wants(v) \cap Wants(c[j]) \subseteq x,
         \A j \in Ids : Wants(v) \cap Wants(m[j]) \subseteq x,
         \A k \in 1..Len(q) : Wants(v) \cap Wants(Owes(q[k])) \subseteq x
  PROVE  Apart([c EXCEPT ![i] = v], m, q, x)
<1> DEFINE d == [c EXCEPT ![i] = v]
<1>1. d[i] = v /\ \A j \in Ids \ {i} : d[j] = c[j] OBVIOUS
<1> HIDE DEF d
<1>2. ASSUME NEW j \in Ids, NEW k \in Ids
      PROVE  /\ j # k => Wants(d[j]) \cap Wants(d[k]) \subseteq x
             /\ j # k => Wants(m[j]) \cap Wants(m[k]) \subseteq x
             /\ Wants(d[j]) \cap Wants(m[k]) \subseteq x
  <2>1. /\ j # k => Wants(c[j]) \cap Wants(c[k]) \subseteq x
        /\ j # k => Wants(m[j]) \cap Wants(m[k]) \subseteq x
        /\ Wants(c[j]) \cap Wants(m[k]) \subseteq x
    BY DEF Apart
  <2>2. CASE j = i BY <1>1, <2>1, <2>2
  <2>3. CASE j # i /\ k = i BY <1>1, <2>1, <2>3
  <2>4. CASE j # i /\ k # i BY <1>1, <2>1, <2>4
  <2> QED BY <2>2, <2>3, <2>4
<1>3. ASSUME NEW k \in 1..Len(q), NEW j \in Ids
      PROVE  Wants(Owes(q[k])) \cap (Wants(d[j]) \cup Wants(m[j])) \subseteq x
  <2>1. Wants(Owes(q[k])) \cap (Wants(c[j]) \cup Wants(m[j])) \subseteq x BY DEF Apart
  <2>2. Wants(v) \cap Wants(Owes(q[k])) \subseteq x OBVIOUS
  <2> QED BY <1>1, <2>1, <2>2
<1>4. \A k, l \in 1..Len(q) : k # l => Wants(Owes(q[k])) \cap Wants(Owes(q[l])) \subseteq x
  BY DEF Apart
<1>5. Apart(d, m, q, x) BY <1>2, <1>3, <1>4 DEF Apart
<1> QED BY <1>5 DEF d

LEMMA ApartMods ==
  ASSUME NEW x, NEW c, NEW m, NEW q, Apart(c, m, q, x), NEW i \in Ids, NEW v,
         m \in [Ids -> Alloc \cup Change \cup {None}],
         \A j \in Ids \ {i} : Wants(v) \cap Wants(m[j]) \subseteq x,
         \A j \in Ids : Wants(v) \cap Wants(c[j]) \subseteq x,
         \A k \in 1..Len(q) : Wants(v) \cap Wants(Owes(q[k])) \subseteq x
  PROVE  Apart(c, [m EXCEPT ![i] = v], q, x)
<1> DEFINE d == [m EXCEPT ![i] = v]
<1>1. d[i] = v /\ \A j \in Ids \ {i} : d[j] = m[j] OBVIOUS
<1> HIDE DEF d
<1>2. ASSUME NEW j \in Ids, NEW k \in Ids
      PROVE  /\ j # k => Wants(c[j]) \cap Wants(c[k]) \subseteq x
             /\ j # k => Wants(d[j]) \cap Wants(d[k]) \subseteq x
             /\ Wants(c[j]) \cap Wants(d[k]) \subseteq x
  <2>1. /\ j # k => Wants(c[j]) \cap Wants(c[k]) \subseteq x
        /\ j # k => Wants(m[j]) \cap Wants(m[k]) \subseteq x
        /\ Wants(c[j]) \cap Wants(m[k]) \subseteq x
    BY DEF Apart
  <2>2. CASE k = i BY <1>1, <2>1, <2>2
  <2>3. CASE k # i /\ j = i BY <1>1, <2>1, <2>3
  <2>4. CASE j # i /\ k # i BY <1>1, <2>1, <2>4
  <2> QED BY <2>2, <2>3, <2>4
<1>3. ASSUME NEW k \in 1..Len(q), NEW j \in Ids
      PROVE  Wants(Owes(q[k])) \cap (Wants(c[j]) \cup Wants(d[j])) \subseteq x
  <2>1. Wants(Owes(q[k])) \cap (Wants(c[j]) \cup Wants(m[j])) \subseteq x BY DEF Apart
  <2>2. Wants(v) \cap Wants(Owes(q[k])) \subseteq x OBVIOUS
  <2> QED BY <1>1, <2>1, <2>2
<1>4. \A k, l \in 1..Len(q) : k # l => Wants(Owes(q[k])) \cap Wants(Owes(q[l])) \subseteq x
  BY DEF Apart
<1>5. Apart(c, d, q, x) BY <1>2, <1>3, <1>4 DEF Apart
<1> QED BY <1>5 DEF d

LEMMA ApartAppend ==
  ASSUME NEW x, NEW c, NEW m, NEW q \in Seq(Item), Apart(c, m, q, x), NEW u \in Item,
         \A j \in Ids : Wants(Owes(u)) \cap (Wants(c[j]) \cup Wants(m[j])) \subseteq x,
         \A k \in 1..Len(q) : Wants(Owes(u)) \cap Wants(Owes(q[k])) \subseteq x
  PROVE  Apart(c, m, Append(q, u), x)
<1> DEFINE p == Append(q, u)
           n == Len(q)
<1>1. /\ n \in Nat /\ Len(p) = n + 1 /\ p[n + 1] = u
      /\ \A k \in 1..n : p[k] = q[k]
  OBVIOUS
<1> HIDE DEF p
<1>2. \A k \in 1..(n + 1) : k = n + 1 \/ k \in 1..n BY <1>1
<1>3. ASSUME NEW k \in 1..(n + 1), NEW j \in Ids
      PROVE  Wants(Owes(p[k])) \cap (Wants(c[j]) \cup Wants(m[j])) \subseteq x
  <2>1. CASE k = n + 1 BY <1>1, <2>1
  <2>2. CASE k \in 1..n BY <1>1, <2>2 DEF Apart
  <2> QED BY <1>2, <2>1, <2>2
<1>4. ASSUME NEW k \in 1..(n + 1), NEW l \in 1..(n + 1), k # l
      PROVE  Wants(Owes(p[k])) \cap Wants(Owes(p[l])) \subseteq x
  <2>1. CASE k = n + 1 /\ l \in 1..n BY <1>1, <2>1
  <2>2. CASE k \in 1..n /\ l = n + 1
    <3>1. Wants(Owes(u)) \cap Wants(Owes(q[k])) \subseteq x BY <2>2
    <3> QED BY <1>1, <2>2, <3>1
  <2>3. CASE k \in 1..n /\ l \in 1..n BY <1>1, <1>4, <2>3 DEF Apart
  <2> QED BY <1>2, <1>4, <2>1, <2>2, <2>3
<1>5. \A i, j \in Ids :
        /\ i # j => Wants(c[i]) \cap Wants(c[j]) \subseteq x
        /\ i # j => Wants(m[i]) \cap Wants(m[j]) \subseteq x
        /\ Wants(c[i]) \cap Wants(m[j]) \subseteq x
  BY DEF Apart
<1>6. Apart(c, m, p, x) BY <1>1, <1>3, <1>4, <1>5 DEF Apart
<1> QED BY <1>6 DEF p

LEMMA ApartTail ==
  ASSUME NEW x, NEW c, NEW m, NEW q \in Seq(Item), Apart(c, m, q, x), q # <<>>
  PROVE  /\ Apart(c, m, Tail(q), x)
         /\ \A j \in Ids : Wants(Owes(Head(q))) \cap (Wants(c[j]) \cup Wants(m[j])) \subseteq x
         /\ \A k \in 1..Len(Tail(q)) : Wants(Owes(Head(q))) \cap Wants(Owes(Tail(q)[k])) \subseteq x
<1> DEFINE t == Tail(q)
           n == Len(t)
<1>1. /\ n \in Nat /\ Len(q) = n + 1 /\ Head(q) = q[1]
      /\ \A k \in 1..n : t[k] = q[k + 1]
  OBVIOUS
<1> HIDE DEF t
<1>2. /\ 1 \in 1..(n + 1) /\ \A k \in 1..n : k + 1 \in 1..(n + 1) /\ k + 1 # 1
      /\ \A k, l \in 1..n : k # l => k + 1 # l + 1
  BY <1>1
<1>3. ASSUME NEW k \in 1..n, NEW j \in Ids
      PROVE  Wants(Owes(t[k])) \cap (Wants(c[j]) \cup Wants(m[j])) \subseteq x
  BY <1>1, <1>2 DEF Apart
<1>4. ASSUME NEW k \in 1..n, NEW l \in 1..n, k # l
      PROVE  Wants(Owes(t[k])) \cap Wants(Owes(t[l])) \subseteq x
  BY <1>1, <1>2, <1>4 DEF Apart
<1>5. \A i, j \in Ids :
        /\ i # j => Wants(c[i]) \cap Wants(c[j]) \subseteq x
        /\ i # j => Wants(m[i]) \cap Wants(m[j]) \subseteq x
        /\ Wants(c[i]) \cap Wants(m[j]) \subseteq x
  BY DEF Apart
<1>6. Apart(c, m, t, x) BY <1>3, <1>4, <1>5 DEF Apart
<1>7. \A j \in Ids : Wants(Owes(q[1])) \cap (Wants(c[j]) \cup Wants(m[j])) \subseteq x
  BY <1>1, <1>2 DEF Apart
<1>8. \A k \in 1..n : Wants(Owes(q[1])) \cap Wants(Owes(t[k])) \subseteq x
  BY <1>1, <1>2 DEF Apart
<1> QED BY <1>1, <1>6, <1>7, <1>8 DEF t

LEMMA ApartEmpty ==
  ASSUME NEW x, NEW c, NEW m, NEW q, Apart(c, m, q, x)
  PROVE  Apart(c, m, <<>>, x)
<1>1. 1..Len(<<>>) = {} OBVIOUS
<1>2. \A i, j \in Ids :
        /\ i # j => Wants(c[i]) \cap Wants(c[j]) \subseteq x
        /\ i # j => Wants(m[i]) \cap Wants(m[j]) \subseteq x
        /\ Wants(c[i]) \cap Wants(m[j]) \subseteq x
  BY DEF Apart
<1> QED BY ONLY <1>1, <1>2 DEF Apart

LEMMA ApartMore ==
  ASSUME NEW x, NEW y, x \subseteq y, NEW c, NEW m, NEW q, Apart(c, m, q, x)
  PROVE  Apart(c, m, q, y)
BY DEF Apart

(* A promise is made or forgotten. *)
LEMMA ModsStep ==
  ASSUME ResInv, NEW i \in Ids, NEW v \in Alloc \cup Change \cup {None},
         mods' = [mods EXCEPT ![i] = v], conf' = conf, queue' = queue,
         nextId' \in Nat, made' \in Nat, Marks,
         \A j \in Ids \ {i} : Wants(v) \cap Wants(mods[j]) = {},
         \A j \in Ids : Wants(v) \cap Wants(conf[j]) = {},
         \A k \in 1..Len(queue) : Wants(v) \cap Wants(Owes(queue[k])) \subseteq unseenPorts',
         Worth(v) = 0 \/ Allotted(conf) + Pledged(mods) + Owed(queue) + Worth(v) <= Total + unseen'
  PROVE  ResInv'
<1>1. ConfOK(conf) /\ ModsOK(mods) /\ queue \in Seq(Item) BY DEF ResInv
<1>2. /\ Pledged(mods) \in Nat /\ ModsOK(mods')
      /\ Pledged(mods') + Worth(mods[i]) = Pledged(mods) + Worth(v)
  BY <1>1, PledgedChange
<1>3. Worth(mods[i]) \in Nat /\ Worth(v) \in Nat
  <2>1. mods[i] \in Alloc \cup Change \cup {None} BY <1>1 DEF ModsOK
  <2> QED BY <2>1, WorthNat
<1>4. Apart(conf, mods', queue, unseenPorts')
  <2>1. /\ Apart(conf, mods, queue, unseenPorts) /\ unseenPorts \subseteq unseenPorts'
        /\ mods \in [Ids -> Alloc \cup Change \cup {None}]
    BY <1>1 DEF ResInv, ModsOK, Marks
  <2>2. Apart(conf, mods, queue, unseenPorts')
    BY <2>1, ApartMore
  <2> QED BY <2>1, <2>2, ApartMods
<1>5. Allotted(conf) \in Nat
  <2>1. None \in Alloc \cup {None} OBVIOUS
  <2> QED BY <1>1, <2>1, AllottedChange
<1>6. Owed(queue) \in Nat BY <1>1, OwedNat
<1>7. Pledged(mods') \in Nat
  <2>1. None \in Alloc \cup Change \cup {None} OBVIOUS
  <2> QED BY <1>2, <2>1, PledgedChange
<1>8. /\ Allotted(conf) + Pledged(mods) + Owed(queue) <= Total + unseen
      /\ unseen \in Nat /\ unseen' \in Nat /\ unseen <= unseen'
  BY DEF ResInv, Enough, Marks
<1>9. Enough(conf, mods', queue, unseen')
  BY <1>2, <1>3, <1>5, <1>6, <1>7, <1>8, TotalAssumption DEF Enough
<1> QED BY <1>1, <1>2, <1>4, <1>8, <1>9 DEF ResInv

(* An update of the descriptor is asked for, in place of a promise or not. *)
LEMMA QueueStep ==
  ASSUME ConfOK(conf), ModsOK(mods'), queue \in Seq(Item),
         Apart(conf, mods', queue, unseenPorts'), unseen' \in Nat,
         NEW u \in Item, conf' = conf, queue' = Append(queue, u),
         nextId' \in Nat, made' \in Nat,
         \A j \in Ids : Wants(Owes(u)) \cap (Wants(conf[j]) \cup Wants(mods'[j])) \subseteq unseenPorts',
         \A k \in 1..Len(queue) : Wants(Owes(u)) \cap Wants(Owes(queue[k])) \subseteq unseenPorts',
         Allotted(conf) + Pledged(mods') + Owed(queue) + Worth(Owes(u)) <= Total + unseen'
  PROVE  ResInv'
<1>1. Apart(conf, mods', queue', unseenPorts') BY ApartAppend
<1>2. Owed(queue') = Owed(queue) + Worth(Owes(u)) BY OwedAppend
<1>3. queue' \in Seq(Item) OBVIOUS
<1>4. Owed(queue) \in Nat /\ Worth(Owes(u)) \in Nat BY OwedNat, OwesType, WorthNat
<1>5. Allotted(conf) \in Nat /\ Pledged(mods') \in Nat
  <2>1. \E i \in Ids : TRUE
    BY DEF Item
  <2>2. PICK i \in Ids : TRUE BY <2>1
  <2>3. None \in Alloc \cup {None} /\ None \in Alloc \cup Change \cup {None} OBVIOUS
  <2> QED BY <2>2, <2>3, AllottedChange, PledgedChange
<1>6. Enough(conf, mods', queue', unseen')
  BY <1>2, <1>4, <1>5 DEF Enough
<1> QED BY <1>1, <1>3, <1>6 DEF ResInv

(* The first update is stored: it gives the allocation i the value v. *)
LEMMA ConfStep ==
  ASSUME ResInv, queue # <<>>, queue' = Tail(queue),
         UNCHANGED <<mods, nextId, made, unseen, unseenPorts>>,
         NEW i \in Ids, NEW v \in Alloc \cup {None}, conf' = [conf EXCEPT ![i] = v],
         Worth(v) <= Worth(conf[i]) + Worth(Owes(Head(queue))),
         Wants(v) \subseteq Wants(conf[i]) \cup Wants(Owes(Head(queue)))
  PROVE  ResInv'
<1> DEFINE u == Head(queue)
           t == Tail(queue)
<1>1. ConfOK(conf) /\ ModsOK(mods) /\ queue \in Seq(Item)
      /\ Apart(conf, mods, queue, unseenPorts) /\ nextId \in Nat /\ made \in Nat /\ unseen \in Nat
  BY DEF ResInv
<1>2. t \in Seq(Item) /\ u \in Item /\ Owed(queue) = Worth(Owes(u)) + Owed(t)
  BY <1>1, OwedTail
<1>3. /\ Apart(conf, mods, t, unseenPorts)
      /\ \A j \in Ids : Wants(Owes(u)) \cap (Wants(conf[j]) \cup Wants(mods[j])) \subseteq unseenPorts
      /\ \A k \in 1..Len(t) : Wants(Owes(u)) \cap Wants(Owes(t[k])) \subseteq unseenPorts
  BY <1>1, ApartTail
<1>4. /\ Allotted(conf) \in Nat /\ ConfOK(conf')
      /\ Allotted(conf') + Worth(conf[i]) = Allotted(conf) + Worth(v)
  BY <1>1, AllottedChange
<1> HIDE DEF u, t
<1>5. Apart(conf', mods, t, unseenPorts)
  <2>1. \A j \in Ids \ {i} : Wants(v) \cap Wants(conf[j]) \subseteq unseenPorts
    <3> SUFFICES ASSUME NEW j \in Ids \ {i} PROVE Wants(v) \cap Wants(conf[j]) \subseteq unseenPorts OBVIOUS
    <3>1. Wants(conf[i]) \cap Wants(conf[j]) \subseteq unseenPorts BY <1>1 DEF Apart
    <3>2. Wants(Owes(u)) \cap Wants(conf[j]) \subseteq unseenPorts BY <1>3
    <3> QED BY <3>1, <3>2 DEF u
  <2>2. \A j \in Ids : Wants(v) \cap Wants(mods[j]) \subseteq unseenPorts
    <3> SUFFICES ASSUME NEW j \in Ids PROVE Wants(v) \cap Wants(mods[j]) \subseteq unseenPorts OBVIOUS
    <3>1. Wants(conf[i]) \cap Wants(mods[j]) \subseteq unseenPorts BY <1>1 DEF Apart
    <3>2. Wants(Owes(u)) \cap Wants(mods[j]) \subseteq unseenPorts BY <1>3
    <3> QED BY <3>1, <3>2 DEF u
  <2>3. \A k \in 1..Len(t) : Wants(v) \cap Wants(Owes(t[k])) \subseteq unseenPorts
    <3> SUFFICES ASSUME NEW k \in 1..Len(t) PROVE Wants(v) \cap Wants(Owes(t[k])) \subseteq unseenPorts OBVIOUS
    <3>1. Wants(Owes(t[k])) \cap (Wants(conf[i]) \cup Wants(mods[i])) \subseteq unseenPorts BY <1>3 DEF Apart
    <3>2. Wants(Owes(u)) \cap Wants(Owes(t[k])) \subseteq unseenPorts BY <1>3
    <3> QED BY <3>1, <3>2 DEF u
  <2>4. conf \in [Ids -> Alloc \cup {None}] BY <1>1 DEF ConfOK
  <2> QED BY <1>3, <2>1, <2>2, <2>3, <2>4, ApartConf
<1>6. Worth(conf[i]) \in Nat /\ Worth(v) \in Nat /\ Worth(Owes(u)) \in Nat /\ Owed(t) \in Nat
  <2>1. conf[i] \in Alloc \cup {None} BY <1>1 DEF ConfOK
  <2> QED BY <1>2, <2>1, WorthNat, OwesType, OwedNat
<1>7. Allotted(conf') \in Nat /\ Pledged(mods) \in Nat
  <2>1. None \in Alloc \cup {None} /\ None \in Alloc \cup Change \cup {None} OBVIOUS
  <2> QED BY <1>1, <1>4, <2>1, AllottedChange, PledgedChange
<1>8. Allotted(conf) + Pledged(mods) + Owed(queue) <= Total + unseen BY DEF ResInv, Enough
<1>9. Worth(v) <= Worth(conf[i]) + Worth(Owes(u)) BY DEF u
<1>10. Enough(conf', mods, t, unseen)
  BY <1>2, <1>4, <1>1, <1>6, <1>7, <1>8, <1>9, TotalAssumption DEF Enough
<1>11. queue' = t /\ UNCHANGED <<mods, nextId, made, unseen, unseenPorts>> BY DEF t
<1> QED BY <1>1, <1>2, <1>4, <1>5, <1>10, <1>11 DEF ResInv

(* What a promise or an allocation is made of is free. *)
LEMMA FreeValues ==
  ASSUME ConfOK(conf), ModsOK(mods), NEW s, s \subseteq Ports, \A p \in s : ValueFree(p),
         NEW j \in Ids
  PROVE  s \cap Wants(conf[j]) = {} /\ s \cap Wants(mods[j]) = {}
<1>1. conf[j] # None => s \cap conf[j].ports = {}
  BY DEF ValueFree, Confirmed
<1>2. mods[j] # None => s \cap mods[j].ports = {}
  BY DEF ValueFree, Promised
<1> QED BY <1>1, <1>2 DEF Wants

(* What a grant does not see is noted. *)
LEMMA Noted ==
  ASSUME ResInv, CanAsk, NextId
  PROVE  /\ nextId \in Ids /\ nextId' \in Nat /\ made' \in Nat /\ Marks
         /\ Owed(queue) \in Nat /\ Owed(queue) <= unseen'
         /\ \A k \in 1..Len(queue) : Wants(Owes(queue[k])) \subseteq unseenPorts'
<1>1. Owed(queue) \in Nat /\ unseen \in Nat /\ nextId \in Nat /\ made \in Nat
  BY OwedNat DEF ResInv
<1>2. unseen' \in Nat /\ unseen <= unseen' /\ Owed(queue) <= unseen'
  BY <1>1 DEF NextId
<1>3. unseenPorts \subseteq unseenPorts' BY DEF NextId
<1>4. \A k \in 1..Len(queue) : Wants(Owes(queue[k])) \subseteq unseenPorts'
  BY DEF NextId, OwedPorts
<1>5. nextId \in Ids /\ nextId' \in Nat /\ made' \in Nat BY <1>1 DEF CanAsk, NextId
<1> QED BY <1>1, <1>2, <1>3, <1>4, <1>5 DEF Marks

LEMMA ReduceIs == Reduce = Allotted(conf) + Pledged(mods)
BY DEF Reduce, Allotted, Pledged, Confirmed, Promised

LEMMA SumsNat ==
  ASSUME ResInv, NEW i \in Ids
  PROVE  Allotted(conf) \in Nat /\ Pledged(mods) \in Nat /\ Owed(queue) \in Nat
<1>1. None \in Alloc \cup {None} /\ None \in Alloc \cup Change \cup {None} OBVIOUS
<1> QED BY <1>1, AllottedChange, PledgedChange, OwedNat DEF ResInv

LEMMA GeneratedOK ==
  ASSUME ResInv, CanAsk, NextId, NEW a \in 0..Total + 1, NEW n, NEW x \in Generated(a, n)
  PROVE  /\ x \in Alloc
         /\ \A j \in Ids : Wants(x) \cap Wants(conf[j]) = {} /\ Wants(x) \cap Wants(mods[j]) = {}
         /\ Allotted(conf) + Pledged(mods) + Owed(queue) + Worth(x) <= Total + unseen'
<1>1. PICK s \in FindFreeValues(n) : x = Allocation(made + 1, a, s) /\ (a > 0 => ScalarFits(a))
  BY DEF Generated
<1>2. s \subseteq Ports /\ \A p \in s : ValueFree(p)
  BY <1>1 DEF FindFreeValues
<1>3. x \in Alloc /\ x.a = a /\ x.ports = s
  BY <1>1, <1>2, TotalAssumption DEF Alloc, Allocation, ResInv
<1>4. Worth(x) = a /\ Wants(x) = s BY <1>3, WorthNat
<1>5. \A j \in Ids : s \cap Wants(conf[j]) = {} /\ s \cap Wants(mods[j]) = {}
  BY <1>2, FreeValues DEF ResInv
<1>6. /\ Owed(queue) \in Nat /\ Owed(queue) <= unseen' /\ unseen <= unseen'
      /\ unseen \in Nat /\ unseen' \in Nat
  BY Noted DEF Marks, ResInv
<1>7. Allotted(conf) + Pledged(mods) + Owed(queue) <= Total + unseen BY DEF ResInv, Enough
<1>8. Allotted(conf) \in Nat /\ Pledged(mods) \in Nat BY Noted, SumsNat
<1>9. a > 0 => Allotted(conf) + Pledged(mods) + a <= Total
  BY <1>1, ReduceIs DEF ScalarFits
<1>10. Allotted(conf) + Pledged(mods) + Owed(queue) + a <= Total + unseen'
  BY <1>6, <1>7, <1>8, <1>9, TotalAssumption
<1> QED BY <1>3, <1>4, <1>5, <1>10

LEMMA PreallocateKeeps ==
  ASSUME ResInv, NEW a \in 0..Total + 1, NEW n, Preallocate(a, n)
  PROVE  ResInv'
<1>1. CanAsk /\ NextId /\ UNCHANGED <<conf, queue, held>> BY DEF Preallocate
<1>2. PICK x \in Generated(a, n) : mods' = [mods EXCEPT ![nextId] = x] BY DEF Preallocate
<1>3. /\ nextId \in Ids /\ nextId' \in Nat /\ made' \in Nat /\ Marks
      /\ \A k \in 1..Len(queue) : Wants(Owes(queue[k])) \subseteq unseenPorts'
  BY <1>1, Noted
<1>4. /\ x \in Alloc
      /\ \A j \in Ids : Wants(x) \cap Wants(conf[j]) = {} /\ Wants(x) \cap Wants(mods[j]) = {}
      /\ Allotted(conf) + Pledged(mods) + Owed(queue) + Worth(x) <= Total + unseen'
  BY <1>1, GeneratedOK
<1>5. \A k \in 1..Len(queue) : Wants(x) \cap Wants(Owes(queue[k])) \subseteq unseenPorts'
  BY <1>3
<1> QED BY <1>1, <1>2, <1>3, <1>4, <1>5, ModsStep

LEMMA AllocateKeeps ==
  ASSUME ResInv, NEW a \in 0..Total + 1, NEW n, Allocate(a, n)
  PROVE  ResInv'
<1>1. CanAsk /\ NextId /\ UNCHANGED <<conf, mods, held>> BY DEF Allocate
<1>2. PICK x \in Generated(a, n) : EnqueueUpdate([op |-> "append", id |-> nextId, by |-> x])
  BY DEF Allocate
<1> DEFINE u == [op |-> "append", id |-> nextId, by |-> x]
<1>3. /\ nextId \in Ids /\ nextId' \in Nat /\ made' \in Nat /\ Marks
      /\ \A k \in 1..Len(queue) : Wants(Owes(queue[k])) \subseteq unseenPorts'
  BY <1>1, Noted
<1>4. /\ x \in Alloc
      /\ \A j \in Ids : Wants(x) \cap Wants(conf[j]) = {} /\ Wants(x) \cap Wants(mods[j]) = {}
      /\ Allotted(conf) + Pledged(mods) + Owed(queue) + Worth(x) <= Total + unseen'
  BY <1>1, GeneratedOK
<1>5. \A k \in 1..Len(queue) : Wants(x) \cap Wants(Owes(queue[k])) \subseteq unseenPorts'
  BY <1>3
<1>7. u \in Item /\ Owes(u) = x BY <1>3, <1>4 DEF Item, Owes
<1>8. queue' = Append(queue, u) BY <1>2 DEF EnqueueUpdate
<1> HIDE DEF u
<1>9. \A j \in Ids : Wants(Owes(u)) \cap (Wants(conf[j]) \cup Wants(mods[j])) \subseteq unseenPorts'
  BY <1>4, <1>7
<1>10. mods' = mods /\ conf' = conf BY <1>1
<1>11. ConfOK(conf) /\ ModsOK(mods') /\ queue \in Seq(Item) /\ unseen' \in Nat
  BY <1>3, <1>10 DEF ResInv, Marks
<1>12. Apart(conf, mods', queue, unseenPorts')
  BY <1>3, <1>10, ApartMore DEF ResInv, Marks
<1> QED BY <1>3, <1>4, <1>5, <1>7, <1>8, <1>9, <1>10, <1>11, <1>12, QueueStep

LEMMA PremodifyKeeps ==
  ASSUME ResInv, NEW i \in Ids, NEW a \in -Total..Total, NEW c \in Commands,
         Premodify(i, a, c[1], c[2])
  PROVE  ResInv'
<1>1. /\ CanAsk /\ NextId /\ UNCHANGED <<conf, queue, held>> /\ i \in Confirmed
      /\ (a # 0 => ScalarFits(a))
  BY DEF Premodify
<1>2. PICK s \in Modified(i, c[1], c[2]) :
        mods' = [mods EXCEPT ![nextId] = AllocationChange(i, a, s)]
  BY DEF Premodify
<1> DEFINE x == AllocationChange(i, a, s)
<1>3. /\ nextId \in Ids /\ nextId' \in Nat /\ made' \in Nat /\ Marks
      /\ Owed(queue) \in Nat /\ Owed(queue) <= unseen'
      /\ \A k \in 1..Len(queue) : Wants(Owes(queue[k])) \subseteq unseenPorts'
  BY <1>1, Noted
<1>4. conf[i] \in Alloc BY <1>1 DEF ResInv, ConfOK, Confirmed
<1>5. s \subseteq Signed /\ \A p \in s \cap Ports : ValueFree(p)
  <2>1. c[1] \in {"none", "add", "add_specific", "release"}
        /\ (c[1] \in {"add_specific", "release"} => c[2] \in Ports)
    BY DEF Commands
  <2>2. CASE c[1] = "none" BY <1>2, <2>2 DEF Modified
  <2>3. CASE c[1] = "add" BY <1>2, <2>3 DEF Modified, FindFreeValues, Signed
  <2>4. CASE c[1] = "add_specific" BY <1>2, <2>1, <2>4 DEF Modified, Signed
  <2>5. CASE c[1] = "release"
    <3>1. s = {-c[2]} /\ c[2] \in Ports BY <1>2, <2>1, <2>5 DEF Modified
    <3>2. ASSUME NEW p \in Ports PROVE -p \notin Ports /\ -p \in Signed
      <4>1. p \in Nat /\ p # 0 BY PortsAssumption
      <4>2. -p \notin Nat BY <4>1
      <4> QED BY <4>2, PortsAssumption DEF Signed
    <3> QED BY <3>1, <3>2
  <2> QED BY <2>1, <2>2, <2>3, <2>4, <2>5
<1>6. x \in Change /\ x # None /\ x.a = a /\ x.ports = s
  BY <1>5, TotalAssumption DEF AllocationChange, Change, None
<1>7. Wants(x) = s \cap Ports /\ Worth(x) = Positive(a) BY <1>6 DEF Wants, Worth
<1>8. \A j \in Ids : Wants(x) \cap Wants(conf[j]) = {} /\ Wants(x) \cap Wants(mods[j]) = {}
  <2>1. s \cap Ports \subseteq Ports OBVIOUS
  <2> QED BY <1>5, <1>7, <2>1, FreeValues DEF ResInv
<1>9. Worth(x) = 0 \/ Allotted(conf) + Pledged(mods) + Owed(queue) + Worth(x) <= Total + unseen'
  <2>1. Owed(queue) \in Nat /\ Owed(queue) <= unseen' /\ unseen' \in Nat BY <1>3 DEF Marks
  <2>2. Allotted(conf) \in Nat /\ Pledged(mods) \in Nat BY SumsNat
  <2>3. a # 0 => Allotted(conf) + Pledged(mods) + a <= Total BY <1>1, ReduceIs DEF ScalarFits
  <2>4. a \in Int BY TotalAssumption
  <2> HIDE DEF x
  <2>5. CASE a > 0
    <3>1. Worth(x) = a BY <1>7, <2>5 DEF Positive
    <3>2. Allotted(conf) + Pledged(mods) + a <= Total BY <2>3, <2>4, <2>5
    <3>3. Allotted(conf) + Pledged(mods) + Owed(queue) + a <= Total + unseen'
      BY <2>1, <2>2, <2>4, <3>2, TotalAssumption
    <3> QED BY <3>1, <3>3
  <2>6. CASE ~(a > 0) BY <1>7, <2>6 DEF Positive
  <2> QED BY <2>5, <2>6
<1>10. \A k \in 1..Len(queue) : Wants(x) \cap Wants(Owes(queue[k])) \subseteq unseenPorts'
  BY <1>3
<1> HIDE DEF x
<1>12. mods' = [mods EXCEPT ![nextId] = x] BY <1>2 DEF x
<1> QED BY <1>1, <1>3, <1>6, <1>8, <1>9, <1>10, <1>12, ModsStep

LEMMA NoneIsFree == Worth(None) = 0 /\ Wants(None) = {}
BY DEF Worth, Wants

LEMMA ExpireKeeps ==
  ASSUME ResInv, NEW i \in Ids, mods' = [mods EXCEPT ![i] = None],
         UNCHANGED <<conf, queue, nextId, made, unseen, unseenPorts>>
  PROVE  ResInv'
<1>1. nextId' \in Nat /\ made' \in Nat /\ Marks BY DEF ResInv, Marks
<1>2. {} \subseteq unseenPorts' OBVIOUS
<1> QED BY <1>1, <1>2, NoneIsFree, ModsStep

LEMMA ConfirmKeeps ==
  ASSUME ResInv, NEW i \in Ids, Confirm(i)
  PROVE  ResInv'
<1> DEFINE r == mods[i]
           u == [op |-> IF r.kind = "alloc" THEN "append" ELSE "apply", id |-> i, by |-> r]
           m == [mods EXCEPT ![i] = None]
<1>1. /\ r # None /\ queue' = Append(queue, u) /\ mods' = m
      /\ UNCHANGED <<conf, nextId, made, unseen, unseenPorts>>
  BY DEF Confirm, EnqueueUpdate, Promised, UnchangedHistory
<1>2. ConfOK(conf) /\ ModsOK(mods) /\ queue \in Seq(Item) /\ Apart(conf, mods, queue, unseenPorts)
      /\ nextId \in Nat /\ made \in Nat /\ unseen \in Nat
  BY DEF ResInv
<1>3. r \in Alloc \cup Change BY <1>1, <1>2 DEF ModsOK
<1>4. u \in Item /\ Owes(u) = r
  <2>1. CASE r \in Alloc
    <3>1. r.kind = "alloc" BY <2>1 DEF Alloc
    <3> QED BY <2>1, <3>1 DEF Item, Owes
  <2>2. CASE r \in Change
    <3>1. r.kind = "change" BY <2>2 DEF Change
    <3> QED BY <2>2, <3>1 DEF Item, Owes
  <2> QED BY <1>3, <2>1, <2>2
<1>5. None \in Alloc \cup Change \cup {None} OBVIOUS
<1>6. ModsOK(m) /\ Pledged(m) + Worth(r) = Pledged(mods) /\ Pledged(mods) \in Nat
  <2>1. /\ Pledged(mods) \in Nat /\ ModsOK(m)
        /\ Pledged(m) + Worth(mods[i]) = Pledged(mods) + Worth(None)
    BY <1>2, <1>5, PledgedChange
  <2> QED BY <2>1, NoneIsFree
<1>7. Apart(conf, m, queue, unseenPorts)
  <2>1. {} \subseteq unseenPorts OBVIOUS
  <2> QED BY <1>2, <2>1, NoneIsFree, ApartMods DEF ModsOK
<1>8. \A j \in Ids : Wants(r) \cap (Wants(conf[j]) \cup Wants(m[j])) \subseteq unseenPorts
  <2> SUFFICES ASSUME NEW j \in Ids PROVE Wants(r) \cap (Wants(conf[j]) \cup Wants(m[j])) \subseteq unseenPorts
    OBVIOUS
  <2>1. Wants(r) \cap Wants(conf[j]) \subseteq unseenPorts BY <1>2 DEF Apart
  <2>2. CASE j = i
    <3>1. m[j] = None BY <1>2, <2>2 DEF ModsOK
    <3> QED BY <2>1, <3>1, NoneIsFree
  <2>3. CASE j # i
    <3>1. m[j] = mods[j] BY <1>2, <2>3 DEF ModsOK
    <3>2. Wants(r) \cap Wants(mods[j]) \subseteq unseenPorts BY <1>2, <2>3 DEF Apart
    <3> QED BY <2>1, <3>1, <3>2
  <2> QED BY <2>2, <2>3
<1>9. \A k \in 1..Len(queue) : Wants(r) \cap Wants(Owes(queue[k])) \subseteq unseenPorts
  <2> SUFFICES ASSUME NEW k \in 1..Len(queue) PROVE Wants(r) \cap Wants(Owes(queue[k])) \subseteq unseenPorts
    OBVIOUS
  <2>1. Wants(Owes(queue[k])) \cap (Wants(conf[i]) \cup Wants(mods[i])) \subseteq unseenPorts BY <1>2 DEF Apart
  <2> QED BY <2>1
<1>10. Allotted(conf) \in Nat /\ Owed(queue) \in Nat BY SumsNat
<1>11. Worth(r) \in Nat BY <1>3, WorthNat
<1>12. Pledged(m) \in Nat BY <1>5, <1>6, PledgedChange
<1>13. Allotted(conf) + Pledged(mods) + Owed(queue) <= Total + unseen BY DEF ResInv, Enough
<1> HIDE DEF r, u, m
<1>14. Allotted(conf) + Pledged(m) + Owed(queue) + Worth(r) <= Total + unseen
  BY <1>2, <1>6, <1>10, <1>11, <1>12, <1>13, TotalAssumption
<1> QED BY <1>1, <1>2, <1>4, <1>6, <1>7, <1>8, <1>9, <1>14, QueueStep

LEMMA ReleaseKeeps ==
  ASSUME ResInv, NEW i \in Ids, Release(i)
  PROVE  ResInv'
<1>1. CASE i \in Confirmed
  <2> DEFINE u == [op |-> "remove", id |-> i]
  <2>1. queue' = Append(queue, u) /\ UNCHANGED <<mods, conf, nextId, made, unseen, unseenPorts>>
    BY <1>1 DEF Release, EnqueueUpdate, UnchangedHistory
  <2>2. u \in Item /\ Owes(u) = None BY DEF Item, Owes
  <2> HIDE DEF u
  <2>3. ConfOK(conf) /\ ModsOK(mods') /\ queue \in Seq(Item) /\ Apart(conf, mods', queue, unseenPorts)
        /\ nextId' \in Nat /\ made' \in Nat /\ unseen \in Nat
    BY <2>1 DEF ResInv
  <2>4. Allotted(conf) + Pledged(mods') + Owed(queue) + Worth(Owes(u)) <= Total + unseen
    <3>1. Allotted(conf) + Pledged(mods) + Owed(queue) <= Total + unseen BY DEF ResInv, Enough
    <3> QED BY <2>1, <2>2, <2>3, <3>1, NoneIsFree, SumsNat, TotalAssumption
  <2>5. {} \subseteq unseenPorts OBVIOUS
  <2> QED BY <2>1, <2>2, <2>3, <2>4, <2>5, NoneIsFree, QueueStep
<1>2. CASE i \notin Confirmed
  BY <1>2, ExpireKeeps DEF Release, UnchangedHistory
<1> QED BY <1>1, <1>2

LEMMA AllocationSavedKeeps ==
  ASSUME ResInv, AllocationSaved
  PROVE  ResInv'
<1> DEFINE u == Head(queue)
<1>1. queue # <<>> /\ queue' = Tail(queue) /\ UNCHANGED <<mods, nextId, made, unseen, unseenPorts>>
      /\ conf' \in (IF Applied(u) = {} THEN {conf} ELSE Applied(u))
  BY DEF AllocationSaved, UnchangedHistory
<1>2. u \in Item /\ ConfOK(conf) BY <1>1, OwedTail DEF ResInv
<1>3. ASSUME NEW i \in Ids, conf' = conf PROVE ResInv'
  <2>1. conf' = [conf EXCEPT ![i] = conf[i]] /\ conf[i] \in Alloc \cup {None}
    BY <1>2, <1>3 DEF ConfOK
  <2>2. Worth(conf[i]) \in Nat /\ Worth(Owes(u)) \in Nat
    BY <1>2, <2>1, WorthNat, OwesType
  <2> HIDE DEF u
  <2>3. Worth(conf[i]) <= Worth(conf[i]) + Worth(Owes(u)) BY <2>2
  <2>4. Wants(conf[i]) \subseteq Wants(conf[i]) \cup Wants(Owes(u)) OBVIOUS
  <2> QED BY <1>1, <2>1, <2>3, <2>4, ConfStep DEF u
<1>4. CASE u.op = "append"
  <2>1. u.id \in Ids /\ u.by \in Alloc /\ Owes(u) = u.by BY <1>2, <1>4 DEF Item, Owes
  <2>2. conf' = [conf EXCEPT ![u.id] = u.by] BY <1>1, <1>4 DEF Applied
  <2>3. Worth(conf[u.id]) \in Nat /\ Worth(u.by) \in Nat
    BY <1>2, <2>1, WorthNat DEF ConfOK
  <2> HIDE DEF u
  <2>4. Worth(u.by) <= Worth(conf[u.id]) + Worth(Owes(u)) BY <2>1, <2>3
  <2>5. Wants(u.by) \subseteq Wants(conf[u.id]) \cup Wants(Owes(u)) BY <2>1
  <2> QED BY <1>1, <2>1, <2>2, <2>4, <2>5, ConfStep DEF u
<1>5. CASE u.op = "apply"
  <2> DEFINE i == u.by.of
             o == conf[i]
             by == u.by
  <2>1. by \in Change /\ Owes(u) = by /\ i \in Ids BY <1>2, <1>5 DEF Item, Owes, Change
  <2>2. CASE Applied(u) = {} BY <1>1, <1>3, <2>1, <2>2
  <2>3. ASSUME Applied(u) # {} PROVE ResInv'
    <3>1. PICK n \in Changed(u) : conf' = [conf EXCEPT ![i] = n]
      BY <1>1, <1>5, <2>3 DEF Applied
    <3>2. o # None /\ n \in Add(o, by) BY <3>1 DEF Changed
    <3>3. o \in Alloc BY <1>2, <2>1, <3>2 DEF ConfOK
    <3> DEFINE more == by.ports \cap Ports
               less == {-p : p \in by.ports \ Ports}
    <3>4. n = [o EXCEPT !.a = @ + by.a, !.ports = (@ \ less) \cup more] /\ n.a >= 0
      BY <3>2 DEF Add
    <3>5. o.a \in Nat /\ o.ports \subseteq Ports /\ o.kind = "alloc" /\ o.serial \in Nat
          /\ o = [kind |-> o.kind, serial |-> o.serial, a |-> o.a, ports |-> o.ports]
      BY <3>3 DEF Alloc
    <3>6. by.a \in Int /\ by # None BY <2>1 DEF Change, None
    <3> HIDE DEF i, o, by, more, less
    <3>7. /\ n.a = o.a + by.a /\ n.ports = (o.ports \ less) \cup more
          /\ n.kind = "alloc" /\ n.serial = o.serial
          /\ n = [kind |-> n.kind, serial |-> n.serial, a |-> n.a, ports |-> n.ports]
      BY <3>4, <3>5
    <3>8. n \in Alloc
      <4>1. n.a \in Nat BY <3>4, <3>5, <3>6, <3>7
      <4>2. n.ports \in SUBSET Ports BY <3>5, <3>7 DEF more
      <4> QED BY <3>5, <3>7, <4>1, <4>2 DEF Alloc
    <3>9. /\ Worth(n) = n.a /\ Worth(o) = o.a /\ Worth(by) = Positive(by.a)
          /\ Wants(n) = n.ports /\ Wants(o) = o.ports /\ Wants(by) = more
      BY <3>3, <3>6, <3>8, WorthNat DEF Worth, Wants, more
    <3>10. Worth(n) <= Worth(o) + Worth(by)
      BY <3>5, <3>6, <3>7, <3>9 DEF Positive
    <3>11. Wants(n) \subseteq Wants(o) \cup Wants(by) BY <3>7, <3>9
    <3> HIDE DEF u
    <3> QED BY <1>1, <2>1, <3>1, <3>8, <3>10, <3>11, ConfStep DEF u, o
  <2> QED BY <2>2, <2>3
<1>6. CASE u.op = "remove"
  <2>1. u.id \in Ids /\ Owes(u) = None BY <1>2, <1>6 DEF Item, Owes
  <2>2. conf' = [conf EXCEPT ![u.id] = None] BY <1>1, <1>6 DEF Applied
  <2>3. Worth(conf[u.id]) \in Nat BY <1>2, <2>1, WorthNat DEF ConfOK
  <2> HIDE DEF u
  <2>4. Worth(None) <= Worth(conf[u.id]) + Worth(Owes(u)) BY <2>1, <2>3, NoneIsFree
  <2>5. Wants(None) \subseteq Wants(conf[u.id]) \cup Wants(Owes(u)) BY NoneIsFree
  <2> QED BY <1>1, <2>1, <2>2, <2>4, <2>5, ConfStep DEF u
<1> QED BY <1>2, <1>4, <1>5, <1>6 DEF Item

LEMMA SaveFailsKeeps ==
  ASSUME ResInv, queue # <<>>, queue' = Tail(queue), 
         UNCHANGED <<conf, mods, nextId, made, unseen, unseenPorts>>
  PROVE  ResInv'
<1>1. /\ Tail(queue) \in Seq(Item) /\ Head(queue) \in Item
      /\ Owed(queue) = Worth(Owes(Head(queue))) + Owed(Tail(queue))
  BY OwedTail DEF ResInv
<1>2. Apart(conf, mods, Tail(queue), unseenPorts) BY ApartTail DEF ResInv
<1>3. PICK i \in Ids : TRUE BY <1>1 DEF Item
<1>4. Allotted(conf) \in Nat /\ Pledged(mods) \in Nat BY SumsNat
<1>5. Worth(Owes(Head(queue))) \in Nat /\ Owed(Tail(queue)) \in Nat
  BY <1>1, OwesType, WorthNat, OwedNat
<1>6. Allotted(conf) + Pledged(mods) + Owed(queue) <= Total + unseen /\ unseen \in Nat
  BY DEF ResInv, Enough
<1> DEFINE t == Tail(queue)
<1>7. queue' = t /\ t \in Seq(Item) /\ Owed(t) \in Nat /\ Apart(conf, mods, t, unseenPorts)
      /\ Owed(queue) = Worth(Owes(Head(queue))) + Owed(t)
  BY <1>1, <1>2, <1>5
<1> HIDE DEF t
<1>8. Enough(conf, mods, t, unseen) BY <1>4, <1>5, <1>6, <1>7, TotalAssumption DEF Enough
<1> QED BY <1>7, <1>8 DEF ResInv

LEMMA SumsOfNone ==
  LET none == [i \in Ids |-> None]
  IN  /\ ConfOK(none) /\ ModsOK(none) /\ Allotted(none) = 0 /\ Pledged(none) = 0
      /\ \A c, m, x : ConfOK(c) /\ Apart(c, m, <<>>, x) => Apart(c, none, <<>>, x)
      /\ \A x : Apart(none, none, <<>>, x)
<1> DEFINE none == [i \in Ids |-> None]
           f == [i \in {j \in Ids : none[j] # None} |-> none[i].a]
           g == [i \in {j \in Ids : none[j] # None} |-> Positive(none[i].a)]
<1>1. ConfOK(none) /\ ModsOK(none) BY DEF ConfOK, ModsOK
<1>2. {j \in Ids : none[j] # None} = {} OBVIOUS
<1>3. DOMAIN f = {} /\ DOMAIN g = {} BY <1>2
<1>4. Allotted(none) = SumFunction(f) /\ Pledged(none) = SumFunction(g)
  BY DEF Allotted, Pledged
<1>5. \A i \in Ids : Wants(none[i]) = {} BY NoneIsFree
<1> HIDE DEF f, g
<1>6. SumFunctionOnSet(f, {}) = 0 /\ SumFunctionOnSet(g, {}) = 0 BY FS_EmptySet, SumStep
<1>7. SumFunction(f) = 0 /\ SumFunction(g) = 0 BY <1>3, <1>6 DEF SumFunction
<1>8. 1..Len(<<>>) = {} OBVIOUS
<1> HIDE DEF none
<1>9. ASSUME NEW x, NEW c, NEW m, Apart(c, m, <<>>, x) PROVE Apart(c, none, <<>>, x)
  <2>1. \A i, j \in Ids : i # j => Wants(c[i]) \cap Wants(c[j]) \subseteq x BY <1>9 DEF Apart
  <2> QED BY <1>5, <1>8, <2>1 DEF Apart
<1>10. \A x : Apart(none, none, <<>>, x) BY <1>5, <1>8 DEF Apart
<1> QED BY <1>1, <1>4, <1>7, <1>9, <1>10 DEF none

LEMMA RestartKeeps ==
  ASSUME ResInv, Restart
  PROVE  ResInv'
<1> DEFINE none == [i \in Ids |-> None]
<1>1. mods' = none /\ queue' = <<>> /\ nextId' = 1 /\ conf' = conf /\ made' = made
      /\ UNCHANGED <<unseen, unseenPorts>>
  BY DEF Restart, UnchangedHistory
<1>2. Apart(conf, mods, <<>>, unseenPorts) BY ApartEmpty DEF ResInv
<1>3. Apart(conf, none, <<>>, unseenPorts) /\ ModsOK(none) /\ Pledged(none) = 0
  BY <1>2, SumsOfNone DEF ResInv
<1>4. Allotted(conf) <= Total + unseen /\ Allotted(conf) \in Nat
  <2>1. CASE Ids = {}
    <3>1. conf = [i \in Ids |-> None] BY <2>1 DEF ResInv, ConfOK
    <3> QED BY <3>1, SumsOfNone, TotalAssumption DEF ResInv
  <2>2. ASSUME NEW i \in Ids PROVE Allotted(conf) <= Total + unseen /\ Allotted(conf) \in Nat
    <3>1. Allotted(conf) + Pledged(mods) + Owed(queue) <= Total + unseen BY DEF ResInv, Enough
    <3> QED BY <3>1, SumsNat, TotalAssumption DEF ResInv
  <2> QED BY <2>1, <2>2
<1> HIDE DEF none
<1>5. Enough(conf, none, <<>>, unseen)
  BY <1>3, <1>4, OwedEmpty DEF Enough
<1>6. <<>> \in Seq(Item) OBVIOUS
<1> QED BY <1>1, <1>3, <1>5, <1>6 DEF ResInv

LEMMA ResInvInit == ResourcesInit => ResInv
<1> SUFFICES ASSUME ResourcesInit PROVE ResInv OBVIOUS
<1> DEFINE none == [i \in Ids |-> None]
<1>1. conf = none /\ mods = none /\ queue = <<>> /\ nextId = 1 /\ made = 0
      /\ unseen = 0 /\ unseenPorts = {}
  BY DEF ResourcesInit
<1>2. /\ ConfOK(none) /\ ModsOK(none) /\ Allotted(none) = 0 /\ Pledged(none) = 0
      /\ Apart(none, none, <<>>, {})
  BY SumsOfNone
<1> HIDE DEF none
<1>3. Enough(none, none, <<>>, 0) BY <1>2, OwedEmpty, TotalAssumption DEF Enough
<1>4. <<>> \in Seq(Item) OBVIOUS
<1> QED BY <1>1, <1>2, <1>3, <1>4 DEF ResInv

LEMMA ResInvNext ==
  ASSUME ResInv, [ResourcesNext]_resourceVars
  PROVE  ResInv'
<1>1. ASSUME NEW a \in 0..Total + 1, NEW n \in 0..Cardinality(Ports),
             Preallocate(a, n) \/ Allocate(a, n)
      PROVE  ResInv'
  BY <1>1, PreallocateKeeps, AllocateKeeps
<1>2. ASSUME NEW i \in Ids, NEW a \in -Total..Total, NEW c \in Commands,
             Premodify(i, a, c[1], c[2])
      PROVE  ResInv'
  BY <1>2, PremodifyKeeps
<1>3. ASSUME NEW i \in Ids, Expire(i) PROVE ResInv'
  BY <1>3, ExpireKeeps DEF Expire, UnchangedHistory
<1>4. ASSUME NEW i \in Ids, Confirm(i) \/ Release(i) PROVE ResInv'
  BY <1>4, ConfirmKeeps, ReleaseKeeps
<1>5. CASE AllocationSaved BY <1>5, AllocationSavedKeeps
<1>6. CASE AllocationSaveFails BY <1>6, SaveFailsKeeps DEF AllocationSaveFails, UnchangedHistory
<1>7. CASE Restart BY <1>7, RestartKeeps
<1>8. CASE UNCHANGED resourceVars BY <1>8 DEF resourceVars, ResInv
<1> QED BY <1>1, <1>2, <1>3, <1>4, <1>5, <1>6, <1>7, <1>8 DEF ResourcesNext

LEMMA ResInvFits == ResInv => Fits
<1> SUFFICES ASSUME ResInv PROVE Fits OBVIOUS
<1>1. Reduce <= Total + unseen
  <2>1. CASE Ids = {}
    <3>1. conf = [i \in Ids |-> None] /\ mods = [i \in Ids |-> None]
      BY <2>1 DEF ResInv, ConfOK, ModsOK
    <3> QED BY <3>1, ReduceIs, SumsOfNone, TotalAssumption DEF ResInv
  <2>2. ASSUME NEW i \in Ids PROVE Reduce <= Total + unseen
    <3>1. Allotted(conf) + Pledged(mods) + Owed(queue) <= Total + unseen BY DEF ResInv, Enough
    <3> QED BY <3>1, SumsNat, ReduceIs, TotalAssumption DEF ResInv
  <2> QED BY <2>1, <2>2
<1>2. \A i \in Confirmed : i \in Ids /\ Wants(conf[i]) = conf[i].ports /\ conf[i].ports \subseteq Ports
  <2>1. \A i \in Confirmed : i \in Ids /\ conf[i] \in Alloc BY DEF Confirmed, ResInv, ConfOK
  <2> QED BY <2>1, WorthNat DEF Alloc
<1>3. \A i \in Promised : i \in Ids /\ Wants(mods[i]) = mods[i].ports \cap Ports
  BY DEF Promised, Wants
<1>4. \A i, j \in Ids :
        /\ i # j => Wants(conf[i]) \cap Wants(conf[j]) \subseteq unseenPorts
        /\ i # j => Wants(mods[i]) \cap Wants(mods[j]) \subseteq unseenPorts
        /\ Wants(conf[i]) \cap Wants(mods[j]) \subseteq unseenPorts
  BY DEF ResInv, Apart
<1>5. \A i, j \in Confirmed : i # j => conf[i].ports \cap conf[j].ports \subseteq unseenPorts
  BY <1>2, <1>4
<1>6. ASSUME NEW i \in Confirmed, NEW j \in Promised PROVE conf[i].ports \cap mods[j].ports \subseteq unseenPorts
  <2>1. Wants(conf[i]) \cap Wants(mods[j]) \subseteq unseenPorts BY <1>2, <1>3, <1>4
  <2> QED BY <1>2, <1>3, <2>1
<1>7. ASSUME NEW i \in Promised, NEW j \in Promised, i # j
      PROVE  mods[i].ports \cap mods[j].ports \cap Ports \subseteq unseenPorts
  <2>1. Wants(mods[i]) \cap Wants(mods[j]) \subseteq unseenPorts BY <1>3, <1>4, <1>7
  <2> QED BY <1>3, <2>1
<1>8. Disjoint(unseenPorts) BY <1>5, <1>6, <1>7 DEF Disjoint
<1> QED BY <1>1, <1>8 DEF Fits

(* What is allocated and promised exceeds the total of the scalar by no    *)
(* more than what had been confirmed, and was not yet in the descriptor,   *)
(* when something was granted, and no port is given twice but one that was *)
(* waiting like that: for every total, range and order of promises,        *)
(* confirmations, releases, expirations, failed saves and restarts         *)
(* (resource.py:868-878, where only the descriptor and the promises count).*)
THEOREM NeverTooMuch == ResourcesSpec => []Fits
<1>1. ResourcesInit => ResInv BY ResInvInit
<1>2. ResInv /\ [ResourcesNext]_resourceVars => ResInv' BY ResInvNext
<1>3. ResInv => Fits BY ResInvFits
<1> QED BY <1>1, <1>2, <1>3, PTL DEF ResourcesSpec
=============================================================================
