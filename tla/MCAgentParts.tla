----------------------------- MODULE MCAgentParts -----------------------------
(***************************************************************************)
(* Four parts of agents that have nothing to do with each other, each      *)
(* checked alone in one run: the resources of an agent, its partners, the  *)
(* clerk of a monitor and the monitors that handle a death.  part says     *)
(* which, and the others stay in an initial state.                         *)
(***************************************************************************)
EXTENDS Resources, Clerk, Death, Partners, TLC

CONSTANTS m1, m2, m3, a1, a2, a3

(* The last monitor is not known to the agent that died. *)
BrothersDef == <<m1, m2>>

DeathCase(strategy, helpers, crashes, slow, expires) ==
  [strategy |-> strategy, helpers |-> helpers, crashes |-> crashes, slow |-> slow,
   expires |-> expires, lost |-> FALSE]

CasesDef ==
  {DeathCase("buryme", {}, 1, 1, FALSE), DeathCase("monitor", {}, 1, 0, FALSE),
   DeathCase("local", {"starts", "touches"}, 0, 0, FALSE),
   DeathCase("local", {"starts"}, 1, 0, FALSE),
   DeathCase("local", {}, 0, 1, FALSE),
   DeathCase("wherever", {"starts", "stops"}, 0, 0, FALSE),
   DeathCase("local", {"starts"}, 0, 0, TRUE),
   DeathCase("local", {}, 0, 1, TRUE),
   DeathCase("buryme", {}, 0, 3, TRUE),
   DeathCase("monitor", {}, 0, 0, TRUE)}

(* The cases are within what one monitor can be shown to resolve. *)
ASSUME CasesAreMild == Mild

Scene(agents, manners, room) == [agents |-> agents, manners |-> manners, room |-> room]

ScenesDef ==
  {Scene({a1, a2}, {"breakup", "cross", "double", "leave"}, 2),
   Scene({a1, a2}, {"hasty", "cross", "double", "leave"}, 2),
   Scene({a1, a2, a3}, {"cross"}, 1),
   Scene({a1, a2}, {"restarted", "cross", "double"}, 2),
   Scene({a1, a2, a3}, {"substitute"}, 2)}

VARIABLE part

PartsInit ==
  /\ part \in {"resources", "clerk", "death", "partners"}
  /\ ResourcesInit /\ ClerkInit /\ DeathInit /\ PartnersInit
  /\ part # "death" => case.strategy = "buryme" /\ ~case.expires
  /\ part # "clerk" => quar
  /\ part # "partners" => "substitute" \in Manners

PartsNext ==
  /\ UNCHANGED part
  /\ \/ /\ part = "resources" /\ ResourcesNext
        /\ UNCHANGED <<clerkVars, deathVars, partnerVars>>
     \/ /\ part = "clerk" /\ ClerkNext
        /\ UNCHANGED <<resourceVars, deathVars, partnerVars>>
     \/ /\ part = "death" /\ DeathNext
        /\ UNCHANGED <<resourceVars, clerkVars, partnerVars>>
     \/ /\ part = "partners" /\ PartnersNext
        /\ UNCHANGED <<resourceVars, clerkVars, deathVars>>

PartsSpec ==
  PartsInit /\ [][PartsNext]_<<part, resourceVars, clerkVars, deathVars, partnerVars>>

Symmetry == Permutations(Patients)

(* All parts keep their types. *)
PartsTypeOK == ResourcesTypeOK /\ ClerkTypeOK /\ DeathTypeOK /\ PartnersTypeOK
=============================================================================
