------------------------------ MODULE MCWorkers ------------------------------
(* Three parts of the platform that Celery beat and its workers drive: a lane of
   a Zoho module, the planner of all its lanes, an outbound e-mail.  A behaviour
   is one of one part, chosen at the start; the others stay as they began, where
   nothing that their fairness asks for can happen.                         *)
EXTENDS LeasedRun, Planner, Outbox

VARIABLE part

laneVars == vars
allVars == <<part, laneVars, plannerVars, outboxVars>>

WorkersInit ==
  /\ part \in {"lane", "planner", "e-mail"}
  /\ Init /\ PlannerInit /\ OutboxInit

WorkersNext ==
  /\ UNCHANGED part
  /\ \/ part = "lane" /\ Next /\ UNCHANGED <<plannerVars, outboxVars>>
     \/ part = "planner" /\ PlannerNext /\ UNCHANGED <<laneVars, outboxVars>>
     \/ part = "e-mail" /\ OutboxNext /\ UNCHANGED <<laneVars, plannerVars>>

WorkersSpec ==
  /\ WorkersInit /\ [][WorkersNext]_allVars
  /\ LaneFairness /\ PlannerFairness /\ OutboxFairness

(* Every variable of the three parts keeps its type. *)
WorkersTypeOK ==
  CASE part = "lane" -> TypeOK
    [] part = "planner" -> PlannerTypeOK
    [] part = "e-mail" -> OutboxTypeOK
=============================================================================
