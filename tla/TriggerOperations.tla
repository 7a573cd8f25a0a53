-------------------------- MODULE TriggerOperations -------------------------
(***************************************************************************)
(* The inheritance trigger of a plan: by hand, or by the conditions its    *)
(* owner set, and the recall of its loans afterwards.                      *)
(***************************************************************************)
EXTENDS InheritanceState

otherThanTrigger ==
  <<now, accessVars, token, next_plan_id, indexVars, claimVars, guardVars>>

NewTriggerInfo(p, by) ==
  [by |-> by, triggered_at |-> now, recall_attempted |-> FALSE, liquidation_triggered |-> FALSE,
   original_loaned |-> plans[p].total_loaned, recalled_amount |-> 0,
   settled_amount |-> 0]

(* Faulty: a triggered plan is triggered again. *)
TriggerAgain(p, by) ==
  /\ plans[p].is_active
  /\ plans' = [plans EXCEPT ![p].is_lendable = FALSE]
  /\ triggers' = Put(triggers, p, NewTriggerInfo(p, by))
  /\ UNCHANGED <<conditions, otherThanTrigger>>

(* What both ways to trigger do: freeze new loans, record the trigger.     *)
Trigger(p, by) ==
  /\ plans[p].is_active
  /\ ~Triggered(p)
  /\ plans' = [plans EXCEPT ![p].is_lendable = FALSE]
  /\ triggers' = Put(triggers, p, NewTriggerInfo(p, by))
  /\ UNCHANGED <<conditions, otherThanTrigger>>

(* Faulty: an access that has run out still counts. *)
MayTriggerWhenExpired(caller, p) ==
  \/ caller = admin
  \/ plans[p].owner = caller
  \/ p \in DOMAIN emergency /\ emergency[p].trusted_contact = caller

(* The admin is the stored one here, whatever roles he holds.              *)
MayTrigger(caller, p) ==
  \/ caller = admin
  \/ plans[p].owner = caller
  \/ /\ p \in DOMAIN emergency
     /\ ~EmergencyExpired(p)
     /\ emergency[p].trusted_contact = caller

TriggerInheritance(caller, p) ==
  /\ ~paused
  /\ PlanExists(p)
  /\ MayTrigger(caller, p)
  /\ Trigger(p, caller)

-----------------------------------------------------------------------------
(* Conditions. *)

NewTriggerConfig ==
  [conditions |-> {}, trigger_date |-> 0, inactivity_period |-> 0,
   last_activity |-> now, oracle_address |-> None, oracle_triggered |-> FALSE,
   health_triggered |-> FALSE]

ConfigOf(p) == IF p \in DOMAIN conditions THEN conditions[p] ELSE NewTriggerConfig

SaveConfig(p, config) ==
  /\ conditions' = Put(conditions, p, config)
  /\ UNCHANGED <<plans, triggers, otherThanTrigger>>

SetTriggerConditions(owner, p, conds, date, period, oracle) ==
  /\ OwnedBy(p, owner)
  /\ ~Triggered(p)
  /\ SaveConfig(p, [NewTriggerConfig EXCEPT
       !.conditions = conds, !.trigger_date = date, !.inactivity_period = period,
       !.oracle_address = oracle])

AddTimeTrigger(owner, p, date) ==
  /\ OwnedBy(p, owner)
  /\ date # 0
  /\ ~Triggered(p)
  /\ SaveConfig(p, [ConfigOf(p) EXCEPT
       !.conditions = @ \cup {"Time"}, !.trigger_date = date])

AddInactivityTrigger(owner, p, period) ==
  /\ OwnedBy(p, owner)
  /\ period # 0
  /\ SaveConfig(p, [ConfigOf(p) EXCEPT
       !.conditions = @ \cup {"Inactivity"}, !.inactivity_period = period,
       !.last_activity = IF @ = 0 THEN now ELSE @])

(* Both oracles are kept in the one oracle_address. *)
AddOracleTrigger(owner, p, oracle) ==
  /\ OwnedBy(p, owner)
  /\ SaveConfig(p, [ConfigOf(p) EXCEPT
       !.conditions = @ \cup {"Oracle"}, !.oracle_address = oracle])

AddHealthTrigger(owner, p, oracle) ==
  /\ OwnedBy(p, owner)
  /\ SaveConfig(p, [ConfigOf(p) EXCEPT
       !.conditions = @ \cup {"Health"}, !.oracle_address = oracle])

RecordActivity(owner, p) ==
  /\ OwnedBy(p, owner)
  /\ p \in DOMAIN conditions
  /\ SaveConfig(p, [conditions[p] EXCEPT !.last_activity = now])

IsOracle(oracle, p) ==
  p \in DOMAIN conditions /\ conditions[p].oracle_address = oracle

SubmitOracleTrigger(oracle, p) ==
  /\ IsOracle(oracle, p)
  /\ SaveConfig(p, [conditions[p] EXCEPT !.oracle_triggered = TRUE])

SubmitHealthTrigger(oracle, p) ==
  /\ IsOracle(oracle, p)
  /\ SaveConfig(p, [conditions[p] EXCEPT !.health_triggered = TRUE])

(* Faulty: a date or a period that was never set is due at once. *)
ConditionMetWhenUnset(config, condition) ==
  CASE condition = "Time" -> now >= config.trigger_date
    [] condition = "Inactivity" ->
         now >= config.last_activity + config.inactivity_period
    [] condition = "Oracle" -> config.oracle_triggered
    [] condition = "Health" -> config.health_triggered
    [] condition = "Manual" -> FALSE

ConditionMet(config, condition) ==
  CASE condition = "Time" ->
         config.trigger_date > 0 /\ now >= config.trigger_date
    [] condition = "Inactivity" ->
         /\ config.inactivity_period > 0
         /\ config.last_activity > 0
         /\ now >= config.last_activity + config.inactivity_period
    [] condition = "Oracle" -> config.oracle_triggered
    [] condition = "Health" -> config.health_triggered
    [] condition = "Manual" -> FALSE

CheckTriggerConditions(p) ==
  /\ p \in DOMAIN conditions
  /\ \E c \in conditions[p].conditions : ConditionMet(conditions[p], c)

(* Anybody may call it, also while the contract is paused. *)
AutoTriggerCheck(p) ==
  /\ CheckTriggerConditions(p)
  /\ PlanExists(p)
  /\ Trigger(p, None)

-----------------------------------------------------------------------------
(* The loans that were out when the plan was triggered. *)

(* Faulty: the amount of the last recall replaces that of the earlier ones, *)
(* and is taken off the plan.                                               *)
RecallLoanOnce(caller, p, amount) ==
  /\ HasRole(caller, "Admin")
  /\ PlanExists(p)
  /\ Triggered(p)
  /\ amount \in 1..plans[p].total_loaned
  /\ plans' = [plans EXCEPT ![p].total_loaned = @ - amount,
                            ![p].total_amount = SaturatingSub(@, amount)]
  /\ triggers' = [triggers EXCEPT ![p].recall_attempted = TRUE,
                                  ![p].recalled_amount = amount]
  /\ UNCHANGED <<conditions, otherThanTrigger>>

RecallLoan(caller, p, amount) ==
  /\ HasRole(caller, "Admin")
  /\ PlanExists(p)
  /\ Triggered(p)
  /\ amount \in 1..plans[p].total_loaned
  /\ plans' = [plans EXCEPT ![p].total_loaned = @ - amount]
  /\ triggers' = [triggers EXCEPT ![p].recall_attempted = TRUE,
                                  ![p].recalled_amount = @ + amount]
  /\ UNCHANGED <<conditions, otherThanTrigger>>

(* Faulty: the loans are taken off an amount that no longer covers them.   *)
LiquidateBelowZero(caller, p) ==
  /\ HasRole(caller, "Admin")
  /\ PlanExists(p)
  /\ Triggered(p)
  /\ plans[p].total_loaned > 0
  /\ plans' = [plans EXCEPT
       ![p].total_amount = @ - plans[p].total_loaned,
       ![p].total_loaned = 0]
  /\ triggers' = [triggers EXCEPT
       ![p].liquidation_triggered = TRUE,
       ![p].settled_amount = @ + plans[p].total_loaned]
  /\ UNCHANGED <<conditions, otherThanTrigger>>

LiquidationFallback(caller, p) ==
  /\ HasRole(caller, "Admin")
  /\ PlanExists(p)
  /\ Triggered(p)
  /\ plans[p].total_loaned > 0
  /\ plans' = [plans EXCEPT
       ![p].total_amount = SaturatingSub(@, plans[p].total_loaned),
       ![p].total_loaned = 0]
  /\ triggers' = [triggers EXCEPT
       ![p].liquidation_triggered = TRUE,
       ![p].settled_amount = @ + plans[p].total_loaned]
  /\ UNCHANGED <<conditions, otherThanTrigger>>
=============================================================================
