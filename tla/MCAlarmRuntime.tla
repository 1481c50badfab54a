--------------------------- MODULE MCAlarmRuntime ---------------------------
(* The initial schedules of AlarmRuntime's instances. *)
EXTENDS AlarmRuntime

(* Every alarm armed, at any instant, or absent. *)
AnyArmed ==
  [AlarmIds -> [schedule_revision : {1}, enabled : {TRUE},
                scheduled : 0 .. MaxWall]]

(* One alarm per instant, each within one grace of the next. *)
ArmedInTurn ==
  {[a \in AlarmIds |-> [schedule_revision |-> 1, enabled |-> TRUE,
                        scheduled |-> a]]}

(* All alarms at one instant, or one per instant. *)
TogetherOrInTurn ==
  ArmedInTurn \cup
  {[a \in AlarmIds |-> [schedule_revision |-> 1, enabled |-> TRUE,
                        scheduled |-> 1]]}
=============================================================================
