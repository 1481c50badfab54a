------------------------------- MODULE MCInputs ------------------------------
(***************************************************************************)
(* Small zones and alarms.                                                 *)
(***************************************************************************)
EXTENDS Inputs

(* Days of four instants: an hour that repeats or is skipped, at a change  *)
(* of day or within one, whole days skipped, changes of the abbreviation   *)
(* alone, changes past the cutoff, and records that do not parse.          *)
Chains ==
  {Record("ok", times, types, <<o, p>>) :
     times \in {<<3>>, <<3, 10>>, <<2, 9, 12>>},
     types \in {<<2>>, <<2, 1>>, <<2, 2, 1>>, <<2, 1, 2>>},
     o \in {-1, 0}, p \in {0, 1, 2}}
Whole == {Record("ok", <<5>>, <<2>>, <<-2, 2>>)}
Faulty == {Record("truncated", << >>, << >>, << >>),
           Record("ok", <<4, 4>>, <<2, 1>>, <<0, 1>>),
           Record("ok", <<4>>, <<3>>, <<0, 1>>),
           Record("ok", <<4>>, <<2>>, <<0, 5>>),
           Record("ok", <<1, 2, 3, 4>>, <<2, 1, 2, 1>>, <<0, 1>>),
           Record("ok", << >>, << >>, << >>)}
(* More changes than the budget, in some windows. *)
Crowded == {Record("ok", <<2, 6, 9>>, <<2, 1, 2>>, <<0, 1>>)}
Good == {r \in Chains : Len(r.times) = Len(r.types)} \cup Whole \cup Crowded
Plain == Record("ok", << >>, << >>, <<1>>)

SmallRecordSets ==
  {[z \in {"here", "there"} |-> IF z = "here" THEN r ELSE Plain] :
     r \in Good}
  \cup {[z \in {"here", "there"} |-> IF z = "here" THEN Plain ELSE r] :
     r \in Faulty}

Weekly(time, weekdays, zone) == WeeklySchedule(time, weekdays, zone, 1)
SmallAlarmSets ==
  {<<WeeklyAlarm(1, TRUE, Weekly(time, days, "here")),
     WeeklyAlarm(1, enabled, Weekly(1, {1}, "there"))>> :
     time \in {0, 3}, days \in {{0, 2}}, enabled \in BOOLEAN}
=============================================================================
