------------------------ MODULE InvalidTimeRecovery ------------------------
(***************************************************************************)
(* reconcile_after_time_valid (invalid_time_recovery.cpp) between its load *)
(* and its save: which committed occurrences wall time crossed while it    *)
(* was invalid, and the one batch of journal changes that settles them.    *)
(***************************************************************************)
EXTENDS AlarmEngine, SequencesExt

(* The enabled alarms of a schedule whose instant has passed and whose     *)
(* occurrence has no durable outcome yet.                                  *)
Crossed(s, defs, wall) ==
  {id \in DOMAIN defs :
     /\ defs[id] # None
     /\ defs[id].enabled
     /\ defs[id].scheduled <= wall
     /\ ~IsTerminal(s, MakeOccurrenceId(id, defs[id]))
     /\ ~AtOrBelowWatermark(s, id, defs[id].scheduled)}

(* The order in which alarms are classified: scheduled instant, then id.   *)
Before(defs, a, b) ==
  \/ defs[a].scheduled < defs[b].scheduled
  \/ defs[a].scheduled = defs[b].scheduled /\ a < b

InScheduleOrder(defs, ids) ==
  CHOOSE order \in [1 .. Cardinality(ids) -> ids] :
    \A i, j \in DOMAIN order : i < j => Before(defs, order[i], order[j])

NewestOf(defs, ids) ==
  CHOOSE a \in ids : \A b \in ids \ {a} : Before(defs, b, a)

(* The older occurrences, and the newest when it is past the grace, become *)
(* Missed; appending them one by one and trimming each time leaves the     *)
(* last Retention records of the grown list.                               *)
JournalMissed(s, defs, missed) ==
  LET order == InScheduleOrder(defs, missed)
      grown == s.terminal \o
                 [i \in 1 .. Len(order) |->
                    [occurrence_id |-> MakeOccurrenceId(order[i],
                                                        defs[order[i]]),
                     reason |-> "invalid_time"]]
      extra == Len(grown) - Retention
  IN  State(s.active,
            IF extra > 0 THEN SubSeq(grown, extra + 1, Len(grown)) ELSE grown,
            [a \in AlarmIds |-> IF a \in missed THEN defs[a].scheduled
                                               ELSE s.watermarks[a]])

(* The occurrences of a set of alarms. *)
MissedIds(defs, missed) == {MakeOccurrenceId(a, defs[a]) : a \in missed}

(* The status, and the state to commit when the status is "batch". *)
Reconciliation(s, defs, wall, mono) ==
  LET crossed == Crossed(s, defs, wall)
      newest  == NewestOf(defs, crossed)
      rings   == wall - defs[newest].scheduled <= Grace
      missed  == IF rings THEN crossed \ {newest} ELSE crossed
      journal == JournalMissed(s, defs, missed)
      refuse(status) ==
        [status |-> status, state |-> s, ringing |-> None, missed |-> {}]
  IN  IF s.active # None  THEN refuse("active_conflict")
      ELSE IF crossed = {} THEN refuse("nothing_crossed")
      ELSE IF ~ElapsedOk(wall, defs[newest].scheduled)
                           THEN refuse("invalid_time")
      ELSE IF \/ Cardinality(Tracked(s) \cup missed) > Capacity
              \/ rings /\ ~CanBeginRecoveredRing(journal, newest)
                           THEN refuse("journal_capacity")
      ELSE [status |-> "batch",
            state  |-> IF rings
                       THEN BeginRecoveredRing(journal, newest,
                              MakeOccurrenceId(newest, defs[newest]),
                              defs[newest].scheduled, wall, mono)
                       ELSE journal,
            ringing |-> IF rings THEN newest ELSE None,
            missed |-> missed]
=============================================================================
