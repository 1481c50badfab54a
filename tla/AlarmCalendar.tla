---------------------------- MODULE AlarmCalendar ----------------------------
(***************************************************************************)
(* From pinned timezone records to rings: the rules of a window are built, *)
(* the committed weekly alarms are materialized into their next instants   *)
(* (schedule_materializer.cpp), time passes, and an alarm that rang is     *)
(* planned again.  The repository has the three operations and no loop     *)
(* around them yet; the loop here is the one their headers describe.       *)
(***************************************************************************)
EXTENDS TzifRules

CONSTANTS
  Zones,         \* zone names
  Version,       \* the pinned version of the rules
  RecordSets,    \* the sets of records a device may be given, by zone
  AlarmSets,     \* the committed weekly alarms, as sequences
  Span,          \* length of a window
  MaxNow,        \* bound: instants are 0 .. MaxNow
  FoldStarts     \* whether a window may start while local time repeats

ASSUME CalendarConstants ==
  /\ Span \in Nat /\ MaxNow \in Nat /\ FoldStarts \in BOOLEAN
  /\ \A records \in RecordSets : DOMAIN records = Zones
  /\ \A defs \in AlarmSets : Len(defs) \in Nat /\ DOMAIN defs = 1 .. Len(defs)

(* Bytes that are framed hold a type for every transition, and instants up *)
(* to the cutoff and from two days before the first one fit into 64 bits.  *)
ASSUME RecordsAreRead ==
  /\ \A records \in RecordSets, z \in Zones :
       /\ records[z].times \in Seq(Int) /\ records[z].types \in Seq(Nat)
       /\ records[z].offsets \in Seq(Int)
       /\ records[z].framing = "ok" =>
            Len(records[z].types) = Len(records[z].times)
  /\ 2 * DayLength <= MaxInstant /\ Cutoff + DayLength <= MaxInstant

VARIABLES
  records,   \* the pinned records, by zone
  alarms,    \* WeeklyAlarmDefinitions, in order
  built,     \* the rules of the current window, with its limits, or None
  plan,      \* the last materialization, with its instant, or None
  now,       \* the instant
  rang       \* history: the date and instant each alarm rang last, or None

calendarVars == <<records, alarms, built, plan, now, rang>>

WeeklyAlarm(revision, enabled, schedule) ==
  [revision |-> revision, enabled |-> enabled, schedule |-> schedule]

-----------------------------------------------------------------------------
(* find_matching_rules *)
Matching(zones, schedule) == {rules \in zones : Named(schedule, rules)}

(* What becomes of one alarm; a disabled one keeps its place. *)
Materialized(alarm, zones, after) ==
  IF alarm.revision = 0 THEN Unresolved("invalid_input")
  ELSE IF ~alarm.enabled THEN [status |-> "disabled", scheduled |-> 0]
  ELSE IF Matching(zones, alarm.schedule) = {}
  THEN Unresolved("missing_timezone_rules")
  ELSE Resolve(alarm.schedule,
               CHOOSE rules \in Matching(zones, alarm.schedule) : TRUE, after)

(* map_status *)
FailureStatus(status) ==
  IF status = "no_occurrence" THEN "invalid_schedule" ELSE status

(* Mutant: the alarms that do not fail are kept. *)
KeptAlarms(failed, entries) ==
  SelectSeq(entries, LAMBDA e : e.entry.status \in {"resolved", "disabled"})

(* One failure leaves no alarm. *)
WholeOrNothing(failed, entries) == IF failed # {} THEN << >> ELSE entries

(* materialize_next_schedule_entries: every alarm or none, by instant and  *)
(* then by id; of several failures the last one names the status.          *)
Materialize(defs, zones, after) ==
  LET entry(id) == Materialized(defs[id], zones, after)
      failed == {id \in DOMAIN defs :
                   entry(id).status \notin {"resolved", "disabled"}}
      at(id) == IF id \in failed THEN 0 ELSE entry(id).scheduled
      place(id) == Cardinality({other \in DOMAIN defs :
                     \/ at(other) < at(id)
                     \/ at(other) = at(id) /\ other <= id})
      all == [k \in DOMAIN defs |->
                LET id == CHOOSE id \in DOMAIN defs : place(id) = k
                IN  [id |-> id, entry |-> entry(id)]]
  IN  [status |-> IF failed = {} THEN "materialized"
                  ELSE FailureStatus(entry(Max(failed)).status),
       alarms |-> WholeOrNothing(failed, all)]

-----------------------------------------------------------------------------
(* Local time by the records themselves, as a walk along the instants.     *)
LocalAt(record, instant) ==
  instant + OffsetAfter(record,
              Cardinality({i \in DOMAIN record.times :
                             record.times[i] <= instant}))

(* An earlier instant already showed a later local time. *)
Repeats(record, instant) ==
  \E u \in instant - 2 * DayLength .. instant - 1 :
    LocalAt(record, u) > LocalAt(record, instant)

Parsed == {z \in Zones : ParseStatus(records[z]) = "ok"}

CalendarInit ==
  /\ records \in RecordSets
  /\ alarms \in AlarmSets
  /\ built = None /\ plan = None /\ now = 0
  /\ rang = [id \in DOMAIN alarms |-> None]

(* A window is built that starts now or a day earlier; what was planned by *)
(* other rules is dropped.                                                 *)
Build(from) ==
  /\ FoldStarts \/ \A z \in Parsed : ~Repeats(records[z], from)
  /\ built' = [rules |-> BuildRules(records, Version, from, from + Span),
               until |-> from + Span]
  /\ built' # built
  /\ plan' = None
  /\ UNCHANGED <<records, alarms, now, rang>>

Plan ==
  /\ built # None /\ plan = None
  /\ plan' = [after |-> now, result |-> Materialize(alarms, built.rules.zones, now)]
  /\ UNCHANGED <<records, alarms, built, now, rang>>

Pass ==
  /\ now < MaxNow /\ now' = now + 1
  /\ UNCHANGED <<records, alarms, built, plan, rang>>

(* A planned instant comes, inside the window the plan was made for. *)
Ring(k) ==
  LET e == plan.result.alarms[k] IN
  /\ e.entry.status = "resolved"
  /\ e.entry.scheduled <= now /\ e.entry.scheduled <= built.until
  /\ rang' = [rang EXCEPT ![e.id] =
                 [date |-> e.entry.date, at |-> e.entry.scheduled]]
  /\ plan' = None
  /\ UNCHANGED <<records, alarms, built, now>>

CalendarNext ==
  \/ \E from \in {now - DayLength, now} : Build(from)
  \/ Plan \/ Pass
  \/ plan # None /\ \E k \in DOMAIN plan.result.alarms : Ring(k)

-----------------------------------------------------------------------------
CalendarTypeOK ==
  /\ records \in RecordSets /\ alarms \in AlarmSets /\ now \in 0 .. MaxNow
  /\ built # None => \A rules \in built.rules.zones : ValidChain(rules)
  /\ plan # None => plan.after \in 0 .. now
  /\ rang \in [DOMAIN alarms -> [date : Int, at : Int] \cup {None}]

(* The reference: a day's alarm comes at the first instant at which local  *)
(* time, for the first time ever, shows its time or a later one of its day.*)
Instants == -2 * DayLength .. MaxNow + (2 * WeekLength + 2) * DayLength
Wanted(schedule, day) == StartOf(day) + schedule.time
Comes(record, schedule, t) ==
  LET day == DayOf(LocalAt(record, t)) IN
  /\ Weekday(day) \in schedule.weekdays
  /\ LocalAt(record, t) >= Wanted(schedule, day)
  /\ \A u \in Instants : u < t => LocalAt(record, u) < Wanted(schedule, day)

Records == {r[z] : r \in RecordSets, z \in Zones}
Schedules == {a.schedule : a \in UNION {ToSet(defs) : defs \in AlarmSets}}
Calendar ==
  [r \in {r \in Records : ParseStatus(r) = "ok"}, s \in Schedules |->
     {t \in Instants : Comes(r, s, t)}]

(* How far the rules of a window are those of the records. *)
KnownUntil == Min({built.until, Cutoff - 1})

IsFirst(e, schedule, after) ==
  LET record == records[schedule.zone]
      first  == Min({t \in Calendar[record, schedule] : t > after})
      wanted == Wanted(schedule, DayOf(LocalAt(record, first)))
  IN  first <= KnownUntil =>
        /\ e.scheduled = first
        /\ e.date = DayOf(LocalAt(record, first))
        /\ e.shifted = (LocalAt(record, first) # wanted)
        /\ first + 2 * DayLength <= KnownUntil =>
             e.ambiguous = \E u \in Instants : u > first /\ LocalAt(record, u) = wanted

(* What is planned is the first ring after the plan was made: skipped      *)
(* times move to the end of the gap, times that come twice ring at the     *)
(* first pass, skipped days do not ring (alarm-semantics.md, recurrence),  *)
(* although the resolver sees a window of offset changes and no clock.     *)
NextIsFirst ==
  [][plan' # plan /\ plan' # None =>
       \A k \in DOMAIN plan'.result.alarms :
         LET e == plan'.result.alarms[k] IN
         e.entry.status = "resolved" =>
           IsFirst(e.entry, alarms[e.id].schedule, plan'.after)]_calendarVars

(* One date of the alarm's calendar rings once, whatever its offsets do    *)
(* and however often the window is built anew.                             *)
OneRingPerDate ==
  [][\A id \in DOMAIN alarms :
       rang'[id] # rang[id] /\ rang[id] # None
         => rang'[id].date > rang[id].date]_calendarVars

(* A plan holds every alarm or none, and it fails only for an enabled      *)
(* alarm whose zone the records do not provide: chains that the adapter    *)
(* builds are valid for the resolver, and two weeks hold an occurrence.    *)
PlanIsWhole ==
  plan # None =>
    LET provided == IF built.rules.exceeded THEN {} ELSE Parsed
        ready == \A id \in DOMAIN alarms :
                   /\ alarms[id].revision # 0
                   /\ alarms[id].enabled =>
                        alarms[id].schedule.zone \in provided
    IN  /\ ready <=> plan.result.status = "materialized"
        /\ Len(plan.result.alarms) = IF ready THEN Len(alarms) ELSE 0
=============================================================================
