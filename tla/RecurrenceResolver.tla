------------------------- MODULE RecurrenceResolver -------------------------
(***************************************************************************)
(* resolve_next_occurrence (recurrence_resolver.cpp): the next instant of  *)
(* a weekly alarm under a chain of UTC offset transitions.  Local time is  *)
(* an instant plus an offset, a date is the number of a day, and a name or *)
(* a version of rules is an atom.                                          *)
(***************************************************************************)
EXTENDS Integers, FiniteSets, SequencesExt

CONSTANTS
  None,
  DayLength,    \* kSecondsPerDay
  WeekLength,   \* days of a week
  MaxInstant,   \* the largest 64-bit instant
  LastDate      \* dates beyond -LastDate .. LastDate have no int year

ASSUME ResolverConstants ==
  /\ DayLength \in Nat \ {0} /\ WeekLength \in Nat \ {0}
  /\ MaxInstant \in Nat /\ LastDate \in Nat

Representable(n) == n \in -MaxInstant - 1 .. MaxInstant

(* valid_utc_offset *)
Offsets == -DayLength .. DayLength

(* TimezoneRules and WeeklyAlarmSchedule; a time is seconds of the day.    *)
Transition(at, before, after) == [at |-> at, before |-> before, after |-> after]
Rules(name, version, initial, transitions) ==
  [name |-> name, version |-> version, initial |-> initial,
   transitions |-> transitions]
WeeklySchedule(time, weekdays, zone, version) ==
  [time |-> time, weekdays |-> weekdays, zone |-> zone, version |-> version]

DayOf(local)  == local \div DayLength
StartOf(day)  == day * DayLength
Weekday(day)  == (day + 3) % WeekLength

(* The offset after the last transition at or before an instant. *)
OffsetAt(rules, instant) ==
  LET passed == {i \in DOMAIN rules.transitions :
                   rules.transitions[i].at <= instant}
  IN  IF passed = {} THEN rules.initial
      ELSE rules.transitions[Max(passed)].after

(* has_valid_transition_chain: in order, each from the offset before it,   *)
(* representable and a change.                                             *)
ValidChain(rules) ==
  LET chain == rules.transitions
      before(i) == IF i = 1 THEN rules.initial ELSE chain[i - 1].after
  IN  /\ rules.initial \in Offsets
      /\ \A i \in DOMAIN chain :
           /\ i > 1 => chain[i - 1].at < chain[i].at
           /\ chain[i].before = before(i)
           /\ chain[i].after \in Offsets \ {chain[i].before}
           /\ Representable(chain[i].at + chain[i].before)
           /\ Representable(chain[i].at + chain[i].after)

-----------------------------------------------------------------------------
(* The local times a transition skips. *)
Skips(transition, local) ==
  /\ transition.at + transition.before <= local
  /\ local < transition.at + transition.after

(* The instants at which the clocks of a zone show a local time. *)
Passes(rules, local) ==
  LET offsets == {rules.initial} \cup
                   {t.after : t \in ToSet(rules.transitions)}
  IN  {u \in {local - o : o \in offsets} :
         Representable(u) /\ OffsetAt(rules, u) = local - u}

(* Mutant: a local time that comes twice is taken at its last pass. *)
LatestPass(rules, local) == Max(Passes(rules, local))

(* A local time that comes twice is taken at its first pass. *)
FirstPass(rules, local) == Min(Passes(rules, local))

(* map_local: a skipped time moves to the end of its gap, any other to its *)
(* first pass.                                                             *)
MapLocal(rules, local) ==
  LET gaps == {i \in DOMAIN rules.transitions :
                 Skips(rules.transitions[i], local)}
      gap  == rules.transitions[Min(gaps)]
  IN  IF gaps # {}
      THEN [utc |-> gap.at, local |-> gap.at + gap.after, shifted |-> TRUE,
            ambiguous |-> FALSE]
      ELSE IF Passes(rules, local) = {} THEN None
      ELSE [utc |-> FirstPass(rules, local), local |-> local,
            shifted |-> FALSE,
            ambiguous |-> Cardinality(Passes(rules, local)) > 1]

(* Mutant: the instant of the call itself counts as still to come. *)
NotEarlier(mapping, after) == mapping.utc >= after

(* Only an instant after the call is still to come. *)
StillToCome(mapping, after) == mapping.utc > after

(* A mapping is an occurrence of its day if it is still to come and, when  *)
(* moved, was not moved into another day.                                  *)
RingsOn(day, mapping, after) ==
  /\ mapping # None
  /\ StillToCome(mapping, after)
  /\ mapping.shifted => DayOf(mapping.local) = day

Named(schedule, rules) ==
  schedule.zone = rules.name /\ schedule.version = rules.version

ValidSchedule(schedule) ==
  /\ schedule.time \in 0 .. DayLength - 1
  /\ schedule.weekdays # {}
  /\ schedule.weekdays \subseteq 0 .. WeekLength - 1

Unresolved(status) == [status |-> status]

(* The days of two weeks are tried in order: the first that rings is the   *)
(* next occurrence, unless a day whose instants are out of range comes     *)
(* before it.                                                              *)
SearchDays(schedule, rules, after, first) ==
  LET Wanted(day) == StartOf(day) + schedule.time
      Mapping(day) == MapLocal(rules, Wanted(day))
      OutOfRange(day) == ~Representable(StartOf(day)) \/ ~Representable(Wanted(day))
      stops == {day \in first .. first + 2 * WeekLength :
                  /\ Weekday(day) \in schedule.weekdays
                  /\ OutOfRange(day) \/ RingsOn(day, Mapping(day), after)}
      day == Min(stops)
  IN  IF stops = {} THEN Unresolved("no_occurrence")
      ELSE IF OutOfRange(day) \/ day \notin -LastDate .. LastDate
      THEN Unresolved("out_of_range")
      ELSE [status |-> "resolved", scheduled |-> Mapping(day).utc,
            date |-> day, shifted |-> Mapping(day).shifted,
            ambiguous |-> Mapping(day).ambiguous]

Resolve(schedule, rules, after) ==
  LET anchor == after + OffsetAt(rules, after) IN
  IF ~ValidSchedule(schedule) THEN Unresolved("invalid_schedule")
  ELSE IF ~Named(schedule, rules) \/ ~ValidChain(rules)
  THEN Unresolved("invalid_rules")
  ELSE IF after = MaxInstant \/ ~Representable(anchor)
  THEN Unresolved("out_of_range")
  ELSE SearchDays(schedule, rules, after, DayOf(anchor))
=============================================================================
