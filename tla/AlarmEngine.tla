---------------------------- MODULE AlarmEngine ----------------------------
(***************************************************************************)
(* The occurrence engine of alarm_core (alarm_engine.cpp): pure functions  *)
(* from the persisted occurrence state to the next one and to the effects  *)
(* the caller may show once that state is committed.                       *)
(*                                                                         *)
(* An occurrence identity is the triple the source concatenates into a     *)
(* string: alarm id, schedule revision, scheduled instant.  An int64       *)
(* second is an integer; TimeMax is the largest one, at which the checked  *)
(* additions of the source refuse.                                         *)
(***************************************************************************)
EXTENDS Integers, Sequences, FiniteSets

CONSTANTS
  AlarmIds,            \* alarm ids, numbered in their string order
  None,                \* an empty std::optional, or an empty string
  Grace,               \* kLateGraceSeconds
  MinSnooze,           \* kMinimumSnoozeSeconds
  MaxSnooze,           \* kMaximumSnoozeSeconds
  Lifetime,            \* kOccurrenceLifetimeSeconds
  MaxSnoozes,          \* kMaximumSnoozes
  Retention,           \* kRecentTerminalRetention
  Capacity,            \* kTerminalHighWatermarkCapacity
  TimeMax              \* std::numeric_limits<std::int64_t>::max()

ASSUME EngineConstants ==
  /\ AlarmIds \subseteq Nat /\ IsFiniteSet(AlarmIds)
  /\ None \notin Int
  /\ Grace \in Nat
  /\ MinSnooze \in Nat \ {0} /\ MaxSnooze \in Nat /\ MinSnooze <= MaxSnooze
  /\ Lifetime \in Nat \ {0}
  /\ MaxSnoozes \in Nat
  /\ Retention \in Nat \ {0}
  /\ Capacity \in Nat \ {0}
  /\ TimeMax \in Nat /\ Lifetime <= TimeMax

Reasons == {"dismissed", "alarm_disabled", "timed_out", "forward_jump",
            "invalid_time", "prolonged_power_off"}

Statuses == {"disabled", "armed", "ringing", "snoozed", "dismissed",
             "timed_out", "missed", "invalid_time", "duplicate", "conflict",
             "invalid_request", "snooze_limit_reached"}

(* make_occurrence_id: the fields that identify an occurrence. *)
OccurrenceId(id, revision, scheduled) ==
  [alarm |-> id, revision |-> revision, scheduled |-> scheduled]

OccurrenceIds ==
  [alarm : AlarmIds, revision : Nat \ {0}, scheduled : Int]

(* AlarmDefinition of an alarm id. *)
AlarmDefinitions ==
  [schedule_revision : Nat \ {0}, enabled : BOOLEAN, scheduled : Int]

(* Mutant: the instant and the revision are exchanged. *)
MakeOccurrenceIdSwapped(id, def) ==
  OccurrenceId(id, def.scheduled, def.schedule_revision)

MakeOccurrenceId(id, def) ==
  OccurrenceId(id, def.schedule_revision, def.scheduled)

ActiveOccurrences ==
  [alarm_id : AlarmIds, occurrence_id : OccurrenceIds, scheduled : Int,
   first_ring_utc : Int, first_ring_mono : Int,
   snooze_deadline : Int \cup {None}, snooze_count : Nat,
   recovered : BOOLEAN, last_recovery_boot : Nat \cup {None}]

ASSUME NoneIsNoOccurrence == None \notin ActiveOccurrences
ASSUME NoneIsNoIdentity == None \notin OccurrenceIds

(* PersistentAlarmState: the active occurrence, the recent terminal        *)
(* records, and the terminal watermarks.  The watermark vector holds one   *)
(* entry per alarm id; it is a function whose value None means no entry.   *)
State(active, terminal, watermarks) ==
  [active |-> active, terminal |-> terminal, watermarks |-> watermarks]

EmptyState == State(None, << >>, [a \in AlarmIds |-> None])

TerminalRecords == [occurrence_id : OccurrenceIds, reason : Reasons]

Tracked(s) == {a \in AlarmIds : s.watermarks[a] # None}

TerminalIds(s) ==
  {s.terminal[i].occurrence_id : i \in DOMAIN s.terminal}

(* validate_snapshot, as far as the occurrence state goes: what the store  *)
(* agrees to write.  Ids and bounded strings are data.                     *)
SavableState(s) ==
  /\ Len(s.terminal) <= Retention
  /\ Cardinality(Tracked(s)) <= Capacity
  /\ Cardinality(TerminalIds(s)) = Len(s.terminal)
  /\ s.active # None =>
       /\ s.active.occurrence_id \notin TerminalIds(s)
       /\ s.active.snooze_count <= MaxSnoozes
       /\ s.active.snooze_deadline # None =>
            s.active.snooze_deadline >= s.active.first_ring_mono

(* The same state with another active occurrence. *)
WithActive(s, active) == State(active, s.terminal, s.watermarks)

CanTrackTerminal(s, id) ==
  id \in Tracked(s) \/ Cardinality(Tracked(s)) < Capacity

(* Mutant: the instant at the watermark itself is let through. *)
BelowWatermark(s, id, scheduled) ==
  s.watermarks[id] # None /\ scheduled < s.watermarks[id]

AtOrBelowWatermark(s, id, scheduled) ==
  s.watermarks[id] # None /\ scheduled <= s.watermarks[id]

IsTerminal(s, occ) == occ \in TerminalIds(s)

(* checked_elapsed succeeds, checked_add succeeds. *)
ElapsedOk(now, start) == now >= start /\ now - start <= TimeMax
SumOk(left, right)    == left + right <= TimeMax

(* Mutant: the watermark is set one past the instant that ended. *)
RaiseWatermarkPast(wm, id, scheduled) ==
  IF wm[id] = None \/ scheduled >= wm[id]
  THEN [wm EXCEPT ![id] = scheduled + 1]
  ELSE wm

RaiseWatermark(wm, id, scheduled) ==
  IF wm[id] = None \/ scheduled > wm[id]
  THEN [wm EXCEPT ![id] = scheduled]
  ELSE wm

(* Mutant: the oldest records are not dropped. *)
AppendWithoutTrim(list, occ, reason) ==
  IF \E i \in DOMAIN list : list[i].occurrence_id = occ THEN list
  ELSE Append(list, [occurrence_id |-> occ, reason |-> reason])

(* append_terminal: ignore an occurrence already listed, otherwise append  *)
(* and drop the oldest records beyond the retention.                       *)
AppendTerminal(list, occ, reason) ==
  LET grown == Append(list, [occurrence_id |-> occ, reason |-> reason])
      extra == Len(grown) - Retention
  IN  IF \E i \in DOMAIN list : list[i].occurrence_id = occ THEN list
      ELSE IF extra > 0 THEN SubSeq(grown, extra + 1, Len(grown))
      ELSE grown

(* record_terminal_high_watermark followed by append_terminal. *)
JournalTerminal(s, id, occ, scheduled, reason) ==
  State(s.active, AppendTerminal(s.terminal, occ, reason),
        RaiseWatermark(s.watermarks, id, scheduled))

(* Mutants: an occurrence ends without its watermark, or without a trace. *)
EndWithoutWatermark(s, reason) ==
  State(None, AppendTerminal(s.terminal, s.active.occurrence_id, reason),
        s.watermarks)
EndWithoutTrace(s, reason) == WithActive(s, None)

(* The active occurrence ends with a reason. *)
EndActive(s, reason) ==
  WithActive(JournalTerminal(s, s.active.alarm_id, s.active.occurrence_id,
                             s.active.scheduled, reason), None)

FreshActive(id, occ, scheduled, wall, mono) ==
  [alarm_id |-> id, occurrence_id |-> occ, scheduled |-> scheduled,
   first_ring_utc |-> wall, first_ring_mono |-> mono,
   snooze_deadline |-> None, snooze_count |-> 0,
   recovered |-> FALSE, last_recovery_boot |-> None]

(* EvaluationResult, with the state the call left behind.  A call that     *)
(* reports no effect and needs no commit left the state alone.             *)
Result(s, status, start, stop) ==
  [state |-> s, status |-> status, start |-> start, stop |-> stop,
   persist |-> TRUE]
NoChange(s, status) ==
  [state |-> s, status |-> status, start |-> FALSE, stop |-> FALSE,
   persist |-> FALSE]

EvaluateDue(s, id, def, wall, mono, valid) ==
  LET occ == MakeOccurrenceId(id, def) IN
  IF ~def.enabled                 THEN NoChange(s, "disabled")
  ELSE IF ~valid                  THEN NoChange(s, "invalid_time")
  ELSE IF wall < def.scheduled    THEN NoChange(s, "armed")
  ELSE IF s.active # None /\ s.active.occurrence_id # occ
                                  THEN NoChange(s, "conflict")
  ELSE IF \/ s.active # None
          \/ IsTerminal(s, occ)
          \/ AtOrBelowWatermark(s, id, def.scheduled)
                                  THEN NoChange(s, "duplicate")
  ELSE IF ~CanTrackTerminal(s, id) THEN NoChange(s, "conflict")
  ELSE IF ~ElapsedOk(wall, def.scheduled)
                                  THEN NoChange(s, "invalid_time")
  ELSE IF wall - def.scheduled > Grace
  THEN Result(JournalTerminal(s, id, occ, def.scheduled, "forward_jump"),
              "missed", FALSE, FALSE)
  ELSE Result(WithActive(s, FreshActive(id, occ, def.scheduled, wall, mono)),
              "ringing", TRUE, FALSE)

RequestSnooze(s, occ, mono, duration) ==
  IF s.active = None \/ s.active.occurrence_id # occ
                                        THEN NoChange(s, "conflict")
  ELSE IF s.active.snooze_deadline # None
                                        THEN NoChange(s, "conflict")
  ELSE IF duration \notin MinSnooze .. MaxSnooze
                                        THEN NoChange(s, "invalid_request")
  ELSE IF s.active.snooze_count >= MaxSnoozes
                                        THEN NoChange(s, "snooze_limit_reached")
  ELSE IF mono < s.active.first_ring_mono \/ ~SumOk(mono, duration)
                                        THEN NoChange(s, "invalid_time")
  ELSE Result(WithActive(s, [s.active EXCEPT
                               !.snooze_count = @ + 1,
                               !.snooze_deadline = mono + duration]),
              "snoozed", FALSE, TRUE)

AdvanceActive(s, mono) ==
  IF s.active = None                    THEN NoChange(s, "armed")
  ELSE IF ~ElapsedOk(mono, s.active.first_ring_mono)
                                        THEN NoChange(s, "invalid_time")
  ELSE IF mono - s.active.first_ring_mono >= Lifetime
  THEN Result(EndActive(s, "timed_out"), "timed_out", FALSE, TRUE)
  ELSE IF s.active.snooze_deadline = None THEN NoChange(s, "ringing")
  ELSE IF mono < s.active.snooze_deadline THEN NoChange(s, "snoozed")
  ELSE Result(WithActive(s, [s.active EXCEPT !.snooze_deadline = None]),
              "ringing", TRUE, FALSE)

DismissActive(s, occ, disabled) ==
  IF s.active = None \/ s.active.occurrence_id # occ
  THEN NoChange(s, "conflict")
  ELSE Result(EndActive(s, IF disabled THEN "alarm_disabled"
                                       ELSE "dismissed"),
              "dismissed", FALSE, TRUE)

(* Mutant: a recovery keeps the snooze. *)
ResumedSnoozed(active, boot) ==
  [active EXCEPT !.recovered = TRUE, !.last_recovery_boot = boot]

(* A recovered occurrence rings again, whatever was left of its snooze.    *)
Resumed(active, boot) ==
  [active EXCEPT !.snooze_deadline = None, !.recovered = TRUE,
                 !.last_recovery_boot = boot]

RecoverAfterReboot(s, wall, boot) ==
  IF s.active = None                    THEN NoChange(s, "armed")
  ELSE IF s.active.last_recovery_boot = boot
                                        THEN NoChange(s, "duplicate")
  ELSE IF ~ElapsedOk(wall, s.active.first_ring_utc)
                                        THEN NoChange(s, "invalid_time")
  ELSE IF wall - s.active.first_ring_utc >= Lifetime
  THEN Result(EndActive(s, "prolonged_power_off"), "missed", FALSE, FALSE)
  ELSE Result(WithActive(s, Resumed(s.active, boot)), "ringing", TRUE, FALSE)

(* Mutant: the anchor stays in the clock of the boot that is over. *)
NotReanchored(s, wall, mono) == s

(* What the coordinator adds to a recovery: the anchor of the lifetime is  *)
(* moved into the monotonic domain of the new boot.                        *)
Reanchored(s, wall, mono) ==
  IF s.active = None THEN s
  ELSE WithActive(s, [s.active EXCEPT
         !.first_ring_mono = mono - (wall - s.active.first_ring_utc)])

(* begin_recovered_ring, when it does not refuse. *)
CanBeginRecoveredRing(s, id) == s.active = None /\ CanTrackTerminal(s, id)
(* Mutant: the recovered occurrence is left without its alarm's id. *)
BeginRecoveredUnnamed(s, id, occ, scheduled, wall, mono) ==
  WithActive(s, FreshActive(None, occ, scheduled, wall, mono))

BeginRecoveredRing(s, id, occ, scheduled, wall, mono) ==
  WithActive(s, FreshActive(id, occ, scheduled, wall, mono))
=============================================================================
