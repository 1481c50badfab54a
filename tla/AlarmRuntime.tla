---------------------------- MODULE AlarmRuntime ----------------------------
(***************************************************************************)
(* The runtime coordinator's tick, the committed evaluator, invalid-time   *)
(* reconciliation and the confirmed disable, each split at its loads and   *)
(* compare-and-set saves, over one committed record that schedule saves,   *)
(* the controls, storage failures and reboots change between those steps.  *)
(* ScheduleStore models how that record is kept in two slots.              *)
(***************************************************************************)
EXTENDS InvalidTimeRecovery

CONSTANTS
  MaxWall,       \* bound: wall instants are 0 .. MaxWall
  MaxMono,       \* bound: uptime of one boot
  MaxBoots,      \* bound: boot sessions
  MaxRevision,   \* bound: committed schedule revisions
  MaxFailures,   \* bound: storage calls that fail
  Failures,      \* the kinds of failure a storage call may meet
  Corrections,   \* whether wall time may be corrected or lost
  Concurrent,    \* whether other tasks run between the steps of a tick
  InitialDefs,   \* the schedules a run starts from
  SavedAlarms    \* the alarms that schedule commits replace or remove

FailureKinds == {"busy", "unverified", "fault_old", "fault_new"}

ASSUME RuntimeConstants ==
  /\ MaxWall \in Nat /\ MaxMono \in Nat /\ MaxFailures \in Nat
  /\ MaxBoots \in Nat \ {0} /\ MaxRevision \in Nat \ {0}
  /\ Failures \subseteq FailureKinds
  /\ Corrections \in BOOLEAN /\ Concurrent \in BOOLEAN
  /\ SavedAlarms \subseteq AlarmIds

VARIABLES
  disk,      \* the committed record: revision, defs, occ, generation
  fault,     \* a failed write has made the partition unavailable
  failures,  \* storage failures so far
  clock,     \* wall, mono, valid, boot, and the wall instant of the last
             \* power loss (kept only while wall time is not corrected)
  coord,     \* RuntimeCoordinatorState: handled boot, reconciliation_pending
  tick,      \* the locals of run_runtime_tick
  report,    \* the status of the last tick, until something else happens
  disable,   \* the locals of disable_committed_alarm
  alert,     \* the occurrence the alert sounds for, as edges were applied
  ended      \* history: occurrences that got a durable outcome

vars == <<disk, fault, failures, clock, coord, tick, report, disable, alert,
          ended>>
storage == <<disk, fault, failures, ended>>

DefinitionsAt(r) ==
  [schedule_revision : 1 .. r, enabled : BOOLEAN, scheduled : 0 .. MaxWall]

(* validate_snapshot bounds an alarm's revision by the snapshot's.         *)
ASSUME InitialSchedules ==
  InitialDefs \subseteq [AlarmIds -> DefinitionsAt(1) \cup {None}]

(* A transition waiting for its commit: the next state, the edge it allows *)
(* ("start", "stop" or "none"), its occurrence, and the outcomes it adds.  *)
Transition(occ, edge, who, outcomes) ==
  [occ |-> occ, edge |-> edge, who |-> who, outcomes |-> outcomes]

NoTransition == Transition(None, "none", None, {})

IdleTick == [pc |-> "idle", revision |-> 0, generation |-> 0,
             queue |-> << >>, defs |-> None, next |-> NoTransition,
             edges |-> << >>]

IdleDisable == [pc |-> "idle", id |-> None, revision |-> 0, generation |-> 0,
                defs |-> None, next |-> NoTransition]

Init ==
  /\ disk \in [revision : {1}, defs : InitialDefs, occ : {EmptyState},
               generation : {1}]
  /\ fault = FALSE /\ failures = 0
  /\ clock = [wall |-> 0, mono |-> 0, valid |-> TRUE, boot |-> 1, off |-> 0]
  /\ coord = [handled |-> None, pending |-> FALSE]
  /\ tick = IdleTick /\ report = "none"
  /\ disable = IdleDisable
  /\ alert = None /\ ended = {}

TickIdle == tick.pc = "idle"
DisableIdle == disable.pc = "idle"
TickMayRun == Concurrent \/ DisableIdle
OthersMayRun == Concurrent \/ TickIdle

-----------------------------------------------------------------------------
(* Storage.  Every call that fails reports io_error or verification_failed *)
(* and uses up one failure; once a write has failed no call succeeds until *)
(* the next boot.                                                          *)
LoadFails ==
  \/ fault /\ UNCHANGED failures
  \/ ~fault /\ "busy" \in Failures /\ failures < MaxFailures
            /\ failures' = failures + 1
LoadWorks == ~fault /\ UNCHANGED failures

Land(record, outcomes) ==
  /\ disk' = [record EXCEPT !.generation = @ + 1]
  /\ ended' = ended \cup outcomes

(* The ways a write of the record ends: acknowledged, or one failure kind. *)
WriteRecord(record, outcomes, acknowledged) ==
  \/ /\ acknowledged
     /\ Land(record, outcomes)
     /\ UNCHANGED <<fault, failures>>
  \/ /\ ~acknowledged
     /\ failures < MaxFailures
     /\ failures' = failures + 1
     /\ \/ /\ "unverified" \in Failures
           /\ Land(record, outcomes) /\ UNCHANGED fault
        \/ /\ "fault_new" \in Failures
           /\ Land(record, outcomes) /\ fault' = TRUE
        \/ /\ "fault_old" \in Failures
           /\ fault' = TRUE /\ UNCHANGED <<disk, ended>>
        \/ /\ "busy" \in Failures
           /\ UNCHANGED <<disk, fault, ended>>

(* Mutants: a save that does not compare the generation, or anything.      *)
VerdictOnRevision(occ, revision, generation) ==
  IF disk.revision # revision THEN "conflict"
  ELSE IF ~SavableState(occ) THEN "error"
  ELSE IF disk.occ = occ THEN "unchanged"
  ELSE "write"
VerdictOnValidity(occ, revision, generation) ==
  IF ~SavableState(occ) THEN "error"
  ELSE IF disk.occ = occ THEN "unchanged"
  ELSE "write"

(* save_occurrence_state: a compare-and-set on revision and generation.    *)
JournalVerdict(occ, revision, generation) ==
  IF disk.revision # revision THEN "conflict"
  ELSE IF ~SavableState(occ) THEN "error"
  ELSE IF disk.occ = occ /\ disk.generation \in {generation, generation + 1}
  THEN "unchanged"
  ELSE IF disk.generation # generation THEN "conflict"
  ELSE "write"

SaveOccurrence(next, revision, generation, status) ==
  LET settled == JournalVerdict(next.occ, revision, generation)
  IN  \/ /\ fault /\ status = "error" /\ UNCHANGED storage
      \/ /\ ~fault /\ settled # "write" /\ status = settled
         /\ UNCHANGED storage
      \/ /\ ~fault /\ settled = "write"
         /\ status \in {"stored", "error"}
         /\ WriteRecord([disk EXCEPT !.occ = next.occ], next.outcomes,
                        status = "stored")

(* save: a compare-and-set on the revision alone, which carries the current *)
(* occurrence state forward.                                               *)
SaveDefinitions(defs, expected, status) ==
  LET settled ==
        IF /\ disk.defs = defs
           /\ disk.revision = expected + 1
        THEN "unchanged"
        ELSE IF disk.revision # expected THEN "conflict"
        ELSE "write"
  IN  \/ /\ fault /\ status = "error" /\ UNCHANGED storage
      \/ /\ ~fault /\ settled # "write" /\ status = settled
         /\ UNCHANGED storage
      \/ /\ ~fault /\ settled = "write"
         /\ status \in {"stored", "error"}
         /\ WriteRecord([disk EXCEPT !.defs = defs, !.revision = @ + 1], {},
                        status = "stored")

Committed(status) == status \in {"stored", "unchanged"}

-----------------------------------------------------------------------------
(* The tick.  Steps that only compute run together with the load or save   *)
(* before them; the clock does not move within a tick.                     *)
BootPending == coord.handled # clock.boot

(* Returning from a tick: the caller then applies the edges it was given.  *)
Return(status, edges) ==
  /\ report' = status
  /\ tick' = IF edges = << >> THEN IdleTick
             ELSE [IdleTick EXCEPT !.pc = "expose", !.edges = edges]

Edge(next) == IF next.edge = "none" THEN << >>
              ELSE <<[edge |-> next.edge, who |-> next.who]>>

(* Mutant: the end of a ring or of an occurrence carries no stop edge. *)
ActiveTransitionWithoutStop(s, r) ==
  Transition(r.state, IF r.start THEN "start" ELSE "none",
             s.active.occurrence_id,
             IF r.state.active = None THEN {s.active.occurrence_id} ELSE {})

(* A result of the engine on the active occurrence of s, as a transition.  *)
ActiveTransition(s, r) ==
  Transition(r.state,
             IF r.start THEN "start" ELSE IF r.stop THEN "stop" ELSE "none",
             s.active.occurrence_id,
             IF r.state.active = None THEN {s.active.occurrence_id} ELSE {})

(* An invalid observation freezes the tick and arms the latch. *)
InvalidTick ==
  /\ TickIdle /\ TickMayRun /\ ~clock.valid
  /\ coord' = [coord EXCEPT !.pending = TRUE]
  /\ report' = "frozen"
  /\ UNCHANGED <<storage, clock, tick, disable, alert>>

(* settle_active_occurrence up to its save: recovery on the first valid    *)
(* tick of a boot, with the anchor moved to the new monotonic domain,      *)
(* monotonic advance otherwise.                                            *)
Settlement(s) ==
  LET r == IF BootPending
           THEN RecoverAfterReboot(s, clock.wall, clock.boot)
           ELSE AdvanceActive(s, clock.mono)
  IN  IF BootPending /\ r.status # "invalid_time"
      THEN [r EXCEPT !.state = Reanchored(r.state, clock.wall, clock.mono)]
      ELSE r

(* After the settling stage: the boot is handled, and the tick goes on to  *)
(* reconciliation or to evaluation.                                        *)
Settled(edges) ==
  /\ coord' = [coord EXCEPT !.handled = clock.boot]
  /\ tick' = [IdleTick EXCEPT
                !.pc = IF coord.pending THEN "reconcile" ELSE "evaluate",
                !.edges = edges]
  /\ report' = report

SettleLoad ==
  /\ TickIdle /\ TickMayRun /\ clock.valid
  /\ coord.pending \/ BootPending
  /\ \/ /\ LoadFails
        /\ Return("error", << >>) /\ UNCHANGED coord
     \/ /\ LoadWorks
        /\ LET r == Settlement(disk.occ) IN
           IF disk.occ.active = None THEN Settled(<< >>)
           ELSE IF r.status = "invalid_time"
           THEN Return("frozen", << >>) /\ UNCHANGED coord
           ELSE IF ~r.persist THEN Settled(<< >>)
           ELSE /\ tick' = [IdleTick EXCEPT
                              !.pc = "settle",
                              !.revision = disk.revision,
                              !.generation = disk.generation,
                              !.next = ActiveTransition(disk.occ, r)]
                /\ UNCHANGED <<coord, report>>
  /\ UNCHANGED <<disk, fault, ended, clock, disable, alert>>

SettleSave ==
  /\ tick.pc = "settle"
  /\ \E status \in {"stored", "unchanged", "conflict", "error"} :
       /\ SaveOccurrence(tick.next, tick.revision, tick.generation, status)
       /\ IF Committed(status) THEN Settled(Edge(tick.next))
          ELSE Return(status, << >>) /\ UNCHANGED coord
  /\ UNCHANGED <<clock, disable, alert>>

(* Mutant: finding nothing to reconcile leaves the latch armed. *)
ClearsLatchAfterBatch(status) == status = "batch"

(* reconcile_after_time_valid: only a settled reconciliation clears the    *)
(* latch; a deferred or refused one leaves it armed.                       *)
ClearsLatch(status) == status \in {"batch", "nothing_crossed"}

ReconcileLoad ==
  /\ tick.pc = "reconcile"
  /\ \/ /\ LoadFails
        /\ Return("error", tick.edges) /\ UNCHANGED coord
     \/ /\ LoadWorks
        /\ \E r \in {Reconciliation(disk.occ, disk.defs, clock.wall,
                                   clock.mono)} :
              IF r.status = "batch"
              THEN /\ tick' = [tick EXCEPT
                        !.pc = "batch",
                        !.revision = disk.revision,
                        !.generation = disk.generation,
                        !.next = Transition(r.state,
                          IF r.ringing = None THEN "none" ELSE "start",
                          IF r.ringing = None THEN None
                          ELSE r.state.active.occurrence_id,
                          MissedIds(disk.defs, r.missed))]
                   /\ UNCHANGED <<coord, report>>
              ELSE /\ coord' = [coord EXCEPT
                                 !.pending = ~ClearsLatch(r.status)]
                   /\ Return(IF r.status \in {"nothing_crossed",
                                              "active_conflict"}
                             THEN "evaluated" ELSE "blocked", tick.edges)
  /\ UNCHANGED <<disk, fault, ended, clock, disable, alert>>

ReconcileSave ==
  /\ tick.pc = "batch"
  /\ \E status \in {"stored", "unchanged", "conflict", "error"} :
       /\ SaveOccurrence(tick.next, tick.revision, tick.generation, status)
       /\ IF Committed(status)
          THEN /\ coord' = [coord EXCEPT !.pending = FALSE]
               /\ Return("evaluated", tick.edges \o Edge(tick.next))
          ELSE Return(status, tick.edges) /\ UNCHANGED coord
  /\ UNCHANGED <<clock, disable, alert>>

(* evaluate_due over the alarms of the loaded schedule, in order, up to    *)
(* the first that needs a commit; the others leave the state alone.        *)
EvaluateQueue(occ, defs, queue, revision, generation, edges) ==
  LET result(i) == EvaluateDue(occ, queue[i], defs[queue[i]],
                               clock.wall, clock.mono, TRUE)
      stops == {i \in DOMAIN queue :
                  result(i).persist \/ result(i).status = "invalid_time"}
      first == Min(stops)
      r     == result(first)
      who   == MakeOccurrenceId(queue[first], defs[queue[first]])
  IN  IF stops = {} THEN Return("evaluated", edges)
      ELSE IF ~r.persist THEN Return("frozen", edges)
      ELSE /\ report' = report
           /\ tick' = [IdleTick EXCEPT
                !.pc = "save", !.edges = edges, !.defs = defs,
                !.queue = SubSeq(queue, first + 1, Len(queue)),
                !.revision = revision, !.generation = generation,
                !.next = Transition(r.state,
                           IF r.start THEN "start" ELSE "none", who,
                           IF r.start THEN {} ELSE {who})]

(* Mutant: only the first alarm of the schedule is evaluated. *)
FirstOfSchedule(defs) ==
  LET all == InScheduleOrder(defs, {id \in DOMAIN defs : defs[id] # None})
  IN  IF all = << >> THEN all ELSE <<Head(all)>>

Schedule(defs) ==
  InScheduleOrder(defs, {id \in DOMAIN defs : defs[id] # None})

(* evaluate_committed_schedule: load, advance the active occurrence, then  *)
(* evaluate the alarms.                                                    *)
EvaluateLoad ==
  /\ \/ tick.pc = "evaluate"
     \/ /\ TickIdle /\ TickMayRun /\ clock.valid
        /\ ~coord.pending /\ ~BootPending
  /\ \/ LoadFails /\ Return("error", tick.edges)
     \/ /\ LoadWorks
        /\ \E r \in {AdvanceActive(disk.occ, clock.mono)},
              queue \in {Schedule(disk.defs)} :
              IF r.status = "invalid_time" THEN Return("frozen", tick.edges)
              ELSE IF r.persist
              THEN /\ report' = report
                   /\ tick' = [tick EXCEPT
                        !.pc = "save", !.defs = disk.defs, !.queue = queue,
                        !.revision = disk.revision,
                        !.generation = disk.generation,
                        !.next = ActiveTransition(disk.occ, r)]
              ELSE EvaluateQueue(disk.occ, disk.defs, queue, disk.revision,
                                 disk.generation, tick.edges)
  /\ UNCHANGED <<disk, fault, ended, clock, coord, disable, alert>>

(* commit_occurrence_transition, then the rest of the alarms.  A commit    *)
(* that found its state already stored exposes no edge.                    *)
EvaluateSave ==
  /\ tick.pc = "save"
  /\ \E status \in {"stored", "unchanged", "conflict", "error"} :
       /\ SaveOccurrence(tick.next, tick.revision, tick.generation, status)
       /\ IF Committed(status)
          THEN EvaluateQueue(tick.next.occ, tick.defs, tick.queue,
                 tick.revision, disk'.generation,
                 IF status = "stored" THEN tick.edges \o Edge(tick.next)
                                      ELSE tick.edges)
          ELSE Return(status, tick.edges)
  /\ UNCHANGED <<clock, coord, disable, alert>>

(* The caller applies the edges of a returned tick in their order. *)
AlertAfter(sounding, edges) ==
  IF edges = << >> THEN sounding
  ELSE LET last == edges[Len(edges)]
       IN  IF last.edge = "start" THEN last.who ELSE None

Expose ==
  /\ tick.pc = "expose"
  /\ alert' = AlertAfter(alert, tick.edges)
  /\ tick' = IdleTick
  /\ UNCHANGED <<storage, clock, coord, report, disable>>

TickStep == InvalidTick \/ SettleLoad \/ SettleSave \/ ReconcileLoad
            \/ ReconcileSave \/ EvaluateLoad \/ EvaluateSave \/ Expose

-----------------------------------------------------------------------------
(* disable_committed_alarm: phase 1 dismisses a matching active occurrence, *)
(* phase 2 commits the definition as disabled, on the schedule it loaded.  *)
DisableAfterDismiss(defs, id, stopped, revision) ==
  disable' = IF defs[id].enabled
             THEN [IdleDisable EXCEPT !.pc = "define", !.id = id,
                     !.defs = [defs EXCEPT ![id].enabled = FALSE],
                     !.revision = revision, !.next = stopped]
             ELSE [IdleDisable EXCEPT
                     !.pc = IF stopped = NoTransition THEN "idle" ELSE "expose",
                     !.next = stopped]

DisableLoad(id) ==
  /\ DisableIdle /\ OthersMayRun
  /\ disk.revision < MaxRevision
  /\ \/ LoadFails /\ UNCHANGED disable
     \/ /\ LoadWorks
        /\ disk.defs[id] # None
        /\ LET s == disk.occ
               r == DismissActive(s, s.active.occurrence_id, TRUE)
           IN IF s.active # None /\ s.active.alarm_id = id
              THEN disable' = [pc |-> "dismiss", id |-> id,
                               revision |-> disk.revision,
                               generation |-> disk.generation,
                               defs |-> disk.defs,
                               next |-> ActiveTransition(s, r)]
              ELSE DisableAfterDismiss(disk.defs, id, NoTransition,
                                       disk.revision)
  /\ report' = "none"
  /\ UNCHANGED <<disk, fault, ended, clock, coord, tick, alert>>

DisableDismiss ==
  /\ disable.pc = "dismiss"
  /\ \E status \in {"stored", "unchanged", "conflict", "error"} :
       /\ SaveOccurrence(disable.next, disable.revision, disable.generation,
                         status)
       /\ IF Committed(status)
          THEN DisableAfterDismiss(disable.defs, disable.id,
                 [disable.next EXCEPT !.occ = None, !.outcomes = {}],
                 disable.revision)
          ELSE disable' = IdleDisable
  /\ UNCHANGED <<clock, coord, tick, report, alert>>

(* Whatever phase 2 brings, a dismissal that is durable stops the alert.   *)
DisableDefine ==
  /\ disable.pc = "define"
  /\ \E status \in {"stored", "unchanged", "conflict", "error"} :
       SaveDefinitions(disable.defs, disable.revision, status)
  /\ disable' = IF disable.next = NoTransition THEN IdleDisable
                ELSE [IdleDisable EXCEPT !.pc = "expose", !.next = disable.next]
  /\ UNCHANGED <<clock, coord, tick, report, alert>>

DisableExpose ==
  /\ disable.pc = "expose"
  /\ alert' = None
  /\ disable' = IdleDisable
  /\ UNCHANGED <<storage, clock, coord, tick, report>>

DisableStep == DisableDismiss \/ DisableDefine \/ DisableExpose

-----------------------------------------------------------------------------
(* Callers outside this code: the application's schedule commit, and the   *)
(* controls, which commit before they silence the alert.                   *)
SaveSchedule(id) ==
  /\ OthersMayRun /\ ~fault
  /\ disk.revision < MaxRevision
  /\ \E def \in DefinitionsAt(disk.revision + 1) \cup {None} :
       /\ def # disk.defs[id]
       /\ SaveDefinitions([disk.defs EXCEPT ![id] = def], disk.revision,
                          "stored")
  /\ report' = "none"
  /\ UNCHANGED <<clock, coord, tick, disable, alert>>

Control(r) ==
  /\ TickIdle /\ DisableIdle /\ ~fault
  /\ r.persist
  /\ SaveOccurrence(ActiveTransition(disk.occ, r), disk.revision,
                    disk.generation, "stored")
  /\ alert' = None
  /\ report' = "none"
  /\ UNCHANGED <<clock, coord, tick, disable>>

Snooze(duration) ==
  /\ disk.occ.active # None
  /\ coord.handled = clock.boot
  /\ Control(RequestSnooze(disk.occ, disk.occ.active.occurrence_id,
                           clock.mono, duration))

Dismiss ==
  /\ disk.occ.active # None
  /\ Control(DismissActive(disk.occ, disk.occ.active.occurrence_id, FALSE))

-----------------------------------------------------------------------------
(* The environment: clocks between ticks, time validity, and power, which  *)
(* may fail between any two steps.  The caller may arm the latch at boot.  *)
ClockChange ==
  /\ TickIdle
  /\ report' = "none"
  /\ UNCHANGED <<storage, coord, tick, disable, alert>>

PassTime ==
  /\ ClockChange
  /\ clock.wall < MaxWall /\ clock.mono < MaxMono
  /\ clock' = [clock EXCEPT !.wall = @ + 1, !.mono = @ + 1]

CorrectWall(w) ==
  /\ ClockChange
  /\ Corrections /\ clock.valid /\ w # clock.wall
  /\ clock' = [clock EXCEPT !.wall = w]

LoseTime ==
  /\ ClockChange
  /\ Corrections /\ clock.valid
  /\ clock' = [clock EXCEPT !.valid = FALSE]

RegainTime(w) ==
  /\ ClockChange
  /\ ~clock.valid
  /\ clock' = [clock EXCEPT !.valid = TRUE, !.wall = w]

Reboot(w) ==
  /\ clock.boot < MaxBoots
  /\ w >= clock.wall
  /\ \E valid \in IF Corrections THEN BOOLEAN ELSE {TRUE} :
       /\ clock' = [wall |-> w, mono |-> 0, valid |-> valid,
                    boot |-> clock.boot + 1, off |-> IF Corrections THEN 0 ELSE clock.wall]
       /\ \E pending \in BOOLEAN :
            coord' = [handled |-> None, pending |-> pending]
  /\ fault' = FALSE
  /\ tick' = IdleTick /\ report' = "none" /\ disable' = IdleDisable
  /\ alert' = None
  /\ UNCHANGED <<disk, failures, ended>>

Environment ==
  \/ PassTime \/ LoseTime
  \/ \E w \in 0 .. MaxWall : CorrectWall(w) \/ RegainTime(w) \/ Reboot(w)

Next ==
  \/ TickStep
  \/ DisableStep
  \/ \E id \in AlarmIds : DisableLoad(id)
  \/ \E id \in SavedAlarms : SaveSchedule(id)
  \/ \E duration \in 0 .. MaxSnooze + 1 : Snooze(duration)
  \/ Dismiss
  \/ Environment

Spec == Init /\ [][Next]_vars

(* The caller's loop ticks forever, and the clock runs: it is only held    *)
(* back during a tick, so ticking forever cannot stop it.                  *)
FairSpec == Spec /\ WF_vars(TickStep) /\ SF_vars(PassTime)
-----------------------------------------------------------------------------
TypeOK ==
  /\ disk \in [revision : 1 .. MaxRevision,
               defs : [AlarmIds -> AlarmDefinitions \cup {None}],
               occ : {disk.occ}, generation : Nat \ {0}]
  /\ disk.occ.active \in ActiveOccurrences \cup {None}
  /\ disk.occ.terminal \in Seq(TerminalRecords)
  /\ disk.occ.watermarks \in [AlarmIds -> Int \cup {None}]
  /\ fault \in BOOLEAN /\ failures \in 0 .. MaxFailures
  /\ clock \in [wall : Nat, mono : Nat, valid : BOOLEAN, boot : 1 .. MaxBoots,
                off : Nat]
  /\ coord \in [handled : Nat \cup {None}, pending : BOOLEAN]
  /\ tick.pc \in {"idle", "settle", "reconcile", "batch", "evaluate", "save",
                  "expose"}
  /\ disable.pc \in {"idle", "dismiss", "define", "expose"}
  /\ report \in {"none", "frozen", "blocked", "evaluated", "error", "conflict"}
  /\ alert \in OccurrenceIds \cup {None}
  /\ ended \subseteq OccurrenceIds

Active == disk.occ.active
IsRinging(s) == s.active # None /\ s.active.snooze_deadline = None

(* No transition of a tick or of a disable is ever refused by the store as *)
(* malformed: such a transition could never become durable.                *)
TransitionsSavable ==
  /\ tick.next # NoTransition => SavableState(tick.next.occ)
  /\ disable.pc = "dismiss" => SavableState(disable.next.occ)

(* An occurrence is admitted, or recorded as missed, only for a definition *)
(* that is committed and enabled at that very commit: a schedule saved, or *)
(* an alarm disabled, between a tick's load and its save wins.             *)
Definition(occ) == disk.defs[occ.alarm]
IsCommitted(occ) ==
  /\ Definition(occ) # None
  /\ Definition(occ).enabled
  /\ occ = MakeOccurrenceId(occ.alarm, Definition(occ))
NewlyActive ==
  /\ disk'.occ.active # None
  /\ Active = None \/ disk'.occ.active.occurrence_id # Active.occurrence_id
OutcomesFromCommittedSchedule ==
  [][/\ NewlyActive => IsCommitted(disk'.occ.active.occurrence_id)
     /\ \A occ \in ended' \ ended :
          \/ Active # None /\ occ = Active.occurrence_id
          \/ IsCommitted(occ)]_vars

(* At most one start edge appears per tick (runtime_coordinator.hpp).      *)
OneStartPerTick ==
  Cardinality({i \in DOMAIN tick.edges : tick.edges[i].edge = "start"}) <= 1

(* When a tick has reported success and its edges are applied, the alert   *)
(* sounds for exactly the occurrence the record says is ringing.           *)
AlertMatchesJournal ==
  TickIdle /\ DisableIdle /\ report = "evaluated" =>
    alert = IF IsRinging(disk.occ) THEN Active.occurrence_id ELSE None

(* Disabling a ringing or snoozed alarm dismisses it first: no alarm is    *)
(* committed as disabled while an occurrence of it is active.              *)
DisabledAlarmIsDismissed ==
  Active # None /\ Definition(Active.occurrence_id) # None =>
    Definition(Active.occurrence_id).enabled

(* After an outage the occurrence that rings is the newest of those whose  *)
(* instants passed while power was off.                                    *)
OffInterval == clock.off + 1 .. clock.wall - clock.mono
NewestAfterOutage ==
  [][NewlyActive /\ disk'.occ.active.scheduled \in OffInterval =>
       \A id \in AlarmIds :
         /\ disk.defs[id] # None /\ disk.defs[id].enabled
         /\ disk.defs[id].scheduled \in OffInterval
         => disk.defs[id].scheduled <= disk'.occ.active.scheduled]_vars

(* Every due alarm is decided: it rings or gets an outcome, unless another *)
(* occurrence holds the alert, after any reboot and any transient failure. *)
Undecided(id) == id \in Crossed(disk.occ, disk.defs, clock.wall)
DueIsDecided ==
  \A id \in AlarmIds :
    Undecided(id) /\ Active = None ~> ~Undecided(id) \/ Active # None

(* A pending reconciliation is eventually settled, unless it has to wait   *)
(* for an active occurrence.                                               *)
LatchClears ==
  coord.pending /\ Active = None ~> ~coord.pending \/ Active # None

(* An occurrence ends within its lifetime of its first ring on the wall,   *)
(* whatever snoozes and reboots come between.                              *)
OccurrenceEnds ==
  Active # None /\ Active.first_ring_utc + Lifetime <= MaxWall
    ~> Active = None

(* The committed record keeps the promises of the ledger. *)
Ledger == INSTANCE OccurrenceLedger
  WITH Occurrences <- OccurrenceIds,
       Nobody      <- None,
       current     <- IF Active = None THEN None ELSE Active.occurrence_id,
       ended       <- ended
ImplementsLedger == Ledger!LedgerSpec
=============================================================================
