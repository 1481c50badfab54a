# Verification of dawn-dock

TLA+ models of the alarm firmware of dawn-dock, checked with TLC and, where the
result should hold for every instance, proved with TLAPS. Paths are relative to
the repository. `AC` stands for `firmware/components/alarm_core`.

## The system

dawn-dock is an offline alarm clock: firmware for an ESP32-S3 (C++) and a
companion application (Dart). The firmware's logic is a set of host-tested cores
that no `main` wires together yet; `main/main.cpp` initialises the storage,
loads once and logs.

| Component | Source | State | Operations | Model |
|---|---|---|---|---|
| Occurrence engine | `AC/alarm_engine.cpp` | the persisted occurrence state: active occurrence, recent outcomes (32), terminal watermarks per alarm id (32) | evaluate a due alarm, snooze, advance, dismiss, recover after reboot | `AlarmEngine`, `AlarmLifecycle` |
| Invalid-time recovery | `AC/invalid_time_recovery.cpp` | none of its own | one batch of missed occurrences and at most one ring | `InvalidTimeRecovery` |
| Runtime coordinator | `AC/runtime_coordinator.cpp` | handled boot id, pending-reconciliation latch (both volatile) | one tick: freeze, settle, reconcile or evaluate | `AlarmRuntime` |
| Committed evaluator | `AC/committed_schedule_evaluator.cpp` | none | load, advance, evaluate each alarm, one commit per transition | `AlarmRuntime` |
| Committed disable | `AC/committed_alarm_disable.cpp` | none | dismiss, then commit the definition as disabled | `AlarmRuntime`, `AlarmLifecycle` |
| Schedule store | `AC/schedule_store.cpp` | two slots, each one whole record with a generation | load, migrate, save schedule, save journal | `ScheduleStore` |
| NVS slot storage | `firmware/components/nvs_storage` | partition lock, transaction owner, fault latch | begin, end, read, write, initialise | `ScheduleStore` |
| Controls | `AC/control_debounce.cpp`, `AC/quadrature_encoder.cpp` | confirmed level, candidate and its start; phase, progress, pushed | sample | `ControlDebounce`, `QuadratureEncoder` |
| TZif adapter | `AC/tzif_rules.cpp` | none | timezone records to the offset rules of a window | `TzifRules` |
| Recurrence resolver | `AC/recurrence_resolver.cpp` | none | next UTC instant of a weekly alarm | `RecurrenceResolver` |
| Schedule materializer | `AC/schedule_materializer.cpp` | none | next instants of all alarms, or a failure | `AlarmCalendar` |
| JSON parser | `AC/json_parser.cpp` | position, depth, nodes of one parse | parse a text | `JsonParser` |
| Protocol gate | `AC/protocol_service.cpp`, `message_body_validator.cpp`; `app/lib/domain/protocol_contract.dart` | replay window; replay set | validate a message | `MessageGate`; the window also in `ScheduleFlow` |
| Schedule exchange and flow | `app/lib/domain/schedule_*.dart` | mirror, pending exchange, phase | review, preview, token, apply, receipt | `ScheduleFlow` |
| Backup and restore | `app/lib/domain/backup*.dart`, `local_backup_store.dart` | backup file, controller state, the live stores | export, inspect, restore, confirm, cancel, erase | `BackupFlow` |
| Pairing | `app/lib/domain/pairing.dart` | attempts, closure, window | attempt, expire, cancel, complete | `Pairing` |
| Application recurrence, drafts, profiles, calendar import | `app/lib/domain/recurrence.dart`, `device_status.dart`, `alarm_draft.dart`, `device_profile.dart`, `ics_import.dart` | none | | not modelled |
| User interface, hardware | `app/lib/ui`, `hardware`, `bom` | rendering, documents | | not modelled |

How they interact. A caller ticks the coordinator with an observation (wall
time, monotonic time, time validity, boot id). The tick loads the committed
record, asks the engine for a transition, commits it by compare-and-set on
revision and generation, and only then returns an edge (start or stop the
alert). The disable and the application's schedule saves go through the same
store from other tasks. The store holds one lock over each load or save, not
over a load and the save that follows it, so every caller works on a snapshot
that may be stale when it saves.

The application keeps a mirror of the device's schedule. Its flow controller
reviews a proposal against the mirror, frames a preview and, once the device's
token has arrived and the user has confirmed, an apply; a receipt advances the
mirror, a conflict asks for a refresh. Both requests carry the revision that was
reviewed, and the device's gate drops repeated message identities. No transport
exists yet. The controls are sampled by a caller that does not exist either.

Timezone data reach the alarms in three steps that no loop connects yet: the
adapter turns pinned records into rules for a window of time, the materializer
picks the rules of each alarm, and the resolver searches two weeks of days for
its next instant. Backups copy the profiles, the drafts and the mirror to a file
and back; the file is awaited, and the mirror may move meanwhile.

What is hard about it:

- loads and saves of several tasks interleave, and a save may lose;
- power fails between a commit and its effect, and in the middle of a write;
- a commit may land without being acknowledged, and be retried;
- wall time is corrected, lost and regained; the monotonic clock restarts at
  every boot;
- the bounded lists (recent outcomes, watermarks, replay window) drop or refuse
  entries;
- requests and answers are late, repeated or lost while others commit and the
  mirror is refreshed;
- inputs are sampled: polls are late, contacts bounce, phases are missed;
- local time jumps and repeats, and rules are known for a window only;
- one untrusted input has several faults, and two gates must name the same one;
- a clock may be set while a window of time is open, and a file is awaited while
  the data it is compared with change;
- something must still happen: every due alarm rings or is recorded, every
  occurrence ends, a pending reconciliation is settled.

What makes each component correct. *Engine*: an instant with an outcome never
rings again; an outcome never suppresses an instant still to come; an occurrence
is admitted only if it can be ended; lifetime and snooze budget survive a
reboot. *Coordinator and evaluator*: an edge is durable before it shows; the
alert agrees with the journal; nothing is admitted from a stale schedule; the
latch keeps evaluation out. *Disable*: no disabled alarm keeps an active
occurrence. *Store*: one compare-and-set register, whatever fails.
*Flow*: no update is lost, the mirror shows what was committed, the controller
and its exchange stay in step, a framed apply is settled. *Controls*: one event
for each press, in time; no cycle lost while every phase is seen, none invented.
*Calendar*: what is planned is the next ring, once for each date; a plan holds
every alarm or none. *Parser and gate*: exactly the grammar within the limits;
the window holds the last accepted ids; firmware and application answer alike.
*Backup*: the mirror goes back only with consent. *Pairing*: the first call that
ends a ceremony decides it, and a record needs a match inside the window.

## Modules

| Module | What it is |
|---|---|
| `AlarmEngine` | the engine's functions as operators from state to result; one operator per function of the source |
| `InvalidTimeRecovery` | `reconcile_after_time_valid` between its load and its save |
| `OccurrenceLedger` | abstract: admitted at most once, one at a time, outcomes final |
| `AlarmLifecycle` | the engine driven as its callers drive it, one call per step; refines `OccurrenceLedger` |
| `AlarmEngineProofs` | lemmas about the functions of the engine and of the reconciliation: what each keeps, ends, records and lets ring |
| `AlarmLifecycleProofs` | theorems about `AlarmLifecycle` |
| `AlarmRuntime` | tick, evaluator, reconciliation and disable split at their loads and saves, with storage failures, other tasks, clocks and reboots; refines `OccurrenceLedger` |
| `AlarmRuntimeProofs` | theorems about `AlarmRuntime` |
| `MCAlarmRuntime` | the schedules its instances start from |
| `CasRegister` | abstract: one record under compare-and-set, learned of by callers |
| `ScheduleStore` | the two-slot store over the NVS adapter, split at its storage calls; refines `CasRegister` |
| `ScheduleStoreProofs` | theorems about `ScheduleStore` |
| `MCScheduleStore` | the slot contents its instances start from |
| `ScheduleFlow` | the application's controller, exchange and mirror, against a device with the replay window and a transport that loses, delays, repeats and reorders |
| `ScheduleFlowProofs` | theorems about `ScheduleFlow` |
| `RecurrenceResolver` | `resolve_next_occurrence` as operators: transitions, gaps, folds, the search over days |
| `TzifRules` | a timezone record to a chain of transitions, a set of records to the rules of a window |
| `AlarmCalendar` | the materializer, in a loop of building rules, planning, time and rings; the reference that walks instants |
| `JsonParser` | the parser as a machine over tokens; the reference grammar |
| `MessageGate` | the checks of the firmware's gate and of the application's in their order, and both replay memories |
| `Inputs` | calendar, texts and messages in one instance; they share no state |
| `MCInputs` | the zones and alarms its instances start from |
| `Pairing` | one pairing ceremony, with the log of its calls |
| `BackupFlow` | backup controller, coordinator and file, with receipts and edits meanwhile |
| `ControlDebounce` | one push control with a finger, bouncing contacts and uneven polls |
| `QuadratureEncoder` | the knob's phase policy against the true position of the shaft |
| `Controls` | both control policies, pairing and backup in one instance; they share no state |
| `ControlsProofs` | theorems about `ControlDebounce`, `QuadratureEncoder`, `Pairing`, `BackupFlow` and `Controls`, which puts them together |
| `InputsProofs` | theorems about `MessageGate`, `AlarmCalendar`, `JsonParser` and `Inputs`, which puts them together |
| `FiniteMinimum` | lemmas about the minimum of a finite set of integers |

`AlarmRuntime` uses the store through the behaviour `CasRegister` states: its
variable `disk` is the register, its failure kinds are what a caller of
`ScheduleStore` can meet (`busy`: could not begin or read; `fault_old` and
`fault_new`: a failed write, after which nothing works until reboot, and which
left the old or the new record; `unverified`: the write landed and the read-back
failed).

### State and actions against the code

`AlarmEngine`. A persistent state is `[active, terminal, watermarks]`. The
occurrence id, a string of alarm id, revision and instant, is that triple. The
watermark vector is a function from alarm ids to an instant or `None`; the
order of its entries is not modelled. 64-bit instants are integers with
`TimeMax` where the checked additions refuse. `Result` carries the state after
the call, the status, and the start and stop effects; `NoChange` is an early
return.

`AlarmLifecycle`. `Recover`, `Advance`, `Evaluate`, `Reconcile`, `Snooze`,
`Dismiss`, `Disable` and `SaveSchedule` are calls with their commit; `Tick`,
`CorrectWall`, `LoseTime`, `RegainTime` and `Reboot` are the environment. `alert`
follows the edges, `ended` is a history variable.

`AlarmRuntime`. `tick.pc` is the place in `run_runtime_tick`: `settle` and
`batch` and `save` wait for a commit, `reconcile` and `evaluate` for a load,
`expose` for the caller to apply the edges. `SettleLoad`, `ReconcileLoad` and
`EvaluateLoad` read the record; `SettleSave`, `ReconcileSave` and `EvaluateSave`
commit. Steps that only compute belong to the load or the save before them. The
clocks do not move within a tick, because a tick has one observation. The
disable has `DisableLoad`, `DisableDismiss`, `DisableDefine` and
`DisableExpose`. A reboot may come between any two steps and erases
everything but `disk`. The controls and the schedule saves are callers that do
not exist in the source yet; they are modelled as the documents require of them
(commit first, then silence) and take one step.

`ScheduleStore`. `Begin` takes the partition lock or fails at once;
`ReadSlots` reads both slots and decides (`SaveVerdict`, `JournalVerdict`,
`MigrateVerdict` are the branches of the three writers in their order);
`WriteSlot` sets one slot and commits; `Verify` reads it back; `Return` releases
the lock. A failed write leaves durable and visible content in doubt and sets
`uncertain`; a write cut short by power is such a write followed by `Reboot`.
`MaxGeneration` and `MaxRevision` stand for the largest unsigned 64-bit value:
the code's own limit checks bound the model. `known` is what the last result
told a task, and requests are derived from it, as the callers in the source do.
`WrittenInTurn` is what a device may hold at the first boot: two records one
generation apart, and a record of a newer schema newer than the other one. Every
save of this firmware leaves that (`save`, `migrate_to_current_schema` and
`save_occurrence_state` count one generation more and write the opposite slot),
and this firmware refuses to write beside a newer schema. `load_unlocked` would
also pass over a newer schema that is older than a readable record; no device
gets there, and `FutureRecordKept` would not hold of one whose newest slot rots
between the read and the write of a save.

`ScheduleFlow`. One action for each method of `ScheduleFlowController`, with the
calls it makes to `ScheduleExchange` and `DeviceScheduleStore`; a method that
returns early without a change is a guard. A diff is what was reviewed:
`expected`, `baseline`, `proposal`. A schedule is the set of its alarms: order
and fields do not matter to the exchange. A refused message identity is the
argument `identityAccepted`. The device is external: its log of commits, one per
revision, saved under the comparison of `AtomicScheduleStore::save`, and the
replay window of the gate, whose remaining checks are one refusal. Every apply
stays in the transport for ever and may arrive at any time; a preview is
forgotten with the request that follows. The caller correlates: only answers to
the latest request reach the controller, any number of times and in any order.
`ChangeMirror` stands for a refresh, a restore and an erase, which leave the
mirror at a revision the device has had.

`ControlDebounce`. `Sample` is `sample`; the unsigned difference of times is
taken modulo `Wrap`. `Poll`, `Tick`, `SetClockBack` and `Move` are the caller,
the clock and the finger. `QuadratureEncoder`. Phases are numbered along the Gray
sequence, so the position of the shaft modulo 4 is its phase and `kStep` is a
difference; `low`, `high`, `origin` and `cycles` are history.

`RecurrenceResolver`. Local time is an instant plus an offset and a date is the
number of its day. `MapLocal` is `map_local`: the loops over candidate offsets
and over transitions are the sets `Passes` and the gaps that `Skips` names.
`SearchDays` is the loop over days: the first day that rings or is out of range
ends it. `Resolve` is the checks in their order. `TzifRules`: a record is its
framing (a status if the bytes do not hold what they declare), the instants and
types of its transitions and the offsets of its types; `Chain` drops changes of
the abbreviation alone and everything from the cutoff on, `Windowed` folds what
precedes a window into its initial offset, `BuildRules` applies the budget.
`AlarmCalendar`: `Materialize` is `materialize_next_schedule_entries`. `Build`,
`Plan` and `Ring` are the calls a device has to make; `Build` takes a window
that starts now or a day earlier. The repository has no such loop yet, so the
actions are as the headers describe their callers.

`JsonParser`. One step reads one token; `phase` is the place in `parse_object`,
`parse_array` and `parse`, `stack` the recursion. `Lexical` holds the tokens on
which a scanner of strings, numbers or words fails, with its code. A member is
compared with the others when its value is complete, as in the code.

`MessageGate`. A message is a kind and a set of defects; a gate is a sequence of
checks, each the defects it finds and the code it answers, and answers with the
first that finds one. `EnvelopeChecks`, `ParseChecks` and `BodyChecks` are the
firmware's, `AppChecks` those of `validateContractMessage`. `order` and `set` are
`ReplayWindow`, `seen` is the application's set.

`Pairing`. `CheckExpiry`, `Cancel`, `AttemptConfirmation` and
`CompleteWithReference` are the methods; each is given any reading of the clock,
so the clock may go back. A call that throws is logged and changes nothing else.

`BackupFlow`. An operation of the controller is `Begin`, which makes it busy, and
the action that follows its await (`EndExport`, `EndInspect`, `EndRestore`,
`EndErase`, `EndEraseLocalData`, or `Fails`). Confirming and canceling await
nothing. `Receipt` and `Edit` move the live stores in between. `live` is the
revision of the mirror and a version of the rest.

## Runs

All bounds are constants of the configurations.

| Run | Shows | Bounds, and why they suffice |
|---|---|---|
| `lifecycle_corrections` | types, no instant rings twice, outcomes remembered, no future instant suppressed, refinement of the ledger | 2 alarms, instants 0..2, 2 boots, 2 revisions. Retention 1 and capacity 1 make eviction and a full table ordinary; grace 1 and lifetime 2 give every classification |
| `runtime_sequential` | one start per tick, alert agrees with the journal, transitions storable | 3 alarms over 2 watermarks, one storage failure, 2 boots, corrections |
| `runtime_concurrent` | outcomes only from the committed schedule, refinement of the ledger (which admits no instant twice), with ticks, disable and saves interleaved | 2 alarms, 2 revisions, all four failure kinds, one failure, 2 boots |
| `runtime_fair` | due alarms decided, latch clears, occurrences end | 2 alarms, instants 0..3, one transient failure, one reboot |
| `store` | durability of what was reported and refinement of the register until a slot rots, types (no wrap), never ambiguous, fallback by one generation, newer schema kept | 2 tasks, 2 schedules, 2 journals, 4 generations, 3 boots, 2 corrupted slots; both slots are written twice, from every start (new, schema 1, newer schema) |
| `flow` | no lost update, the mirror shows what was committed, the controller never meets its exchange out of phase, a receipt advances the mirror by one, a framed apply is settled | 1 alarm (two schedules), 3 revisions, 4 requests: two whole exchanges, so that an old apply meets a later one; 2 answers to each, another client, window 1, so that an identity is forgotten |
| `controls` | one event for each press, answered in time; cycles add up to the rotation and none is invented; a ceremony is decided once and in time; no silent rollback | a tick is 5 ms: stable 4, bounce 1, polls up to 6 apart, budget 15; 2 presses, 2 steps back; 26 ticks hold a press, its release and another press. The worst response is two gaps and the stable window less a tick, 15 ticks or 75 ms of the 100 ms the documents allow. Positions -9..9 hold two cycles each way, up to half a cycle between samples. Pairing: 2 attempts, windows of 1 and 2, any 4 calls at any readings around the window: exhaustion, expiry and confirmation each come before every other. Backup: 2 receipts, 1 edit: the mirror may pass a backup before it is read, and again before it is confirmed |
| `inputs` | the plan is the next ring of the reference, one ring for each date, every alarm or none; the parser is exact; a duplicate is one of the last accepted; both gates answer alike | days of 4 instants and weeks of 3 days keep gaps, folds and whole skipped days next to each other; 26 chains of up to 3 transitions by 1 to 4 quarters of a day, with changes of the abbreviation alone, one at the cutoff, a chain over the budget, and 6 records that do not parse; 2 alarms at the edges of the day; windows of 12, instants 0..14. No window starts while local time repeats. Texts of 11 tokens, depth 3 and 5 nodes: every limit is met. Window 2, 4 ids, 6 accepted messages: every id is forgotten and comes again; messages with any two defects |
| `outage`, `unverified`, `disable`, `window` | each finds one statement of the documents violated, see below | minimal |

Deadlock checking is off: the bounds on clocks, boots and revisions stop every
model, and the store may legitimately be unusable. In `inputs` and `controls` a
behaviour gives or uses one of the parts that share no state; each is explored in
full.

`NextIsFirst` compares the resolver, which searches a chain of offset changes,
with `Comes`, which walks the instants and looks at the clock alone. Where the
window or the cutoff ends the rules, only what lies before that end is compared.
The arithmetic limits of the resolver are not reached by these instances:
`MaxInstant` lies far away. `ParserIsExact` compares the machine with a grammar
that generates texts by their length.

Every property of a passing run has a mutant in `PROJECT.json`: a definition of
the model changed as a plausible bug would change the code, under which that run
finds the property violated. The mutants' definitions stand before the
definitions they replace and are used nowhere else.

### Disagreements with the documents

1. `outage`: `docs/alarm-semantics.md:98` has the newest occurrence ring after an
   outage; the evaluator admits the oldest one within the grace. Only the
   reconciliation, which runs if the caller armed the latch, rings the newest.
2. `unverified`: a commit that landed but whose read-back failed suppresses its
   edge. Later ticks find a ringing occurrence and report success, and the alert
   never starts (`docs/nvs-storage.md:45`, `docs/alarm-semantics.md:47`).
3. `disable`: the definition is saved by revision only, so an occurrence
   admitted after the load of a disable stays active under a disabled definition
   (`docs/alarm-semantics.md:39`).
4. `window`: the header of the adapter says that a window inside the history of
   a zone is correct (`AC/include/dawn/tzif_rules.hpp:71`). If it starts inside a
   repeated hour, the transition that repeats it is folded into the initial
   offset, and an alarm that rang at the first pass is resolved to the second
   pass of the same date (`docs/alarm-semantics.md:64`).

Others are small enough to be read off the code and have no run:

- After a conflict only the exact revision it reported can be acknowledged; a
  mirror refreshed to a later one can never be reviewed again
  (`docs/protocol.md:108`, `schedule_flow_controller.dart:59` and 225).
- `AC/include/dawn/message_body_validator.hpp:62` remembers a message id once the
  envelope is accepted; the code (`message_body_validator.cpp:483`) remembers it
  after the body is accepted too, as the application does.
- `protocol_contract.dart:443` detects duplicates "the same bounded way" as the
  firmware; its set is not bounded, and it has no limits of depth and nodes.
  `SameAnswer` excepts texts that only the firmware's parser refuses, and ids that
  only the application remembers: the firmware has forgotten them, or had refused
  the text.
- The fold flag of an occurrence is not set when the second pass lies beyond the
  end of the window; the instant is right.
- A clock that is set back before any call saw the pairing window over opens the
  window again; once a call saw it, it stays closed.
- A stale restore is confirmed although the mirror has moved on from the revision
  that was shown (`backup_flow_controller.dart:309`). The user agreed to that
  backup, which `NoSilentRollback` allows.

Two statements hold only with a proviso that the text does not give. A tick
carries at most one start edge (`AC/include/dawn/runtime_coordinator.hpp:75`)
only while no other task ends the recovered occurrence before the tick's
evaluation; `runtime_sequential` has one task. A proposal shown as refused
(`schedule_flow_controller.dart:62`) was not committed only if the transport
does not repeat an apply: the flow takes any error but a conflict as final, the
`duplicate_message_id` of the copy included.

`runtime_sequential` checks `AlertMatchesJournal` and `OneStartPerTick` without
unverified commits and without other tasks: there they hold.

### Fairness

Two runs need it. In `runtime_fair`, `WF_vars(TickStep)`: the caller's loop ticks
again and again (`runtime_coordinator.hpp:103-127` describes a caller that does),
and a tick is a plain call that returns. `SF_vars(PassTime)`: time passes; it is
strong because the model holds the clock during a tick, and ticking for ever
must not stop it. No fairness is assumed of power, controls, corrections or
storage. The run has no corrections, because with them wall time need never
reach any instant.

In `flow`, `WF_vars(AnswerAwaited)` and `WF_vars(Deliver)`: the awaited
request reaches the device and is answered once, and an answer that changes
something is handed to the controller. The source has no transport and no
timeout; this is the least a transport must do for a framed apply, which cannot
be canceled, to end. `ApplySettles` excepts a mirror refreshed under the apply:
`receive` then rejects every answer and leaves the outcome to a reconciliation
outside.

## Proofs

`AlarmLifecycleProofs` proves for every set of alarms, every value of the
constants allowed by the assumptions, and unbounded behaviours:

- `TypeCorrectness`: `TypeOK` is invariant;
- `OutcomesAreRemembered`: every outcome is covered by its alarm's watermark;
- `NoInstantRingsTwice`: no instant that has an outcome rings again;
- `NothingToComeIsSuppressed`: no step suppresses an occurrence that is still to
  come (`NoFutureSuppressed`), whatever corrections the clock went through;
- `LifecycleImplementsLedger`: `AlarmLifecycle` refines `OccurrenceLedger`.

The argument. `NoInstantTwice` speaks of all outcomes ever given, but the code
decides from the watermarks and the short list of recent outcomes. The inductive
invariant (`IInv`) is `TypeOK` and `Good(st, ended)`: the state is well formed,
every outcome in `ended` is at or below its alarm's watermark (`Covered`), and
the active occurrence is named after its alarm and instant and lies strictly
above that watermark (`ActiveAboveWatermark`). Without the second part an evicted
record would leave its outcome unknown to the engine; without the third, ending
an occurrence would not show that its own outcome is covered. The lemmas, in
`AlarmEngineProofs`, follow the code: raising a watermark covers what it records
and uncovers nothing; ending, keeping, admitting and batching each preserve
`Good`; each action is one of those. The batch needs the newest of a finite set
of alarms to exist (`NewestExists`), from the well-foundedness of strict
inclusion on finite sets.

`AlarmRuntimeProofs` proves, for any alarms, clocks, reboots, revisions and storage
failures of every kind, with ticks, disables, controls and schedule commits
interleaved at their storage calls:

- `TypeCorrectness`, `PendingIsSavable`: `TypeOK` and `TransitionsSavable` are
  invariant;
- `CommittedScheduleDecides`: what becomes active or missed is committed and
  enabled at that very commit (`OutcomesFromCommittedSchedule`);
- `RuntimeImplementsLedger`: `AlarmRuntime` refines `OccurrenceLedger`;

and, with no other task between the steps of a tick or a disable (`~Concurrent`):

- `OneStartEdge`: a tick collects at most one start edge (`OneStartPerTick`);
- `AlertFollowsJournal`: the alert agrees with the record after every tick that
  reports success (`AlertMatchesJournal`), if no write lands unverified.

The two hypotheses are needed: `unverified` violates the second theorem without
the one on failures, and a disable between the settling and the evaluation of a
tick makes two start edges.

The inductive invariant (`IInv`) says of the record that it is `Good`, as in the
lifecycle, and `Storable`: of its bounded lists, no identity twice, and room for
the active occurrence's watermark. Its core is `Awaits`. What a tick or a disable
has computed and not yet saved carries the revision and the generation of its
load. As long as both are still the record's, the transition `Decides` the
record: it continues or ends the active occurrence, or admits or misses what the
committed schedule has armed. As soon as either has moved on, nothing is said,
because the save is refused, or finds its very state stored already. So no step
of another task disturbs what waits (`AwaitsKept`): it leaves the record alone,
or its generation passes. Each action is then one of three: it saves what awaits
(`SavedRecord`), replaces the schedule (`SavedDefinitions`) or leaves the record
as it is (`UntouchedRecord`). `TickSchedule` adds that the schedule a tick goes
on to evaluate after a commit is still the committed one, which the commit has
just shown by its revision. That a transition can be stored follows from the
engine alone (`StorableOutcome`, `StorableMissed`, ...): a full watermark table
refuses the admission, not the end.

Two further invariants hold for one task at a time. `Sequential`: a tick that
has collected a start edge has left the record with an occurrence that does not
move on at the tick's instant (`Unmoved`), so that no later stage has a
transition to add. `Sounding`: what will sound once the collected edges are
applied (`Shown`) is what the record rings (`Rings`), once the boot is handled
and unless a failed write has made the partition unavailable; before that, nothing
sounds, and the active occurrence has not been recovered in this boot, so that
settling it will say whether it rings (`Heard`). A transition without an edge waits
only while nothing sounds (`Unheard`). The invariants were checked with TLC on
the instances of the runs before they were proved.

`ScheduleStoreProofs` proves, for any tasks, schedules and journals, every
limit of generation and revision, any number of boots and of slots lost, from
every device that was written in turn:

- `TypeCorrectness`, `StoreNeverAmbiguous`, `FallsBackByOne`, `ReportedSurvives`:
  `TypeOK`, `NeverAmbiguous`, `FallbackIsPrevious`, `ReportedIsDurable` are
  invariant;
- `FutureRecordIsKept`: no step overwrites a record of a newer schema;
- `StoreImplementsRegister`: the two slots are `CasRegister` until one rots.

The inductive invariant (`IInv`) has four parts besides types. `WrittenInTurn` of
the durable slots: of two records one is the newer, by one generation. `Locked`:
one task is in a transaction, and what it reads is durable unless a write failed
in this boot. `FromKnown`: a request is still what its caller derives from what
it knows. `Planned`: from the read to the write, the planned content is one
generation beyond the slot it leaves alone, nothing of a newer schema is there,
and, while no slot rots, the plan is still what the slots ask for. The last two
carry the compare-and-set over the gap between read and write. Until a slot
rots, what is about to be told (`Truthful`) and what was told (`Survives`) is
what the slots hold. The lemmas follow one save: what a verdict writes
(`ReplaceIs`, `SaveWrites`, `JournalWrites`, `MigrateWrites`), what the slots
load after a write and after a torn one (`AfterWrite`, `AfterTear`,
`AfterTearOfOlder`: a write that fails tears only the slot that was not loaded,
or that holds what is written). Why the fallback is one generation also after
rot: a transaction that planned its write before the newest slot rotted still
writes one generation beyond the other one, or into a store of one slot.

`ScheduleFlowProofs` proves, for any alarms and capacity, any window, any number
of requests, answers and revisions:

- `TypeCorrectness`, `PhasesMoveTogether`, `MirrorShowsCommitted`,
  `UpdatesAreNotLost`: `TypeOK`, `FlowFollowsExchange`, `MirrorIsCommitted`,
  `NoLostUpdate` are invariant;
- `ReceiptsGoForward`: an adopted receipt takes the mirror one revision further.

The invariant follows a change from the review to the receipt. `Reviewed`: the
change under way, and that of every request in the transport, was made against
the schedule the device had at the revision it expects (`Genuine`); commits only
append, so that it stays true. `Identified`: identities are used once and are at
most the current one, so that a commit belongs to one request, and a new request
to no commit. `Awaited`: the request whose answer is awaited carries the change
the exchange is armed with. `Receipted`: a receipt among the answers was given
for that change, which the device had committed at the revision it reports. The
last two make the mirror right when the receipt is adopted: the receipt itself
names a revision and a count, and the alarms come from the exchange. `NoLostUpdate`
then rests on the device's comparison alone, not on the replay window: the
theorem holds for every capacity, 0 included.

`ControlsProofs` proves the four parts of `Controls`, for every bound and any
number of steps; `TypeCorrectness`, `TypeOK` of all four, for contacts that bounce
no longer than the debounce interval. Of the push control:

- `PressesActOnce`: under the same condition, every event has a press of its own
  (`OneEventPerPress`), at any distance of polls, with the clock set back at will,
  and any width of the time difference;
- `PressesActInTime`: `AnsweredInTime` is invariant if the budget covers the
  bounce, the interval and a distance of polls at either end
  (`LatestStart + Stable - 1 + Gap <= Budget`), and no interval wraps. With the 20
  and 100 ms of the source and the 5 ms bounce of verification-matrix.md, polls
  may be 38 ms apart.

The first rests on `Explained`: while no press may act, a confirmed release is a
real one, and a candidate that contradicts the finger is younger than the
finger's last move (`SeenSinceMove`; a clock set back keeps it, because the
reading lags the true time ever more). What is then confirmed is the finger's
level and no bounce (`ConfirmedIsFinger`). `Matched` counts events against
presses, which bounds them. The second follows a waiting press from the last poll
that saw the released level (`Waits`). Of the knob:

- `EveryCycleCounts`: the reported cycles and the partial progress add up to the
  rotation since the last push or missed phase;
- `MotionIsReal`: a cycle is reported only for a whole cycle of rotation.

The invariant adds `Anchored` to the sum: the reference phase is the phase of the
shaft, and the partial progress began at a position sampled since the last cycle
or push. The lemma `StepIsTurn` shows that the table tells a turn by at most one
phase exactly and every other possible turn as a jump; it rests on the
assumption that the shaft turns by at most half a cycle between samples. Of
pairing and backup:

- `FirstEndDecides`: `DecidedOnceInTime` is invariant. While the ceremony is
  open, `attempts` counts the attempts inside the window and no call so far would
  have ended it (`Undecided`); once it is closed, one call ended it before any
  other that would have, and records come only after it (`Decided`, `OneRecord`).
  Every call either leaves a closed ceremony alone, ends nothing, or decides
  (`StaysDecided`, `StaysOpen`, `Decides`).
- `RollbackIsConsented`: no step takes the mirror back without consent. A refusal
  that is on display names a backup older than the revision shown next to it
  (`Told`), and all that is held are backups (`Held`), so that the only other way
  to restore is one whose revision was compared under the same step.

`InputsProofs` proves, for any messages and capacity, any zone records, alarms and
windows, any alphabet of tokens and any limits of the parser:

- `WindowHoldsTheLast`, `GatesAnswerAlike`: `DuplicateIsRecent` and `SameAnswer`
  are invariant;
- `ParserReadsTheGrammar`: `ParserIsExact` is invariant;
- `RulesTellTime`: the rules in use show the offset of the record they come from,
  at every instant of their window before the cutoff (`WindowTellsTime`);
- `PlansAreWhole`: a plan holds every alarm or none; it is made only if every
  enabled alarm has its zone in the pinned version, and otherwise fails only for
  an invalid schedule or one without an occurrence in reach (`PlanHasReason`);
- `InputsTyped`: `TypeOK` of all three parts, which says of the calendar that every
  chain in use is one the resolver accepts as valid;
- `InputsKeepTheGate`: `Spec` of `Inputs` implies `GateSpec`, so that the first two
  hold of the composition. The others are stated of it.

The gates. `DuplicateIsRecent` speaks of the ids accepted last, the code of a
queue and a set. The invariant (`GateIInv`): the queue is the end of `accepted`, as
long as the capacity allows, and the set its range. A set can only follow a queue
that holds no id twice: an id in the window is refused by the fourth check of the
envelope, whatever the other defects, so that what is appended is always new to it.
For `SameAnswer` the two lists of checks are compared: both answer with the code of
the first check that finds a defect (`FirstAnswers`), and they differ in checks
that only a text can fail. What the firmware accepts the application accepts, so
its memory is the larger one (`Remembered`).

The calendar. A chain is `Linked` if its instants increase, every transition starts
from the offset the last one left, and none changes nothing. Coalescing
makes a linked chain of a record (`ChainLinked`), and a window of a linked chain is
a segment of it (`WindowIsSegment`), hence linked (`WindowLinked`). The offset at an instant is
that of the last transition that has passed (`OffsetIsLast`), in the record, in
the chain and in the window alike: a change the chain drops changes no offset. The
invariant (`CalendarIInv`) says that what is built and what is planned is what
`BuildRules` and `Materialize` give for a window and an instant of this run.

The parser. `ParserIsExact` compares a machine that sees one token at a time with
a grammar of whole texts. The invariant (`ParserIInv`) relates them through
continuations: some chain `P` of sets of texts, one per open container, where
`P[0]` is the end and `P[i]` is what may follow a value inside the container `i`,
given the keys it has and what may follow it (`Chained`). `Left` is, for a phase,
what may still be read, and `Reading` says that a text completes what has been
read exactly if it is in `Left`. Each token leaves those that begin with it
(`Agrees`), or nothing begins with it and the parser refuses (`Hopeless`), or a limit
refuses it (`ReadsLeft`). For the limits, `Counted` relates the depth of the stack
and the count of nodes to the brackets and values of the text read, which a
continuation cannot undo. A member whose key is taken leaves the empty set, since
the code refuses it only after its value: the parser may read on where no document
is left, which the property allows. The grammar is a recursive function over the
length of a phrase; that it satisfies its equation is proved by the shortest
length for which it would not (`GrammarIsPhrases`), and so is all that is said of
every phrase.

`FiniteMinimum` proves that `Min` of the community modules is the least element
of a finite set of integers, for the first alarm of a tick that needs a commit and
the first call that ends a ceremony. That a finite set of alarms can be put in
order at all (`OrderExists`) is proved in `AlarmEngineProofs`, because the order
of a schedule (`InScheduleOrder`) is chosen, not computed.

Assumptions: the alarm ids are a finite set of naturals, `None` is neither an
integer nor an occurrence, the durations and limits are as in `EngineConstants`;
the bounds of the runtime are naturals, at least one boot and one revision, and
the schedule at the first boot is one that revision 1 may hold
(`RuntimeConstants`, `InitialSchedules`); capacities and bounds are naturals, and
a ceremony has an attempt and a window (`GateConstants`, `PairingConstants`,
`BackupConstants`, `FlowConstants`); no operation is the absent one
(`AbsentIsNoOperation`). The limits of the store are positive, `None` is neither
a task nor a record, and the slots at the first boot are as described above
(`StoreConstants`, `DevicesWereWrittenInTurn`). TLC evaluates them on every run
of their modules.

The constants of `Inputs`: a set of alarms is a sequence; framed records hold a type
for every transition, which the header of a record determines (`RecordsAreRead`);
days around every instant used fit into 64 bits; the marks, strings, scalars and
faulty lexemes of the parser are different tokens (`ParserConstants`).

Checked by TLC only:

- liveness, `ApplySettles` of the flow included: fairness and `ENABLED` are out of
  the prover's reach;
- that a plan exists whenever `ready` says so (`PlanIsWhole` in full). For every table
  of records this is false: offsets that jump over whole days can skip two weeks
  of an alarm, and a schedule may name another version of the rules. `PlansAreWhole`
  proves what holds of every table; the run's records skip single days;
- `NextIsFirst` and `OneRingPerDate`, which depend on the shape of the records in the
  same way: the resolver searches the days of two weeks, and takes one gap or fold
  to explain a local time;
- that an ordering by time, as `Materialize` makes it, is sorted: the theorems need of
  it only that it keeps every alarm.

No module declares a recursive operator: one that does loses the SMT backend.

## Not modelled, and why

- Byte encoding, CRC and field formats (`decode_record`, timestamps, identifiers,
  `ics_import`): a record decodes, is torn, or is of a newer schema; a field has
  a defect or not. The bytes of a TZif file: a record is whole or names the
  status of its first fault.
- Characters of a JSON string or number (escapes, UTF-8, digits): a token is well
  formed or has a fault. The tree that a parse returns: its shape is in the text.
- The application's recurrence and next-alarm projection: a mirror of the
  firmware's on named zones that only displays.
- The registries of pairing candidates and paired devices, and the
  classification of a schedule diff: maps and lists for display.
- Restarts of the application: its stores are in memory and the file is the only
  state that remains.
- A missing, corrupt or unsupported store inside a tick: the tick ends with a
  status and no effect. `ScheduleStore` models when that happens.
- The evaluator called with a boot id: no caller in the firmware does it.
- Schema 1 keeps its generation outside its checksum; a corrupted generation that
  still decodes is not modelled.
- In `ScheduleFlow`: status codes shown to the user, the shape of tokens and
  identities, answers of unknown type (no change), and an error or receipt for
  another request, which the caller drops.
- Modelled but stated by no property: that the hour of an occurrence does not end
  early (`OccurrenceEnds` says that it ends), and that an armed latch keeps
  evaluation from admitting, which is the order of `run_runtime_tick`
  (`LatchClears` says that the latch does not stay armed).
- A clock so far from an alarm that the lateness is not representable: every pass
  ends at that alarm, before the alarms after it.
- Logging, diagnostics (`late`, `lateness_seconds`), user interface, hardware.

## Plan

1. `NextIsFirst` and `OneRingPerDate` as theorems under a condition on the records
   that real zones meet: transitions farther apart than a day, offsets within one.
2. The calendar composed with the runtime once the repository has the loop that
   connects them.
