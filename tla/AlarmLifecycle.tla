--------------------------- MODULE AlarmLifecycle ---------------------------
(***************************************************************************)
(* The occurrence engine driven the way its callers drive it, each call    *)
(* committed as one step: settling of the active occurrence, admission of  *)
(* due alarms, invalid-time reconciliation, the physical controls, the     *)
(* confirmed disable, schedule commits, clock corrections and reboots.     *)
(* AlarmRuntime splits the same calls into loads and compare-and-set saves.*)
(***************************************************************************)
EXTENDS InvalidTimeRecovery

CONSTANTS
  MaxWall,       \* bound: wall instants are 0 .. MaxWall
  MaxMono,       \* bound: uptime of one boot
  MaxBoots,      \* bound: boot sessions
  MaxRevision,   \* bound: committed schedule revisions
  Corrections    \* whether wall time may be corrected or lost

ASSUME LifecycleConstants ==
  /\ MaxWall \in Nat /\ MaxMono \in Nat
  /\ MaxBoots \in Nat \ {0} /\ MaxRevision \in Nat \ {0}
  /\ Corrections \in BOOLEAN

VARIABLES
  st,        \* the committed PersistentAlarmState
  defs,      \* the committed schedule: a definition or None per alarm id
  revision,  \* the committed schedule revision
  wall,      \* wall clock, seconds
  mono,      \* monotonic clock, seconds since boot
  valid,     \* whether the observation reports valid time
  boot,      \* identity of the current boot
  handled,   \* last_handled_boot_id = boot
  latched,   \* reconciliation_pending
  alert,     \* whether the alert is on: the edges the engine reported
  ended      \* history: occurrences that got an outcome

clockVars    == <<wall, mono, valid, boot>>
scheduleVars == <<defs, revision>>
vars == <<st, defs, revision, wall, mono, valid, boot, handled, latched,
          alert, ended>>

(* The definitions a schedule commit of revision r may hold: validate_     *)
(* snapshot bounds an alarm's own revision by the snapshot's.              *)
DefinitionsAt(r) ==
  [schedule_revision : 1 .. r, enabled : BOOLEAN, scheduled : 0 .. MaxWall]

Init ==
  /\ st = EmptyState
  /\ revision = 1
  /\ defs \in [AlarmIds -> DefinitionsAt(1) \cup {None}]
  /\ wall = 0 /\ mono = 0 /\ valid = TRUE
  /\ boot = 1 /\ handled = FALSE /\ latched = FALSE
  /\ alert = FALSE /\ ended = {}

-----------------------------------------------------------------------------
(* Committing a result: the state becomes durable, then the edges show.    *)
Commit(r) ==
  /\ st' = r.state
  /\ alert' = ((alert \/ r.start) /\ ~r.stop)
  /\ ended' = ended \cup
       (IF st.active # None /\ r.state.active = None
        THEN {st.active.occurrence_id} ELSE {})

(* Recovery on the first valid tick of a boot. *)
Recover ==
  /\ valid /\ ~handled
  /\ LET r == RecoverAfterReboot(st, wall, boot)
         s == Reanchored(r.state, wall, mono)
     IN /\ r.status # "invalid_time"
        /\ IF r.persist
           THEN /\ st' = s
                /\ alert' = (alert \/ r.start)
                /\ ended' = IF s.active = None
                            THEN ended \cup {st.active.occurrence_id}
                            ELSE ended
           ELSE UNCHANGED <<st, alert, ended>>
  /\ handled' = TRUE
  /\ UNCHANGED <<clockVars, scheduleVars, latched>>

(* Later ticks advance the active occurrence on the monotonic clock. *)
Advance ==
  /\ valid /\ handled
  /\ LET r == AdvanceActive(st, mono)
     IN r.persist /\ Commit(r)
  /\ UNCHANGED <<clockVars, scheduleVars, handled, latched>>

(* Due evaluation of one committed alarm. *)
Evaluate(id) ==
  /\ valid /\ handled /\ ~latched
  /\ defs[id] # None
  /\ LET r   == EvaluateDue(st, id, defs[id], wall, mono, TRUE)
         occ == MakeOccurrenceId(id, defs[id])
     IN /\ r.persist
        /\ st' = r.state
        /\ alert' = (alert \/ r.start)
        /\ ended' = IF r.start THEN ended ELSE ended \cup {occ}
  /\ UNCHANGED <<clockVars, scheduleVars, handled, latched>>

(* Reconciliation of an invalid interval; only a settled one clears the    *)
(* latch, and a refused one leaves everything for a later tick.            *)
Reconcile ==
  /\ valid /\ handled /\ latched
  /\ LET r == Reconciliation(st, defs, wall, mono)
     IN \/ /\ r.status = "batch"
           /\ st' = r.state
           /\ alert' = (alert \/ r.ringing # None)
           /\ ended' = ended \cup MissedIds(defs, r.missed)
           /\ latched' = FALSE
        \/ /\ r.status = "nothing_crossed"
           /\ latched' = FALSE
           /\ UNCHANGED <<st, alert, ended>>
  /\ UNCHANGED <<clockVars, scheduleVars, handled>>

(* The controls: a snooze or a dismissal of the active occurrence. *)
Snooze(duration) ==
  /\ st.active # None
  /\ LET r == RequestSnooze(st, st.active.occurrence_id, mono, duration)
     IN r.persist /\ Commit(r)
  /\ UNCHANGED <<clockVars, scheduleVars, handled, latched>>

Dismiss ==
  /\ st.active # None
  /\ Commit(DismissActive(st, st.active.occurrence_id, FALSE))
  /\ UNCHANGED <<clockVars, scheduleVars, handled, latched>>

(* Confirmed disable: dismiss the alarm's active occurrence, then commit   *)
(* the definition as disabled, unless it is disabled already.              *)
Disable(id) ==
  /\ defs[id] # None
  /\ IF st.active # None /\ st.active.alarm_id = id
     THEN Commit(DismissActive(st, st.active.occurrence_id, TRUE))
     ELSE UNCHANGED <<st, alert, ended>>
  /\ \/ /\ defs[id].enabled
        /\ revision < MaxRevision
        /\ defs' = [defs EXCEPT ![id].enabled = FALSE]
        /\ revision' = revision + 1
     \/ /\ ~defs[id].enabled
        /\ UNCHANGED scheduleVars
  /\ UNCHANGED <<clockVars, handled, latched>>

(* A schedule commit replaces or removes one definition and carries the    *)
(* occurrence state forward.                                               *)
SaveSchedule(id) ==
  /\ revision < MaxRevision
  /\ revision' = revision + 1
  /\ \E def \in DefinitionsAt(revision + 1) \cup {None} :
       /\ def # defs[id]
       /\ defs' = [defs EXCEPT ![id] = def]
  /\ UNCHANGED <<st, clockVars, handled, latched, alert, ended>>

-----------------------------------------------------------------------------
(* The environment: clocks, time validity, power. *)
Tick ==
  /\ mono < MaxMono /\ wall < MaxWall
  /\ mono' = mono + 1
  /\ wall' = wall + 1
  /\ UNCHANGED <<st, scheduleVars, valid, boot, handled, latched, alert,
                 ended>>

CorrectWall(w) ==
  /\ Corrections /\ valid
  /\ w # wall
  /\ wall' = w
  /\ UNCHANGED <<st, scheduleVars, mono, valid, boot, handled, latched,
                 alert, ended>>

(* A tick whose observation is invalid arms the latch. *)
LoseTime ==
  /\ Corrections /\ valid
  /\ valid' = FALSE
  /\ latched' = TRUE
  /\ UNCHANGED <<st, scheduleVars, wall, mono, boot, handled, alert, ended>>

RegainTime(w) ==
  /\ ~valid
  /\ valid' = TRUE
  /\ wall' = w
  /\ UNCHANGED <<st, scheduleVars, mono, boot, handled, latched, alert, ended>>

(* Power is lost and returns at wall instant w.  The caller may arm the    *)
(* latch when it knows that time was lost; an invalid tick arms it.        *)
Reboot(w) ==
  /\ boot < MaxBoots
  /\ boot' = boot + 1
  /\ w >= wall
  /\ wall' = w
  /\ mono' = 0
  /\ handled' = FALSE
  /\ valid' \in IF Corrections THEN BOOLEAN ELSE {TRUE}
  /\ latched' \in BOOLEAN /\ (~valid' => latched')
  /\ alert' = FALSE
  /\ UNCHANGED <<st, scheduleVars, ended>>

Next ==
  \/ Recover \/ Advance \/ Reconcile \/ Dismiss
  \/ \E id \in AlarmIds : Evaluate(id) \/ Disable(id) \/ SaveSchedule(id)
  \/ \E duration \in 0 .. MaxSnooze + 1 : Snooze(duration)
  \/ Tick \/ LoseTime
  \/ \E w \in 0 .. MaxWall : CorrectWall(w) \/ RegainTime(w) \/ Reboot(w)

Spec == Init /\ [][Next]_vars
-----------------------------------------------------------------------------
(* Types of everything but the terminal list, which the store's validation *)
(* bounds (TransitionsSavable of AlarmRuntime).                            *)
TypeOK ==
  /\ st = State(st.active, st.terminal, st.watermarks)
  /\ st.active \in ActiveOccurrences \cup {None}
  /\ st.watermarks \in [AlarmIds -> Int \cup {None}]
  /\ defs \in [AlarmIds -> AlarmDefinitions \cup {None}]
  /\ revision \in Nat \ {0}
  /\ wall \in Int /\ mono \in Int
  /\ valid \in BOOLEAN /\ handled \in BOOLEAN /\ latched \in BOOLEAN
  /\ alert \in BOOLEAN
  /\ boot \in Nat
  /\ ended \subseteq OccurrenceIds

(* An instant of an alarm that has an outcome is never rung again: not     *)
(* after a reboot, a backward clock correction, an edit that gives the     *)
(* alarm a new schedule revision, or once the bounded list of recent       *)
(* outcomes has forgotten it (alarm-semantics.md, duplicate prevention).   *)
NoInstantTwice ==
  st.active # None =>
    \A occ \in ended :
      occ.alarm = st.active.alarm_id => occ.scheduled < st.active.scheduled

(* Every outcome ever recorded is covered by its alarm's watermark, which  *)
(* is what keeps NoInstantTwice true after the record itself is dropped.   *)
OutcomesRemembered ==
  \A occ \in ended : AtOrBelowWatermark(st, occ.alarm, occ.scheduled)

(* A watermark is only raised to an instant the clock has reached, or to   *)
(* that of the occurrence that ends, itself reached when it was admitted:  *)
(* no outcome suppresses an occurrence that is still to come.              *)
Admitted ==
  /\ st'.active # None
  /\ st.active = None \/ st'.active.occurrence_id # st.active.occurrence_id
NoFutureSuppressed ==
  [][/\ Admitted => st'.active.scheduled <= wall
     /\ \A id \in AlarmIds :
          st'.watermarks[id] # st.watermarks[id] =>
            \/ st'.watermarks[id] <= wall
            \/ /\ st.active # None /\ st.active.alarm_id = id
               /\ st'.watermarks[id] = st.active.scheduled]_vars

(* The lifecycle keeps the promises of the ledger. *)
Ledger == INSTANCE OccurrenceLedger
  WITH Occurrences <- OccurrenceIds,
       Nobody      <- None,
       current     <- IF st.active = None THEN None
                      ELSE st.active.occurrence_id,
       ended       <- ended
ImplementsLedger == Ledger!LedgerSpec
=============================================================================
