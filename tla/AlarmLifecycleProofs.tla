------------------------ MODULE AlarmLifecycleProofs ------------------------
(***************************************************************************)
(* For every set of alarms, every grace, snooze, lifetime, retention and   *)
(* capacity, every clock and any number of reboots: an occurrence that has *)
(* an outcome is covered by its alarm's watermark, the active occurrence   *)
(* is above it, and so no instant rings twice; and no outcome suppresses   *)
(* an occurrence that is still to come.                                    *)
(***************************************************************************)
EXTENDS AlarmLifecycle, AlarmEngineProofs, TLAPS

(* The inductive invariant. *)
IInv == TypeOK /\ Good(st, ended)

-----------------------------------------------------------------------------
(* What a step does to the journal: the invariant of the journal holds     *)
(* afterwards, and the step is one of the ledger's or leaves it alone.     *)
JournalStep ==
  /\ Good(st', ended')
  /\ Ledger!LedgerNext \/ UNCHANGED Ledger!ledger

LEMMA UntouchedStep ==
  ASSUME IInv, UNCHANGED <<st, ended>>
  PROVE  JournalStep
  BY DEF IInv, JournalStep, Ledger!ledger

(* The active occurrence goes on, or finishes. *)
LEMMA ActiveStep ==
  ASSUME IInv, st.active # None, ContinuesOrEnds(st, st'),
         ended' = ended \cup (IF st'.active = None
                             THEN {st.active.occurrence_id} ELSE {})
  PROVE  JournalStep
  <1>1. Good(st, ended)
    BY DEF IInv
  <1>2. /\ Good(st', IF st'.active = None
                     THEN ended \cup {st.active.occurrence_id} ELSE ended)
        /\ st.active.occurrence_id \in OccurrenceIds
        /\ st'.active # None =>
             st'.active.occurrence_id = st.active.occurrence_id
    BY <1>1, GoodContinuesOrEnds
  <1>3. CASE st'.active = None
    <2>1. ended' = ended \cup {st.active.occurrence_id}
      BY <1>3
    <2>2. Good(st', ended')
      BY <1>2, <1>3, <2>1
    <2>3. st.active.occurrence_id # None
      BY <1>2, NoneIsNoIdentity
    <2>4. Ledger!Finish
      BY <1>3, <2>1, <2>3 DEF Ledger!Finish
    <2> QED
      BY <2>2, <2>4 DEF JournalStep, Ledger!LedgerNext
  <1>4. CASE st'.active # None
    <2>1. ended' = ended
      BY <1>4
    <2>2. Good(st', ended')
      BY <1>2, <1>4, <2>1
    <2>3. UNCHANGED Ledger!ledger
      BY <1>2, <1>4, <2>1 DEF Ledger!ledger
    <2> QED
      BY <2>2, <2>3 DEF JournalStep
  <1> QED
    BY <1>3, <1>4

(* An occurrence without outcome takes the alert, or occurrences that      *)
(* never ring get their outcomes.                                          *)
LEMMA AdmissionStep ==
  ASSUME IInv, st.active = None, Good(st', ended'), ended \subseteq ended',
         st'.active # None => /\ st'.active.occurrence_id \in OccurrenceIds
                              /\ st'.active.occurrence_id \notin ended'
  PROVE  JournalStep
  <1>1. ended' \subseteq OccurrenceIds
    BY DEF Good
  <1>2. CASE st'.active = None
    BY <1>1, <1>2 DEF JournalStep, Ledger!LedgerNext, Ledger!Miss,
                      Ledger!Missing
  <1>3. CASE st'.active # None
    BY <1>1, <1>3 DEF JournalStep, Ledger!LedgerNext, Ledger!Admit,
                      Ledger!Missing
  <1> QED
    BY <1>2, <1>3

-----------------------------------------------------------------------------
(* One lemma per action that touches the journal. *)
LEMMA CommitStep ==
  ASSUME IInv, st.active # None, NEW r, Commit(r),
         ContinuesOrEnds(st, r.state)
  PROVE  JournalStep
  BY ActiveStep DEF Commit

LEMMA RecoverStep ==
  ASSUME IInv, Recover
  PROVE  JournalStep
  <1> DEFINE r == RecoverAfterReboot(st, wall, boot)
             s == Reanchored(r.state, wall, mono)
  <1>1. CASE ~r.persist
    BY <1>1, UntouchedStep DEF Recover
  <1>2. CASE r.persist
    <2>1. Good(st, ended) /\ wall \in Int /\ mono \in Int /\ boot \in Nat
      BY DEF IInv, TypeOK
    <2>2. st.active # None /\ ContinuesOrEnds(st, s)
      BY <1>2, <2>1, RecoveryContinuesOrEnds
    <2>3. /\ st' = s
          /\ ended' = IF s.active = None
                      THEN ended \cup {st.active.occurrence_id}
                      ELSE ended
      BY <1>2 DEF Recover
    <2> HIDE DEF s, r
    <2>4. ended' = ended \cup (IF st'.active = None
                              THEN {st.active.occurrence_id} ELSE {})
      BY <2>3
    <2> QED
      BY <2>2, <2>3, <2>4, ActiveStep
  <1> QED
    BY <1>1, <1>2

LEMMA AdvanceStep ==
  ASSUME IInv, Advance
  PROVE  JournalStep
  <1> DEFINE r == AdvanceActive(st, mono)
  <1>1. r.persist /\ Commit(r)
    BY DEF Advance
  <1>2. StateOK(st) /\ mono \in Int
    BY DEF IInv, Good, TypeOK
  <1>3. st.active # None /\ ContinuesOrEnds(st, r.state)
    BY <1>1, <1>2, AdvanceContinuesOrEnds
  <1> HIDE DEF r
  <1> QED
    BY <1>1, <1>3, CommitStep

LEMMA EvaluateStep ==
  ASSUME IInv, NEW id \in AlarmIds, Evaluate(id)
  PROVE  JournalStep
  <1> DEFINE def == defs[id]
             occ == MakeOccurrenceId(id, def)
             r   == EvaluateDue(st, id, def, wall, mono, TRUE)
             a   == FreshActive(id, occ, def.scheduled, wall, mono)
             j   == JournalTerminal(st, id, occ, def.scheduled, "forward_jump")
  <1>1. /\ Good(st, ended) /\ wall \in Int /\ mono \in Int
        /\ def \in AlarmDefinitions
    BY DEF IInv, TypeOK, Evaluate
  <1>2. /\ occ \in OccurrenceIds
        /\ occ.alarm = id /\ occ.scheduled = def.scheduled
    BY <1>1 DEF MakeOccurrenceId, OccurrenceId, OccurrenceIds,
                AlarmDefinitions
  <1>3. /\ r.persist
        /\ st' = r.state
        /\ ended' = IF r.start THEN ended ELSE ended \cup {occ}
    BY DEF Evaluate
  <1> HIDE DEF occ, def
  <1>4. /\ st.active = None
        /\ ~AtOrBelowWatermark(st, id, def.scheduled)
        /\ \/ r = Result(j, "missed", FALSE, FALSE)
           \/ r = Result(WithActive(st, a), "ringing", TRUE, FALSE)
    BY <1>3 DEF EvaluateDue, NoChange, occ
  <1>5. CASE r = Result(j, "missed", FALSE, FALSE)
    <2> HIDE DEF r, j
    <2>0. r.state = j /\ ~r.start
      BY <1>5 DEF Result
    <2>1. st' = j /\ ended' = ended \cup {occ}
      BY <1>3, <2>0
    <2>2. StateOK(j) /\ j.active = None /\ Covered(j, ended \cup {occ})
      <3>1. j = JournalTerminal(st, occ.alarm, occ, occ.scheduled,
                                "forward_jump")
        BY <1>2 DEF j
      <3> QED
        BY <1>1, <1>2, <1>4, <3>1, JournalTerminalFacts DEF Good
    <2>3. Good(st', ended') /\ st'.active = None
      BY <1>1, <1>2, <2>1, <2>2 DEF Good, ActiveAboveWatermark
    <2> QED
      BY <1>4, <2>1, <2>3, AdmissionStep
  <1>6. CASE r = Result(WithActive(st, a), "ringing", TRUE, FALSE)
    <2> HIDE DEF r, a
    <2>0. r.state = WithActive(st, a) /\ r.start
      BY <1>6 DEF Result
    <2>1. st' = WithActive(st, a) /\ ended' = ended
      BY <1>3, <2>0
    <2>2. Good(WithActive(st, a), ended) /\ occ \notin ended
      BY <1>1, <1>2, <1>4, GoodFresh DEF a
    <2>3. a.occurrence_id = occ
      BY DEF FreshActive, a
    <2>4. st'.active = a
      BY <2>1 DEF WithActive, State
    <2> QED
      BY <1>2, <1>4, <2>1, <2>2, <2>3, <2>4, AdmissionStep
  <1> QED
    BY <1>4, <1>5, <1>6

LEMMA ReconcileStep ==
  ASSUME IInv, Reconcile
  PROVE  JournalStep
  <1> DEFINE r == Reconciliation(st, defs, wall, mono)
  <1>1. CASE r.status = "batch"
    <2>1. /\ st' = r.state
          /\ ended' = ended \cup MissedIds(defs, r.missed)
      BY <1>1 DEF Reconcile
    <2>2. /\ Good(st, ended) /\ wall \in Int /\ mono \in Int
          /\ defs \in [AlarmIds -> AlarmDefinitions \cup {None}]
      BY DEF IInv, TypeOK
    <2>3. /\ st.active = None
          /\ Good(r.state, ended \cup MissedIds(defs, r.missed))
          /\ r.state.active # None =>
               /\ r.state.active.occurrence_id \in OccurrenceIds
               /\ r.state.active.occurrence_id
                    \notin ended \cup MissedIds(defs, r.missed)
      BY <1>1, <2>2, GoodBatch
    <2> HIDE DEF r
    <2> QED
      BY <2>1, <2>3, AdmissionStep
  <1>2. CASE r.status # "batch"
    BY <1>2, UntouchedStep DEF Reconcile
  <1> QED
    BY <1>1, <1>2

LEMMA SnoozeStep ==
  ASSUME IInv, NEW duration \in 0 .. MaxSnooze + 1, Snooze(duration)
  PROVE  JournalStep
  <1> DEFINE r == RequestSnooze(st, st.active.occurrence_id, mono, duration)
  <1>1. st.active # None /\ r.persist /\ Commit(r)
    BY DEF Snooze
  <1>2. StateOK(st) /\ mono \in Int /\ duration \in Int
    BY EngineConstants DEF IInv, Good, TypeOK
  <1>3. ContinuesOrEnds(st, r.state)
    BY <1>1, <1>2, SnoozeContinues
  <1> HIDE DEF r
  <1> QED
    BY <1>1, <1>3, CommitStep

LEMMA DismissStep ==
  ASSUME IInv, st.active # None, NEW disabled \in BOOLEAN,
         Commit(DismissActive(st, st.active.occurrence_id, disabled))
  PROVE  JournalStep
  BY DismissEnds, CommitStep

-----------------------------------------------------------------------------
(* The journal's invariant and the types of the other variables.           *)
OthersTyped ==
  /\ defs \in [AlarmIds -> AlarmDefinitions \cup {None}]
  /\ revision \in Nat \ {0}
  /\ wall \in Int /\ mono \in Int
  /\ valid \in BOOLEAN /\ handled \in BOOLEAN /\ latched \in BOOLEAN
  /\ alert \in BOOLEAN
  /\ boot \in Nat

LEMMA IInvParts == IInv <=> Good(st, ended) /\ OthersTyped
  BY DEF IInv, OthersTyped, TypeOK, Good, StateOK

LEMMA IInvPartsNext == IInv' <=> Good(st', ended') /\ OthersTyped'
  BY DEF IInv, OthersTyped, TypeOK, Good, StateOK, ActiveAboveWatermark,
         Covered, AtOrBelowWatermark

LEMMA DefinitionsTyped ==
  ASSUME NEW r \in Nat \ {0}
  PROVE  DefinitionsAt(r) \subseteq AlarmDefinitions
  BY LifecycleConstants DEF DefinitionsAt, AlarmDefinitions

LEMMA InitEstablishesIInv ==
  ASSUME Init
  PROVE  IInv
  <1>1. Good(st, ended)
    BY DEF Init, EmptyState, State, Good, StateOK, ActiveAboveWatermark,
           Covered
  <1>2. OthersTyped
    <2>1. DefinitionsAt(1) \subseteq AlarmDefinitions
      BY DefinitionsTyped
    <2>2. defs \in [AlarmIds -> AlarmDefinitions \cup {None}]
      BY <2>1 DEF Init
    <2>3. /\ revision = 1 /\ wall = 0 /\ mono = 0 /\ valid = TRUE
          /\ boot = 1 /\ handled = FALSE /\ latched = FALSE
          /\ alert = FALSE
      BY DEF Init
    <2>4. /\ revision \in Nat \ {0} /\ boot \in Nat
          /\ wall \in Int /\ mono \in Int
      BY <2>3
    <2>5. /\ valid \in BOOLEAN /\ handled \in BOOLEAN
          /\ latched \in BOOLEAN /\ alert \in BOOLEAN
      BY <2>3
    <2> QED
      BY <2>2, <2>4, <2>5 DEF OthersTyped
  <1> QED
    BY <1>1, <1>2, IInvParts

(* Every step keeps the types of the schedule, the clocks and the flags. *)
LEMMA NextKeepsTypes ==
  ASSUME IInv, [Next]_vars
  PROVE  OthersTyped'
  <1> USE DEF OthersTyped, clockVars, scheduleVars
  <1>0. OthersTyped
    BY IInvParts
  <1>1. CASE Recover
    BY <1>0, <1>1 DEF Recover
  <1>2. CASE Advance
    BY <1>0, <1>2 DEF Advance, Commit
  <1>3. CASE Reconcile
    BY <1>0, <1>3 DEF Reconcile
  <1>4. CASE Dismiss
    BY <1>0, <1>4 DEF Dismiss, Commit
  <1>5. ASSUME NEW id \in AlarmIds, Evaluate(id)
        PROVE  OthersTyped'
    BY <1>0, <1>5 DEF Evaluate
  <1>6. ASSUME NEW id \in AlarmIds, Disable(id)
        PROVE  OthersTyped'
    <2>1. defs[id] \in AlarmDefinitions
      BY <1>0, <1>6 DEF Disable
    <2>2. [defs[id] EXCEPT !.enabled = FALSE] \in AlarmDefinitions
      BY <2>1 DEF AlarmDefinitions
    <2>3. \/ /\ defs' = [defs EXCEPT ![id] = [defs[id] EXCEPT !.enabled = FALSE]]
             /\ revision' = revision + 1
          \/ UNCHANGED scheduleVars
      BY <1>6 DEF Disable
    <2>4. /\ defs' \in [AlarmIds -> AlarmDefinitions \cup {None}]
          /\ revision' \in Nat \ {0}
      <3>1. CASE /\ defs' = [defs EXCEPT ![id] = [defs[id] EXCEPT !.enabled = FALSE]]
                 /\ revision' = revision + 1
        BY <1>0, <2>2, <3>1
      <3>2. CASE UNCHANGED scheduleVars
        BY <1>0, <3>2
      <3> QED
        BY <2>3, <3>1, <3>2
    <2>5. alert' \in BOOLEAN
      <3>1. CASE st.active # None /\ st.active.alarm_id = id
        BY <1>6, <3>1 DEF Disable, Commit
      <3>2. CASE ~(st.active # None /\ st.active.alarm_id = id)
        BY <1>0, <1>6, <3>2 DEF Disable
      <3> QED
        BY <3>1, <3>2
    <2>6. UNCHANGED <<clockVars, handled, latched>>
      BY <1>6 DEF Disable
    <2> QED
      BY <1>0, <2>4, <2>5, <2>6
  <1>7. ASSUME NEW id \in AlarmIds, SaveSchedule(id)
        PROVE  OthersTyped'
    <2>1. revision + 1 \in Nat \ {0}
      BY <1>0
    <2>2. PICK def \in DefinitionsAt(revision + 1) \cup {None} :
            defs' = [defs EXCEPT ![id] = def]
      BY <1>7 DEF SaveSchedule
    <2>3. def \in AlarmDefinitions \cup {None}
      BY <2>1, <2>2, DefinitionsTyped
    <2> QED
      BY <1>0, <1>7, <2>1, <2>2, <2>3 DEF SaveSchedule
  <1>8. ASSUME NEW duration \in 0 .. MaxSnooze + 1, Snooze(duration)
        PROVE  OthersTyped'
    BY <1>0, <1>8 DEF Snooze, Commit
  <1>9. CASE Tick
    BY <1>0, <1>9 DEF Tick
  <1>10. CASE LoseTime
    BY <1>0, <1>10 DEF LoseTime
  <1>11. ASSUME NEW w \in 0 .. MaxWall,
                CorrectWall(w) \/ RegainTime(w) \/ Reboot(w)
         PROVE  OthersTyped'
    <2>1. CASE CorrectWall(w)
      BY <1>0, <2>1 DEF CorrectWall
    <2>2. CASE RegainTime(w)
      BY <1>0, <2>2 DEF RegainTime
    <2>3. CASE Reboot(w)
      <3>1. valid' \in BOOLEAN
        BY <2>3 DEF Reboot
      <3>2. /\ boot' = boot + 1 /\ wall' = w /\ mono' = 0
            /\ handled' = FALSE /\ latched' \in BOOLEAN /\ alert' = FALSE
            /\ UNCHANGED <<defs, revision>>
        BY <2>3 DEF Reboot
      <3>3. boot' \in Nat /\ wall' \in Int /\ mono' \in Int
        BY <1>0, <3>2
      <3>4. handled' \in BOOLEAN /\ alert' \in BOOLEAN
        BY <3>2
      <3> QED
        BY <1>0, <3>1, <3>2, <3>3, <3>4
    <2> QED
      BY <1>11, <2>1, <2>2, <2>3
  <1>12. CASE UNCHANGED vars
    BY <1>0, <1>12 DEF vars
  <1> QED
    BY <1>1, <1>2, <1>3, <1>4, <1>5, <1>6, <1>7, <1>8, <1>9, <1>10, <1>11,
       <1>12 DEF Next

(* Every step is one of the ledger's, or leaves the ledger alone. *)
LEMMA NextIsJournalStep ==
  ASSUME IInv, [Next]_vars
  PROVE  JournalStep
  <1>1. CASE Recover
    BY <1>1, RecoverStep
  <1>2. CASE Advance
    BY <1>2, AdvanceStep
  <1>3. CASE Reconcile
    BY <1>3, ReconcileStep
  <1>4. CASE Dismiss
    BY <1>4, DismissStep DEF Dismiss
  <1>5. ASSUME NEW id \in AlarmIds, Evaluate(id)
        PROVE  JournalStep
    BY <1>5, EvaluateStep
  <1>6. ASSUME NEW id \in AlarmIds, Disable(id)
        PROVE  JournalStep
    <2>1. CASE st.active # None /\ st.active.alarm_id = id
      BY <1>6, <2>1, DismissStep DEF Disable
    <2>2. CASE ~(st.active # None /\ st.active.alarm_id = id)
      BY <1>6, <2>2, UntouchedStep DEF Disable
    <2> QED
      BY <2>1, <2>2
  <1>7. ASSUME NEW id \in AlarmIds, SaveSchedule(id)
        PROVE  JournalStep
    BY <1>7, UntouchedStep DEF SaveSchedule
  <1>8. ASSUME NEW duration \in 0 .. MaxSnooze + 1, Snooze(duration)
        PROVE  JournalStep
    BY <1>8, SnoozeStep
  <1>9. CASE Tick \/ LoseTime
    BY <1>9, UntouchedStep DEF Tick, LoseTime
  <1>10. ASSUME NEW w \in 0 .. MaxWall,
                CorrectWall(w) \/ RegainTime(w) \/ Reboot(w)
         PROVE  JournalStep
    BY <1>10, UntouchedStep DEF CorrectWall, RegainTime, Reboot
  <1>11. CASE UNCHANGED vars
    BY <1>11, UntouchedStep DEF vars
  <1> QED
    BY <1>1, <1>2, <1>3, <1>4, <1>5, <1>6, <1>7, <1>8, <1>9, <1>10, <1>11
    DEF Next

-----------------------------------------------------------------------------
(* What a step may admit and where it may raise a watermark: the step of   *)
(* NoFutureSuppressed.                                                     *)
Timely ==
  /\ Admitted => st'.active.scheduled <= wall
  /\ \A id \in AlarmIds :
       st'.watermarks[id] # st.watermarks[id] =>
         \/ st'.watermarks[id] <= wall
         \/ /\ st.active # None /\ st.active.alarm_id = id
            /\ st'.watermarks[id] = st.active.scheduled

LEMMA UntouchedIsTimely ==
  ASSUME UNCHANGED st
  PROVE  Timely
  BY DEF Timely, Admitted

(* The active occurrence goes on, or raises its own alarm's watermark to   *)
(* its own instant.                                                        *)
LEMMA ActiveIsTimely ==
  ASSUME IInv, st.active # None, ContinuesOrEnds(st, st')
  PROVE  Timely
  <1>1. st.watermarks \in [AlarmIds -> Int \cup {None}]
    BY DEF IInv, TypeOK
  <1>2. CASE \E reason \in Reasons : st' = EndActive(st, reason)
    <2>1. /\ st'.active = None
          /\ st'.watermarks = RaiseWatermark(st.watermarks,
                                st.active.alarm_id, st.active.scheduled)
      BY <1>2 DEF EndActive, JournalTerminal, WithActive, State
    <2> QED
      BY <1>1, <2>1 DEF Timely, Admitted, RaiseWatermark
  <1>3. CASE ~ \E reason \in Reasons : st' = EndActive(st, reason)
    <2>1. /\ st' = WithActive(st, st'.active)
          /\ st'.active.occurrence_id = st.active.occurrence_id
      BY <1>3 DEF ContinuesOrEnds
    <2>2. st'.watermarks = st.watermarks
      BY <2>1 DEF WithActive, State
    <2> QED
      BY <2>1, <2>2 DEF Timely, Admitted
  <1> QED
    BY <1>2, <1>3

LEMMA RecoverIsTimely ==
  ASSUME IInv, Recover
  PROVE  Timely
  <1> DEFINE r == RecoverAfterReboot(st, wall, boot)
             s == Reanchored(r.state, wall, mono)
  <1>1. CASE ~r.persist
    BY <1>1, UntouchedIsTimely DEF Recover
  <1>2. CASE r.persist
    <2>1. Good(st, ended) /\ wall \in Int /\ mono \in Int /\ boot \in Nat
      BY DEF IInv, TypeOK
    <2>2. st.active # None /\ ContinuesOrEnds(st, s)
      BY <1>2, <2>1, RecoveryContinuesOrEnds
    <2>3. st' = s
      BY <1>2 DEF Recover
    <2> HIDE DEF s, r
    <2> QED
      BY <2>2, <2>3, ActiveIsTimely
  <1> QED
    BY <1>1, <1>2

LEMMA AdvanceIsTimely ==
  ASSUME IInv, Advance
  PROVE  Timely
  <1> DEFINE r == AdvanceActive(st, mono)
  <1>1. r.persist /\ st' = r.state
    BY DEF Advance, Commit
  <1>2. StateOK(st) /\ mono \in Int
    BY DEF IInv, Good, TypeOK
  <1>3. st.active # None /\ ContinuesOrEnds(st, r.state)
    BY <1>1, <1>2, AdvanceContinuesOrEnds
  <1> HIDE DEF r
  <1> QED
    BY <1>1, <1>3, ActiveIsTimely

LEMMA SnoozeIsTimely ==
  ASSUME IInv, NEW duration \in 0 .. MaxSnooze + 1, Snooze(duration)
  PROVE  Timely
  <1> DEFINE r == RequestSnooze(st, st.active.occurrence_id, mono, duration)
  <1>1. st.active # None /\ r.persist /\ st' = r.state
    BY DEF Snooze, Commit
  <1>2. StateOK(st) /\ mono \in Int /\ duration \in Int
    BY EngineConstants DEF IInv, Good, TypeOK
  <1>3. ContinuesOrEnds(st, r.state)
    BY <1>1, <1>2, SnoozeContinues
  <1> HIDE DEF r
  <1> QED
    BY <1>1, <1>3, ActiveIsTimely

LEMMA DismissIsTimely ==
  ASSUME IInv, st.active # None, NEW disabled \in BOOLEAN,
         Commit(DismissActive(st, st.active.occurrence_id, disabled))
  PROVE  Timely
  BY DismissEnds, ActiveIsTimely DEF Commit

(* A due evaluation acts on its alarm only once its instant is reached:    *)
(* it admits the occurrence, or raises the watermark to that instant.      *)
LEMMA EvaluateIsTimely ==
  ASSUME IInv, NEW id \in AlarmIds, Evaluate(id)
  PROVE  Timely
  <1> DEFINE def == defs[id]
             occ == MakeOccurrenceId(id, def)
             r   == EvaluateDue(st, id, def, wall, mono, TRUE)
             a   == FreshActive(id, occ, def.scheduled, wall, mono)
             j   == JournalTerminal(st, id, occ, def.scheduled, "forward_jump")
  <1>1. /\ wall \in Int /\ def \in AlarmDefinitions
        /\ st.watermarks \in [AlarmIds -> Int \cup {None}]
        /\ st' = r.state /\ r.persist
    BY DEF IInv, TypeOK, Evaluate
  <1>2. def.scheduled \in Int
    BY <1>1 DEF AlarmDefinitions
  <1> HIDE DEF occ, def
  <1>3. /\ st.active = None
        /\ ~(wall < def.scheduled)
        /\ \/ r = Result(j, "missed", FALSE, FALSE)
           \/ r = Result(WithActive(st, a), "ringing", TRUE, FALSE)
    BY <1>1 DEF EvaluateDue, NoChange, occ
  <1>4. CASE r = Result(j, "missed", FALSE, FALSE)
    <2> HIDE DEF r, j
    <2>1. st' = j
      BY <1>1, <1>4 DEF Result
    <2>2. /\ st'.active = None
          /\ st'.watermarks = RaiseWatermark(st.watermarks, id, def.scheduled)
      BY <1>3, <2>1 DEF j, JournalTerminal, State
    <2> QED
      BY <1>1, <1>2, <1>3, <2>2 DEF Timely, Admitted, RaiseWatermark
  <1>5. CASE r = Result(WithActive(st, a), "ringing", TRUE, FALSE)
    <2>1. a.scheduled = def.scheduled
      BY DEF FreshActive
    <2> HIDE DEF r, a
    <2>2. st' = WithActive(st, a)
      BY <1>1, <1>5 DEF Result
    <2>3. st'.active = a /\ st'.watermarks = st.watermarks
      BY <2>2 DEF WithActive, State
    <2> QED
      BY <1>1, <1>2, <1>3, <2>1, <2>3 DEF Timely, Admitted
  <1> QED
    BY <1>3, <1>4, <1>5

(* A reconciliation settles only occurrences whose instant wall time has   *)
(* crossed, the one that rings among them.                                 *)
LEMMA ReconcileIsTimely ==
  ASSUME IInv, Reconcile
  PROVE  Timely
  <1> DEFINE crossed == Crossed(st, defs, wall)
             newest  == NewestOf(defs, crossed)
             rings   == wall - defs[newest].scheduled <= Grace
             missed  == IF rings THEN crossed \ {newest} ELSE crossed
             journal == JournalMissed(st, defs, missed)
             occ     == MakeOccurrenceId(newest, defs[newest])
             a       == FreshActive(newest, occ, defs[newest].scheduled,
                                    wall, mono)
             r       == Reconciliation(st, defs, wall, mono)
  <1>1. CASE r.status # "batch"
    BY <1>1, UntouchedIsTimely DEF Reconcile
  <1>2. CASE r.status = "batch"
    <2>1. st' = r.state
      BY <1>2 DEF Reconcile
    <2>2. st.active = None
      BY <1>2 DEF Reconciliation
    <2>3. /\ crossed # {}
          /\ r.state = IF rings THEN WithActive(journal, a) ELSE journal
      BY <1>2, <2>2 DEF Reconciliation, BeginRecoveredRing
    <2>4. /\ defs \in [AlarmIds -> AlarmDefinitions \cup {None}]
          /\ wall \in Int
      BY DEF IInv, TypeOK
    <2>5. \A x \in crossed : /\ x \in AlarmIds
                             /\ defs[x].scheduled \in Int
                             /\ defs[x].scheduled <= wall
      BY <2>4 DEF Crossed, AlarmDefinitions
    <2> HIDE DEF crossed, r
    <2>6. newest \in crossed
      BY <2>3, <2>5, NewestExists DEF IsNewest
    <2> HIDE DEF newest
    <2>7. missed \subseteq crossed
      OBVIOUS
    <2> HIDE DEF missed, rings
    <2>8. /\ journal.active = None
          /\ journal.watermarks = [x \in AlarmIds |->
               IF x \in missed THEN defs[x].scheduled ELSE st.watermarks[x]]
      BY <2>2 DEF JournalMissed, State
    <2>9. a.scheduled = defs[newest].scheduled
      BY DEF FreshActive
    <2> HIDE DEF journal, a
    <2>10. /\ st'.watermarks = journal.watermarks
           /\ st'.active = None \/ st'.active = a
      BY <2>1, <2>3, <2>8 DEF WithActive, State
    <2>11. Admitted => st'.active.scheduled <= wall
      BY <2>5, <2>6, <2>9, <2>10 DEF Admitted
    <2>12. \A x \in AlarmIds :
             st'.watermarks[x] # st.watermarks[x] => st'.watermarks[x] <= wall
      BY <2>5, <2>7, <2>8, <2>10
    <2> QED
      BY <2>11, <2>12 DEF Timely
  <1> QED
    BY <1>1, <1>2

LEMMA NextIsTimely ==
  ASSUME IInv, [Next]_vars
  PROVE  Timely
  <1>1. CASE Recover
    BY <1>1, RecoverIsTimely
  <1>2. CASE Advance
    BY <1>2, AdvanceIsTimely
  <1>3. CASE Reconcile
    BY <1>3, ReconcileIsTimely
  <1>4. CASE Dismiss
    BY <1>4, DismissIsTimely DEF Dismiss
  <1>5. ASSUME NEW id \in AlarmIds, Evaluate(id)
        PROVE  Timely
    BY <1>5, EvaluateIsTimely
  <1>6. ASSUME NEW id \in AlarmIds, Disable(id)
        PROVE  Timely
    <2>1. CASE st.active # None /\ st.active.alarm_id = id
      BY <1>6, <2>1, DismissIsTimely DEF Disable
    <2>2. CASE ~(st.active # None /\ st.active.alarm_id = id)
      BY <1>6, <2>2, UntouchedIsTimely DEF Disable
    <2> QED
      BY <2>1, <2>2
  <1>7. ASSUME NEW duration \in 0 .. MaxSnooze + 1, Snooze(duration)
        PROVE  Timely
    BY <1>7, SnoozeIsTimely
  <1>8. CASE UNCHANGED st
    BY <1>8, UntouchedIsTimely
  <1> QED
    BY <1>1, <1>2, <1>3, <1>4, <1>5, <1>6, <1>7, <1>8
    DEF Next, SaveSchedule, Tick, LoseTime, CorrectWall, RegainTime, Reboot,
        vars

-----------------------------------------------------------------------------
(* The inductive invariant holds in every reachable state. *)
THEOREM Invariance == Spec => []IInv
  <1>1. Init => IInv
    BY InitEstablishesIInv
  <1>2. IInv /\ [Next]_vars => IInv'
    BY NextKeepsTypes, NextIsJournalStep, IInvPartsNext DEF JournalStep
  <1> QED
    BY <1>1, <1>2, PTL DEF Spec

(* Every variable keeps its type: the records the engine builds have every *)
(* field of an occurrence, an outcome and a watermark.                     *)
THEOREM TypeCorrectness == Spec => []TypeOK
  <1>1. IInv => TypeOK
    BY DEF IInv
  <1> QED
    BY <1>1, Invariance, PTL

(* Every outcome is covered by the watermark of its alarm, however many    *)
(* later outcomes the bounded list of terminal records has forgotten.      *)
THEOREM OutcomesAreRemembered == Spec => []OutcomesRemembered
  <1>1. IInv => OutcomesRemembered
    BY DEF IInv, Good, Covered, OutcomesRemembered
  <1> QED
    BY <1>1, Invariance, PTL

(* An instant of an alarm that has an outcome never rings again: not after *)
(* reboots, backward corrections, edits or evictions, whatever the bounds. *)
THEOREM NoInstantRingsTwice == Spec => []NoInstantTwice
  <1>1. IInv => NoInstantTwice
    <2> SUFFICES ASSUME IInv, st.active # None, NEW occ \in ended,
                        occ.alarm = st.active.alarm_id
                 PROVE  occ.scheduled < st.active.scheduled
      BY DEF NoInstantTwice
    <2>1. /\ st.active.alarm_id \in AlarmIds /\ st.active.scheduled \in Int
          /\ occ.scheduled \in Int
          /\ st.watermarks \in [AlarmIds -> Int \cup {None}]
      BY DEF IInv, Good, StateOK, ActiveOccurrences, OccurrenceIds
    <2>2. AtOrBelowWatermark(st, occ.alarm, occ.scheduled)
      BY DEF IInv, Good, Covered
    <2>3. ~AtOrBelowWatermark(st, st.active.alarm_id, st.active.scheduled)
      BY DEF IInv, Good, ActiveAboveWatermark
    <2> QED
      BY <2>1, <2>2, <2>3 DEF AtOrBelowWatermark
  <1> QED
    BY <1>1, Invariance, PTL

(* A step admits only an occurrence whose instant the clock has reached,   *)
(* and raises a watermark only to such an instant or to that of the        *)
(* occurrence that ends: no outcome suppresses one that is still to come,  *)
(* whatever corrections and lost intervals the clock went through.         *)
THEOREM NothingToComeIsSuppressed == Spec => NoFutureSuppressed
  <1>1. IInv /\ [Next]_vars => [Timely]_vars
    BY NextIsTimely
  <1> QED
    BY <1>1, Invariance, PTL DEF Spec, NoFutureSuppressed, Timely

(* The engine and its callers implement the ledger: an occurrence is       *)
(* admitted at most once, one at a time, and outcomes are final.           *)
THEOREM LifecycleImplementsLedger == Spec => ImplementsLedger
  <1>1. Init => Ledger!LedgerInit
    BY DEF Init, EmptyState, State, Ledger!LedgerInit
  <1>2. IInv /\ [Next]_vars => [Ledger!LedgerNext]_(Ledger!ledger)
    BY NextIsJournalStep DEF JournalStep
  <1> QED
    BY <1>1, <1>2, Invariance, PTL DEF Spec, ImplementsLedger,
       Ledger!LedgerSpec
=============================================================================
