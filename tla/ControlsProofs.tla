--------------------------- MODULE ControlsProofs ---------------------------
(***************************************************************************)
(* Theorems about the components of Controls, for every value of their     *)
(* constants.  The knob: the events and the partial progress add up to the *)
(* true rotation, and no motion is invented.  The backups: the mirror      *)
(* never goes back without consent.  The pairing: the first call that ends *)
(* a ceremony decides it, and at most one record comes of it.              *)
(* The push control: an event has a press of its own, and a press acts     *)
(* within the budget.  All four keep their types and bounds.               *)
(***************************************************************************)
EXTENDS Controls, FiniteMinimum, SequenceTheorems

-----------------------------------------------------------------------------
(* The knob.  Both theorems follow from where the partial progress began:  *)
(* at a position since sampled, shaft - progress.                          *)
(* The reference is the phase of the shaft, and the partial progress began *)
(* within the positions sampled since the last cycle or push.              *)
Anchored ==
  knob.phase # NoPhase =>
    /\ knob.phase = Phase(shaft)
    /\ low <= shaft - knob.progress /\ shaft - knob.progress <= high

EncoderTypes ==
  /\ knob \in [phase : Phases \cup {NoPhase}, progress : -3 .. 3,
               pressed : BOOLEAN]
  /\ event \in -1 .. 1
  /\ shaft \in Int /\ low \in Int /\ high \in Int
  /\ origin \in Int /\ cycles \in Int

EncoderIInv == EncoderTypes /\ Anchored /\ RotationAddsUp

(* kStep tells a turn by one phase, and no turn, exactly; every other turn *)
(* that is possible is a jump.                                             *)
LEMMA StepIsTurn ==
  ASSUME NEW a \in Int, NEW b \in Int, b - a \in -2 .. 2
  PROVE  /\ Phase(a) \in Phases
         /\ b - a \in -1 .. 1 => Step(Phase(a), Phase(b)) = b - a
         /\ b - a \notin -1 .. 1 => Step(Phase(a), Phase(b)) = 2
  BY SMT DEF Phase, Phases, Step

(* Nothing is sampled yet. *)
LEMMA EncoderInitIInv == EncoderInit => EncoderIInv
  BY SMT DEF EncoderInit, EncoderIInv, EncoderTypes, Anchored,
             RotationAddsUp, Phases, NoPhase

(* A sample keeps the invariant, and reports a cycle only for a turn by a  *)
(* whole one.                                                              *)
LEMMA RotateKeeps ==
  ASSUME EncoderIInv, NEW position \in Reachable, NEW pressed \in BOOLEAN,
         Rotate(position, pressed)
  PROVE  /\ EncoderIInv'
         /\ event' = 1 => shaft' - low >= 4
         /\ event' = -1 => high - shaft' >= 4
<1>1. /\ position \in Int /\ shaft \in Int /\ position - shaft \in -2 .. 2
      /\ shaft' = position
  BY EncoderConstants, SMT DEF Reachable, Rotate, EncoderIInv, EncoderTypes
<1>2. /\ Phase(shaft) \in Phases /\ Phase(position) \in Phases
      /\ Phase(position) # NoPhase
      /\ position - shaft \in -1 .. 1 =>
           Step(Phase(shaft), Phase(position)) = position - shaft
      /\ position - shaft \notin -1 .. 1 =>
           Step(Phase(shaft), Phase(position)) = 2
  <2>1. Phase(position) \in Phases
    BY <1>1, SMT DEF Phase, Phases
  <2>2. Phase(position) # NoPhase
    BY <2>1, SMT DEF Phases, NoPhase
  <2> QED
    BY <1>1, <2>1, <2>2, StepIsTurn
<1> DEFINE rebased == \/ knob.phase = NoPhase \/ pressed \/ knob.pressed
                      \/ Step(knob.phase, Phase(position)) = 2
           advanced == knob.progress + (position - shaft)
<1>3. CASE rebased
  <2>1. /\ knob' = [phase |-> Phase(position), progress |-> 0,
                    pressed |-> pressed]
        /\ event' = 0
    BY <1>3 DEF Rotate, SampleKnob, Rebased
  <2>2. Disturbed(position, pressed)
    BY <1>1, <1>2, <1>3, SMT DEF Disturbed, EncoderIInv, Anchored
  <2>3. origin' = position /\ cycles' = 0
    BY <2>2 DEF Rotate, Measure
  <2>4. /\ low' \in Int /\ high' \in Int
        /\ low' <= position /\ position <= high'
    BY <1>1, SMT DEF Rotate, Measure, EncoderIInv, EncoderTypes
  <2>5. EncoderTypes'
    BY <1>1, <1>2, <2>1, <2>3, <2>4, SMT DEF EncoderTypes
  <2> QED
    BY <1>1, <2>1, <2>3, <2>4, <2>5, SMT
       DEF EncoderIInv, Anchored, RotationAddsUp
<1>4. CASE ~rebased
  <2>1. /\ knob.phase = Phase(shaft) /\ knob.phase # NoPhase
        /\ ~pressed /\ ~knob.pressed
        /\ position - shaft \in -1 .. 1
        /\ Step(knob.phase, Phase(position)) = position - shaft
    BY <1>1, <1>2, <1>4 DEF EncoderIInv, Anchored
  <2>2. Advanced(Phase(position)) =
          [phase |-> Phase(position), progress |-> advanced,
           pressed |-> FALSE]
    BY <2>1 DEF Advanced
  <2>3. /\ knob.progress \in -3 .. 3 /\ advanced \in -4 .. 4
        /\ low \in Int /\ high \in Int /\ origin \in Int /\ cycles \in Int
        /\ low <= shaft - knob.progress /\ shaft - knob.progress <= high
        /\ 4 * cycles + knob.progress = shaft - origin
    BY <1>1, <2>1, SMT DEF EncoderIInv, EncoderTypes, Anchored, RotationAddsUp
  <2>4. ~Disturbed(position, pressed)
    BY <2>1 DEF Disturbed
  <2>5. origin' = origin /\ cycles' = cycles + event'
    BY <2>4 DEF Rotate, Measure
  <2>6. CASE advanced \in {4, -4}
    <3>1. /\ knob' = [phase |-> Phase(position), progress |-> 0,
                      pressed |-> FALSE]
          /\ event' = advanced \div 4
      BY <1>4, <2>2, <2>6 DEF Rotate, SampleKnob, Rebased
    <3>2. /\ event' \in {-1, 1} /\ 4 * event' = advanced
      BY <2>6, <3>1, SMT
    <3>3. low' = position /\ high' = position
      BY <3>2, SMT DEF Rotate, Measure
    <3>4. EncoderTypes'
      BY <1>1, <1>2, <2>3, <2>5, <3>1, <3>2, <3>3, SMT DEF EncoderTypes
    <3>5. Anchored'
      BY <1>1, <3>1, <3>3, SMT DEF Anchored
    <3>6. RotationAddsUp'
      <4>1. /\ knob'.progress = 0 /\ cycles' = cycles + event'
            /\ origin' = origin /\ shaft' = position
        BY <1>1, <2>5, <3>1
      <4>2. knob.progress \in Int /\ event' \in Int
        BY <2>3, <3>2, SMT
      <4>3. /\ position \in Int /\ shaft \in Int
            /\ origin \in Int /\ cycles \in Int
            /\ 4 * cycles + knob.progress = shaft - origin
        BY <1>1, <2>3
      <4>4. CASE event' = 1
        <5>1. cycles' = cycles + 1 /\ knob.progress + (position - shaft) = 4
          BY <3>2, <4>1, <4>4
        <5>2. 4 * cycles' = position - origin
          BY <4>2, <4>3, <5>1, SMT
        <5> QED
          BY <4>1, <4>3, <5>1, <5>2, SMT DEF RotationAddsUp
      <4>5. CASE event' = -1
        <5>1. cycles' = cycles - 1 /\ knob.progress + (position - shaft) = -4
          BY <3>2, <4>1, <4>3, <4>5, SMT
        <5>2. 4 * cycles' = position - origin
          BY <4>2, <4>3, <5>1, SMT
        <5> QED
          BY <4>1, <4>3, <5>1, <5>2, SMT DEF RotationAddsUp
      <4> QED
        BY <3>2, <4>4, <4>5
    <3>7. /\ event' = 1 => shaft' - low >= 4
          /\ event' = -1 => high - shaft' >= 4
      BY <1>1, <2>3, <3>2, SMT
    <3> QED
      BY <3>4, <3>5, <3>6, <3>7 DEF EncoderIInv
  <2>7. CASE advanced \notin {4, -4}
    <3>1. /\ knob' = [phase |-> Phase(position), progress |-> advanced,
                      pressed |-> FALSE]
          /\ event' = 0
      BY <1>4, <2>2, <2>7 DEF Rotate, SampleKnob
    <3>2. /\ low' \in Int /\ high' \in Int
          /\ low' <= low /\ high <= high'
      BY <1>1, <2>1, <2>3, <3>1, SMT DEF Rotate, Measure
    <3> QED
      BY <1>1, <1>2, <2>3, <2>5, <2>7, <3>1, <3>2, SMT
         DEF EncoderIInv, EncoderTypes, Anchored, RotationAddsUp
  <2> QED
    BY <2>6, <2>7
<1> QED
  BY <1>3, <1>4

LEMMA EncoderNextIInv ==
  EncoderIInv /\ [EncoderNext]_encoderVars => EncoderIInv'
<1> SUFFICES ASSUME EncoderIInv, [EncoderNext]_encoderVars PROVE EncoderIInv'
  OBVIOUS
<1>1. CASE EncoderNext
  BY <1>1, RotateKeeps DEF EncoderNext
<1>2. CASE UNCHANGED encoderVars
  BY <1>2 DEF encoderVars, EncoderIInv, EncoderTypes, Anchored, RotationAddsUp
<1> QED
  BY <1>1, <1>2

(* The events and the partial progress of sample add up to the rotation    *)
(* since the last push or missed phase.                                    *)
THEOREM EveryCycleCounts == EncoderSpec => []RotationAddsUp
<1>1. EncoderIInv => RotationAddsUp
  BY DEF EncoderIInv
<1> QED
  BY <1>1, EncoderInitIInv, EncoderNextIInv, PTL DEF EncoderSpec

(* sample never reports a cycle that the shaft has not turned.             *)
THEOREM MotionIsReal == EncoderSpec => NoInventedMotion
<1>1. /\ EncoderIInv /\ [EncoderNext]_encoderVars
      => [/\ event' = 1 => shaft' - low >= 4
          /\ event' = -1 => high - shaft' >= 4]_encoderVars
  BY RotateKeeps DEF EncoderNext
<1> QED
  BY <1>1, EncoderInitIInv, EncoderNextIInv, PTL
     DEF EncoderSpec, NoInventedMotion

-----------------------------------------------------------------------------
(* The backups.  What a stale state shows is older than the mirror was, so *)
(* that who confirms it was told.                                          *)
(* The file, the operation and what is shown hold backups. *)
Held ==
  /\ live \in Backups
  /\ file \in Backups \cup {Absent, Corrupt}
  /\ op # Absent => op.snapshot \in Backups

(* A stale backup is older than the revision that is shown next to it. *)
Told ==
  state.kind = "stale" =>
    /\ state.summary \in Backups
    /\ state.summary.revision < state.current

BackupIInv == Held /\ Told

-----------------------------------------------------------------------------
LEMMA BackupFields ==
  ASSUME NEW b \in Backups
  PROVE  b.revision \in Int /\ b.edits \in Int
  BY BackupConstants DEF Backups

LEMMA EmptyIsBackup == Empty \in Backups
  BY BackupConstants DEF Empty, Stores, Backups

(* Nothing is held yet. *)
LEMMA BackupInitIInv == BackupInit => BackupIInv
  BY EmptyIsBackup DEF BackupInit, Initial, Shows, Flow, BackupIInv, Held, Told

(* Every state but that of a refusal is not stale. *)
LEMMA ShownIsNotStale ==
  ASSUME NEW kind, NEW operation, NEW summary, kind # "stale"
  PROVE  Shows(kind, operation, summary).kind # "stale"
  BY DEF Shows, Flow

(* A refusal tells of the two revisions that were compared. *)
LEMMA RefusalTells ==
  ASSUME NEW backup \in Backups, Older(backup), state' = Refused(backup)
  PROVE  Told'
  BY DEF Refused, Flow, Told, Older

LEMMA NextHeld == BackupIInv /\ BackupNext => Held'
<1> SUFFICES ASSUME BackupIInv, BackupNext PROVE Held'
  OBVIOUS
<1> USE DEF Held
<1>1. ASSUME NEW operation, Begin(operation) PROVE Held'
  BY <1>1 DEF Begin, BackupIInv
<1>2. CASE Fails
  BY <1>2 DEF Fails, BackupIInv
<1>3. CASE EndExport
  BY <1>3 DEF EndExport, Ends, Busy, BackupIInv
<1>4. CASE EndInspect
  BY <1>4 DEF EndInspect, Ends, BackupIInv
<1>5. CASE EndRestore
  BY <1>5 DEF EndRestore, Ends, BackupIInv
<1>6. CASE EndErase
  BY <1>6 DEF EndErase, Ends, BackupIInv
<1>7. CASE EndEraseLocalData
  BY <1>7, EmptyIsBackup DEF EndEraseLocalData, Ends, BackupIInv
<1>8. CASE ConfirmStaleRestore
  BY <1>8 DEF ConfirmStaleRestore, Busy, BackupIInv, Told
<1>9. CASE CancelStaleConfirmation
  BY <1>9 DEF CancelStaleConfirmation, BackupIInv
<1>10. ASSUME NEW backup \in Backups, NEW allowStale \in BOOLEAN,
              RestoreParsedBackup(backup, allowStale)
       PROVE  Held'
  BY <1>10 DEF RestoreParsedBackup, BackupIInv
<1>11. CASE RequestEraseLocalData \/ CancelEraseLocalData \/ Damage
  BY <1>11 DEF RequestEraseLocalData, CancelEraseLocalData, Damage, BackupIInv
<1>12. CASE Receipt \/ Edit
  <2>1. live' \in Backups
    BY <1>12, BackupConstants DEF Receipt, Edit, BackupIInv, Backups
  <2> QED
    BY <1>12, <2>1 DEF Receipt, Edit, BackupIInv
<1> QED
  BY <1>1, <1>2, <1>3, <1>4, <1>5, <1>6, <1>7, <1>8, <1>9, <1>10, <1>11,
     <1>12 DEF BackupNext

LEMMA NextTold == BackupIInv /\ BackupNext => Told'
<1> SUFFICES ASSUME BackupIInv, BackupNext PROVE Told'
  OBVIOUS
<1>1. CASE UNCHANGED state
  BY <1>1 DEF BackupIInv, Told
<1>2. CASE state'.kind # "stale"
  BY <1>2 DEF Told
<1>3. CASE EndRestore
  <2>1. CASE file \in {Absent, Corrupt}
    BY <1>2, <1>3, <2>1, ShownIsNotStale DEF EndRestore, Failed
  <2>2. CASE file \notin {Absent, Corrupt}
    <3>1. file \in Backups
      BY <2>2 DEF BackupIInv, Held
    <3> QED
      BY <1>2, <1>3, <2>2, <3>1, RefusalTells, ShownIsNotStale
         DEF EndRestore, Done
  <2> QED
    BY <2>1, <2>2
<1>4. ASSUME NEW backup \in Backups, NEW allowStale \in BOOLEAN,
             RestoreParsedBackup(backup, allowStale)
      PROVE  Told'
  BY <1>2, <1>4, RefusalTells, ShownIsNotStale DEF RestoreParsedBackup, Done
<1>5. ASSUME NEW operation, Begin(operation) PROVE Told'
  BY <1>2, <1>5, ShownIsNotStale DEF Begin
<1>6. CASE EndInspect
  BY <1>2, <1>6, ShownIsNotStale DEF EndInspect, Failed, Done
<1>7. CASE Fails \/ EndExport \/ EndErase \/ EndEraseLocalData
  BY <1>2, <1>7, ShownIsNotStale
     DEF Fails, EndExport, EndErase, EndEraseLocalData, Failed, Done
<1>8. CASE ConfirmStaleRestore \/ CancelStaleConfirmation
  BY <1>2, <1>8, ShownIsNotStale
     DEF ConfirmStaleRestore, CancelStaleConfirmation, Done
<1>9. CASE RequestEraseLocalData \/ CancelEraseLocalData
  BY <1>2, <1>9, ShownIsNotStale
     DEF RequestEraseLocalData, CancelEraseLocalData, Initial
<1>10. CASE Receipt \/ Edit \/ Damage
  BY <1>1, <1>10 DEF Receipt, Edit, Damage
<1> QED
  BY <1>3, <1>4, <1>5, <1>6, <1>7, <1>8, <1>9, <1>10 DEF BackupNext

LEMMA BackupNextIInv == BackupIInv /\ [BackupNext]_backupVars => BackupIInv'
<1>1. BackupIInv /\ UNCHANGED backupVars => BackupIInv'
  BY DEF backupVars, BackupIInv, Held, Told
<1> QED
  BY <1>1, NextHeld, NextTold DEF BackupIInv

-----------------------------------------------------------------------------
(* The steps that may take the mirror back. *)
Consented ==
  \/ /\ state.kind = "stale" /\ state.summary.revision < state.current
     /\ live' = state.summary
  \/ \E backup \in Backups : RestoreParsedBackup(backup, TRUE)
  \/ state'.kind = "erased" /\ file' = Absent /\ live' = Empty

LEMMA StepsAreConsented ==
  ASSUME BackupIInv, BackupNext, live'.revision < live.revision
  PROVE  Consented
<1>1. live.revision \in Int /\ live'.revision \in Int
  BY NextHeld, BackupFields DEF BackupIInv, Held
<1>2. CASE UNCHANGED live
  BY <1>1, <1>2
<1>3. CASE EndRestore
  <2>1. file \in Backups /\ ~Older(file) /\ live' = file
    BY <1>1, <1>2, <1>3 DEF EndRestore, BackupIInv, Held
  <2> QED
    BY <1>1, <2>1 DEF Older
<1>4. ASSUME NEW backup \in Backups, NEW allowStale \in BOOLEAN,
             RestoreParsedBackup(backup, allowStale)
      PROVE  Consented
  <2>1. CASE allowStale
    BY <1>4, <2>1 DEF Consented
  <2>2. CASE ~allowStale
    <3>1. ~Older(backup) /\ live' = backup
      BY <1>1, <1>2, <1>4, <2>2 DEF RestoreParsedBackup
    <3> QED
      BY <1>1, <3>1 DEF Older
  <2> QED
    BY <2>1, <2>2
<1>5. CASE ConfirmStaleRestore
  BY <1>5 DEF ConfirmStaleRestore, BackupIInv, Told, Consented
<1>6. CASE EndEraseLocalData
  BY <1>6 DEF EndEraseLocalData, Shows, Flow, Consented
<1>7. CASE Receipt \/ Edit
  BY <1>1, <1>7 DEF Receipt, Edit, BackupIInv, Held, Backups
<1>8. ASSUME NEW operation, Begin(operation) PROVE Consented
  BY <1>1, <1>8 DEF Begin
<1>9. CASE \/ Fails \/ EndExport \/ EndInspect \/ EndErase
           \/ CancelStaleConfirmation \/ RequestEraseLocalData
           \/ CancelEraseLocalData \/ Damage
  BY <1>1, <1>9 DEF Fails, EndExport, EndInspect, EndErase,
     CancelStaleConfirmation, RequestEraseLocalData, CancelEraseLocalData,
     Damage
<1> QED
  BY <1>3, <1>4, <1>5, <1>6, <1>7, <1>8, <1>9 DEF BackupNext

(* The coordinator and its controller take the mirror back only with the   *)
(* user's consent, whatever the device confirms while a file is read.      *)
THEOREM RollbackIsConsented == BackupSpec => NoSilentRollback
<1>1. BackupIInv /\ [BackupNext]_backupVars
      => [live'.revision < live.revision => Consented]_backupVars
  BY StepsAreConsented
<1> QED
  BY <1>1, BackupInitIInv, BackupNextIInv, PTL
     DEF BackupSpec, NoSilentRollback, Consented

-----------------------------------------------------------------------------
(* The pairing.                                                            *)
Calls ==
  [kind : {"check", "cancel", "attempt", "complete"}, at : Int,
   good : BOOLEAN, record : BOOLEAN]

PairingTypes ==
  /\ window \in Nat \ {0} /\ attempts \in Nat /\ completed \in BOOLEAN
  /\ closure \in Reasons \cup {"open"} /\ log \in Seq(Calls)

(* The attempts inside the window among the first calls. *)
Tried(i) == {j \in 1 .. i : Inside(log[j])}

(* An open ceremony has counted its attempts, and nothing ended it. *)
Undecided ==
  closure = "open" =>
    /\ attempts = Cardinality(Tried(Len(log))) /\ attempts < MaxAttempts
    /\ \A reason \in Reasons : Ending(reason) = {}

(* The i-th call ended the ceremony, before any other that would have, and *)
(* records came after it.                                                  *)
DecidedBy(i) ==
  /\ i \in Ending(closure)
  /\ \A reason \in Reasons : \A k \in Ending(reason) : i <= k
  /\ closure = "confirmed" => Cardinality(Tried(i)) <= MaxAttempts
  /\ \A j \in DOMAIN log : log[j].record => closure = "confirmed" /\ i < j

Decided == closure # "open" => \E i \in DOMAIN log : DecidedBy(i)

(* At most one record, and none before it is completed. *)
OneRecord ==
  /\ \A j \in DOMAIN log : log[j].record => completed /\ closure # "open"
  /\ \A i, j \in DOMAIN log : log[i].record /\ log[j].record => i = j

PairingIInv == PairingTypes /\ Undecided /\ Decided /\ OneRecord

-----------------------------------------------------------------------------
LEMMA TriedIsFinite ==
  ASSUME NEW i \in Nat
  PROVE  IsFiniteSet(Tried(i)) /\ Cardinality(Tried(i)) \in Nat
<1>1. IsFiniteSet(1 .. i) /\ Tried(i) \in SUBSET (1 .. i)
  BY FS_Interval DEF Tried
<1> QED
  BY <1>1, FS_Subset, FS_CardinalityType

(* The calls of which each would end a ceremony, one reason at a time.     *)
LEMMA EndingCases ==
  /\ Ending("cancelled") = {i \in DOMAIN log : log[i].kind = "cancel"}
  /\ Ending("confirmed") =
       {i \in DOMAIN log : Inside(log[i]) /\ log[i].good}
  /\ Ending("timedOut") =
       {i \in DOMAIN log : log[i].kind \in {"check", "attempt"}
                           /\ log[i].at >= Deadline}
  /\ Ending("attemptsExhausted") =
       {i \in DOMAIN log : Inside(log[i]) /\ ~log[i].good
                           /\ Cardinality(Tried(i)) >= MaxAttempts}
  BY DEF Ending, Tried

LEMMA PairingInitIInv == PairingInit => PairingIInv
<1> SUFFICES ASSUME PairingInit PROVE PairingIInv
  OBVIOUS
<1>1. log = << >> /\ closure = "open" /\ attempts = 0 /\ DOMAIN log = {}
  BY DEF PairingInit
<1>2. PairingTypes
  <2>1. window \in Nat \ {0} /\ attempts \in Nat /\ completed \in BOOLEAN
    <3>1. window \in 1 .. MaxWindow /\ completed = FALSE
      BY DEF PairingInit
    <3>2. window \in Nat \ {0}
      BY <3>1, PairingConstants
    <3> QED
      BY <1>1, <3>1, <3>2
  <2>2. log \in Seq(Calls)
    BY <1>1, EmptySeq
  <2> QED
    BY <1>1, <2>1, <2>2 DEF PairingTypes
<1>3. \A reason \in Reasons : Ending(reason) = {}
  BY <1>1 DEF Ending
<1>4. Cardinality(Tried(Len(log))) = 0
  <2>1. Tried(Len(log)) = {}
    BY <1>1 DEF Tried
  <2> QED
    BY <2>1, FS_EmptySet
<1>5. Undecided
  BY <1>1, <1>3, <1>4, PairingConstants DEF Undecided
<1> QED
  BY <1>1, <1>2, <1>5 DEF PairingIInv, Decided, OneRecord

-----------------------------------------------------------------------------
(* One more call. *)
Logs(call) ==
  /\ log' = Append(log, call) /\ window' = window
  /\ call \in Calls

LEMMA LongerLog ==
  ASSUME PairingTypes, NEW call, Logs(call)
  PROVE  /\ Len(log) \in Nat /\ DOMAIN log = 1 .. Len(log)
         /\ Len(log') = Len(log) + 1 /\ DOMAIN log' = 1 .. Len(log) + 1
         /\ log' \in Seq(Calls) /\ log'[Len(log) + 1] = call
         /\ \A i \in DOMAIN log : log'[i] = log[i]
<1>1. Len(log) \in Nat /\ DOMAIN log = 1 .. Len(log)
  BY LenProperties DEF PairingTypes
<1>2. /\ log' \in Seq(Calls) /\ Len(log') = Len(log) + 1
      /\ log'[Len(log) + 1] = call
      /\ \A i \in 1 .. Len(log) : log'[i] = log[i]
  BY AppendProperties DEF PairingTypes, Logs
<1>3. DOMAIN log' = 1 .. Len(log')
  BY <1>2, LenProperties
<1> QED
  BY <1>1, <1>2, <1>3

(* EndingCases of the next state. *)
LEMMA EndingCasesNext ==
  /\ Ending("cancelled")' = {i \in DOMAIN log' : log'[i].kind = "cancel"}
  /\ Ending("confirmed")' =
       {i \in DOMAIN log' : Inside(log[i])' /\ log'[i].good}
  /\ Ending("timedOut")' =
       {i \in DOMAIN log' : log'[i].kind \in {"check", "attempt"}
                            /\ log'[i].at >= Deadline'}
  /\ Ending("attemptsExhausted")' =
       {i \in DOMAIN log' : Inside(log[i])' /\ ~log'[i].good
                            /\ Cardinality(Tried(i)') >= MaxAttempts}
  BY DEF Ending, Tried

(* What a call is does not change with later calls. *)
LEMMA OldCalls ==
  ASSUME PairingTypes, NEW call, Logs(call), NEW i \in DOMAIN log
  PROVE  /\ Inside(log[i])' <=> Inside(log[i])
         /\ Tried(i)' = Tried(i)
         /\ \A reason \in Reasons :
              i \in Ending(reason)' <=> i \in Ending(reason)
<1>1. Deadline' = Deadline
  BY DEF Logs, Deadline
<1>2. \A j \in DOMAIN log : log'[j] = log[j]
  BY LongerLog
<1>3. \A j \in DOMAIN log : Inside(log[j])' <=> Inside(log[j])
  BY <1>1, <1>2 DEF Inside
<1>4. \A j \in 1 .. i : j \in DOMAIN log
  BY LongerLog
<1>5. Tried(i)' = Tried(i)
  BY <1>3, <1>4 DEF Tried
<1>6. i \in DOMAIN log'
  BY LongerLog
<1>7. /\ i \in Ending("cancelled")' <=> i \in Ending("cancelled")
      /\ i \in Ending("confirmed")' <=> i \in Ending("confirmed")
      /\ i \in Ending("timedOut")' <=> i \in Ending("timedOut")
      /\ i \in Ending("attemptsExhausted")' <=> i \in Ending("attemptsExhausted")
  BY <1>1, <1>2, <1>3, <1>5, <1>6, EndingCases, EndingCasesNext
<1> QED
  BY <1>3, <1>5, <1>7 DEF Reasons

(* What the last call is. *)
LEMMA NewCall ==
  ASSUME PairingTypes, NEW call, Logs(call), NEW n \in Nat, n = Len(log) + 1
  PROVE  /\ Inside(log[n])' <=> Inside(call)
         /\ Cardinality(Tried(n)') =
              Cardinality(Tried(Len(log))) + (IF Inside(call) THEN 1 ELSE 0)
         /\ n \in Ending("cancelled")' <=> call.kind = "cancel"
         /\ n \in Ending("confirmed")' <=> Inside(call) /\ call.good
         /\ n \in Ending("timedOut")' <=>
              call.kind \in {"check", "attempt"} /\ call.at >= Deadline
         /\ n \in Ending("attemptsExhausted")' <=>
              /\ Inside(call) /\ ~call.good
              /\ Cardinality(Tried(n)') >= MaxAttempts
<1>1. Deadline' = Deadline
  BY DEF Logs, Deadline
<1>2. n \in DOMAIN log' /\ log'[n] = call
  BY LongerLog
<1>3. Inside(log[n])' <=> Inside(call)
  BY <1>1, <1>2 DEF Inside
<1>4. \A j \in 1 .. Len(log) : Inside(log[j])' <=> Inside(log[j])
  BY OldCalls, LongerLog
<1>5. Tried(n)' = Tried(Len(log)) \cup (IF Inside(call) THEN {n} ELSE {})
  <2>1. Len(log) \in Nat /\ 1 .. n = (1 .. Len(log)) \cup {n}
    BY LongerLog
  <2> QED
    BY <1>3, <1>4, <2>1 DEF Tried
<1>6. n \notin Tried(Len(log))
  BY LongerLog DEF Tried
<1>7. /\ IsFiniteSet(Tried(Len(log)))
      /\ Cardinality(Tried(Len(log))) \in Nat
  BY LongerLog, TriedIsFinite
<1>8. Cardinality(Tried(n)') =
        Cardinality(Tried(Len(log))) + (IF Inside(call) THEN 1 ELSE 0)
  <2>1. CASE Inside(call)
    <3>1. Tried(n)' = Tried(Len(log)) \cup {n}
      BY <1>5, <2>1
    <3>2. Cardinality(Tried(Len(log)) \cup {n}) = Cardinality(Tried(Len(log))) + 1
      BY <1>6, <1>7, FS_AddElement
    <3> QED
      BY <2>1, <3>1, <3>2
  <2>2. CASE ~Inside(call)
    <3>1. Tried(n)' = Tried(Len(log))
      BY <1>5, <2>2
    <3> QED
      BY <1>7, <2>2, <3>1
  <2> QED
    BY <2>1, <2>2
<1> QED
  BY <1>1, <1>2, <1>3, <1>8, EndingCasesNext

-----------------------------------------------------------------------------
LEMMA TypesAfter ==
  ASSUME PairingTypes, NEW call, Logs(call), attempts' \in Nat,
         completed' \in BOOLEAN, closure' \in Reasons \cup {"open"}
  PROVE  PairingTypes'
  BY LongerLog DEF PairingTypes, Logs

(* The ends of the next state, by the calls of this one and the last call. *)
LEMMA EndsAfter ==
  ASSUME PairingTypes, NEW call, Logs(call), NEW n \in Nat, n = Len(log) + 1,
         NEW reason \in Reasons, NEW k \in Ending(reason)'
  PROVE  k = n \/ (k \in DOMAIN log /\ k \in Ending(reason))
<1>1. k \in DOMAIN log'
  BY EndingCasesNext DEF Reasons
<1>2. k \in 1 .. n
  BY <1>1, LongerLog
<1>3. k = n \/ k \in DOMAIN log
  BY <1>2, LongerLog
<1> QED
  BY <1>3, OldCalls

(* A decided ceremony stays as it was decided; it gives a record at most   *)
(* once, if it was confirmed.                                              *)
LEMMA StaysDecided ==
  ASSUME PairingIInv, NEW call, Logs(call), closure # "open",
         UNCHANGED <<attempts, closure>>,
         call.record => closure = "confirmed" /\ ~completed,
         completed' = (completed \/ call.record)
  PROVE  PairingIInv'
<1> DEFINE n == Len(log) + 1
<1>0. PairingTypes /\ n \in Nat
  BY LongerLog DEF PairingIInv
<1> HIDE DEF n
<1>n. n = Len(log) + 1
  BY DEF n
<1>1. PICK i \in DOMAIN log : DecidedBy(i)
  BY DEF PairingIInv, Decided
<1>2. /\ i \in DOMAIN log' /\ i < n /\ i \in Int /\ n \in DOMAIN log'
      /\ \A j \in DOMAIN log' : j \in DOMAIN log \/ j = n
      /\ log'[n] = call
      /\ \A j \in DOMAIN log : log'[j] = log[j]
  <2>1. /\ Len(log) \in Nat /\ DOMAIN log = 1 .. Len(log)
        /\ DOMAIN log' = 1 .. Len(log) + 1
        /\ log'[Len(log) + 1] = call
        /\ \A j \in DOMAIN log : log'[j] = log[j]
    BY <1>0, LongerLog
  <2> QED
    BY <1>1, <1>n, <2>1
<1>3. DecidedBy(i)'
  <2>1. closure \in Reasons
    BY <1>0 DEF PairingTypes
  <2>3. i \in Ending(closure)'
    <3>1. \A reason \in Reasons : i \in Ending(reason) => i \in Ending(reason)'
      BY <1>0, OldCalls
    <3>2. closure' = closure
      OBVIOUS
    <3> QED
      BY <1>1, <2>1, <3>1, <3>2 DEF DecidedBy
  <2>4. \A reason \in Reasons : \A k \in Ending(reason)' : i <= k
    BY <1>0, <1>1, <1>2, <1>n, EndsAfter DEF DecidedBy
  <2>5. Tried(i)' = Tried(i)
    BY <1>0, OldCalls
  <2>6. \A j \in DOMAIN log' : log'[j].record => closure' = "confirmed" /\ i < j
    BY <1>1, <1>2 DEF DecidedBy
  <2> QED
    BY <1>1, <2>3, <2>4, <2>5, <2>6 DEF DecidedBy
<1>4. Decided'
  BY <1>2, <1>3 DEF Decided
<1>5. Undecided'
  BY DEF Undecided
<1>6. OneRecord'
  BY <1>2 DEF PairingIInv, OneRecord
<1>7. PairingTypes'
  <2>1. attempts' \in Nat /\ closure' \in Reasons \cup {"open"}
    BY <1>0 DEF PairingTypes
  <2>2. completed' \in BOOLEAN
    OBVIOUS
  <2> QED
    BY <1>0, <2>1, <2>2, TypesAfter
<1> QED
  BY <1>4, <1>5, <1>6, <1>7 DEF PairingIInv

(* A call that ends nothing leaves an open ceremony open. *)
LEMMA StaysOpen ==
  ASSUME PairingIInv, NEW call, Logs(call), NEW n \in Nat, n = Len(log) + 1,
         closure = "open", closure' = "open", ~call.record,
         completed' = completed,
         attempts' = attempts + (IF Inside(call) THEN 1 ELSE 0),
         attempts' < MaxAttempts,
         \A reason \in Reasons : n \notin Ending(reason)'
  PROVE  PairingIInv'
<1>0. PairingTypes
  BY DEF PairingIInv
<1>1. /\ attempts = Cardinality(Tried(Len(log))) /\ attempts \in Nat
      /\ \A reason \in Reasons : Ending(reason) = {}
  BY <1>0 DEF PairingIInv, Undecided, PairingTypes
<1>2. \A reason \in Reasons : Ending(reason)' = {}
  BY <1>0, <1>1, EndsAfter
<1>3. attempts' = Cardinality(Tried(Len(log)))'
  <2>1. Cardinality(Tried(n)') = attempts'
    BY <1>0, <1>1, NewCall
  <2>2. Len(log') = n
    BY <1>0, LongerLog
  <2> QED
    BY <2>1, <2>2 DEF Tried
<1>4. Undecided'
  BY <1>2, <1>3 DEF Undecided
<1>5. PairingTypes'
  <2>1. attempts' \in Nat /\ completed' \in BOOLEAN
    BY <1>0, <1>1 DEF PairingTypes
  <2> QED
    BY <1>0, <2>1, TypesAfter
<1>6. OneRecord'
  <2>1. \A j \in DOMAIN log : ~log[j].record
    BY DEF PairingIInv, OneRecord
  <2>2. \A j \in DOMAIN log' : ~log'[j].record
    <3>1. \A j \in DOMAIN log' : j \in DOMAIN log \/ j = n
      BY <1>0, LongerLog
    <3> QED
      BY <1>0, <2>1, <3>1, LongerLog
  <2> QED
    BY <2>2 DEF OneRecord
<1> QED
  BY <1>4, <1>5, <1>6 DEF PairingIInv, Decided

(* A call that ends an open ceremony decides it. *)
LEMMA Decides ==
  ASSUME PairingIInv, NEW call, Logs(call), NEW n \in Nat, n = Len(log) + 1,
         NEW reason \in Reasons, closure = "open", closure' = reason,
         ~call.record, completed' = completed,
         attempts' \in {attempts, attempts + 1},
         n \in Ending(reason)'
  PROVE  PairingIInv'
<1>0. PairingTypes
  BY DEF PairingIInv
<1>1. /\ attempts = Cardinality(Tried(Len(log))) /\ attempts \in Nat
      /\ attempts < MaxAttempts
      /\ \A r \in Reasons : Ending(r) = {}
  BY <1>0 DEF PairingIInv, Undecided, PairingTypes
<1>2. \A r \in Reasons : \A k \in Ending(r)' : k = n
  BY <1>0, <1>1, EndsAfter
<1>3. Cardinality(Tried(n)') <= MaxAttempts
  <2>1. Cardinality(Tried(n)') = attempts + (IF Inside(call) THEN 1 ELSE 0)
    BY <1>0, <1>1, NewCall
  <2> QED
    BY <1>1, <2>1, PairingConstants
<1>4. \A j \in DOMAIN log' : ~log'[j].record
  <2>1. \A j \in DOMAIN log : ~log[j].record
    BY DEF PairingIInv, OneRecord
  <2>2. \A j \in DOMAIN log' : j \in DOMAIN log \/ j = n
    BY <1>0, LongerLog
  <2> QED
    BY <1>0, <2>1, <2>2, LongerLog
<1>5. DecidedBy(n)'
  <2>1. n \in Ending(closure)'
    <3>1. Ending(closure)' = Ending(reason)'
      BY DEF Ending
    <3> QED
      BY <3>1
  <2>2. \A r \in Reasons : \A k \in Ending(r)' : n <= k
    BY <1>2
  <2> QED
    BY <1>3, <1>4, <2>1, <2>2 DEF DecidedBy
<1>6. n \in DOMAIN log'
  BY <1>0, LongerLog
<1>7. Decided'
  BY <1>5, <1>6 DEF Decided
<1>8. closure' # "open"
  BY DEF Reasons
<1>9. Undecided' /\ OneRecord'
  BY <1>4, <1>8 DEF Undecided, OneRecord
<1>10. PairingTypes'
  <2>1. attempts' \in Nat /\ completed' \in BOOLEAN
    BY <1>0, <1>1 DEF PairingTypes
  <2> QED
    BY <1>0, <2>1, TypesAfter
<1> QED
  BY <1>7, <1>9, <1>10 DEF PairingIInv

-----------------------------------------------------------------------------
(* The call that an operation logs. *)
Call(kind, at, good, record) ==
  [kind |-> kind, at |-> at, good |-> good, record |-> record]

LEMMA LoggedCall ==
  ASSUME NEW kind \in {"check", "cancel", "attempt", "complete"},
         NEW at \in Int, NEW good \in BOOLEAN, NEW record \in BOOLEAN,
         Log(kind, at, good, record), window' = window
  PROVE  /\ Logs(Call(kind, at, good, record))
         /\ Call(kind, at, good, record).kind = kind
         /\ Call(kind, at, good, record).at = at
         /\ Call(kind, at, good, record).good = good
         /\ Call(kind, at, good, record).record = record
  BY DEF Log, Logs, Call, Calls

LEMMA CheckExpiryKeeps ==
  ASSUME PairingIInv, NEW clock \in Clock, CheckExpiry(clock)
  PROVE  PairingIInv'
<1> DEFINE call == Call("check", clock, FALSE, FALSE)
           n    == Len(log) + 1
<1>1. PairingTypes
  BY DEF PairingIInv
<1>2. /\ Logs(call) /\ call.kind = "check" /\ call.at = clock
      /\ call.record = FALSE
  <2>1. clock \in Int
    BY PairingConstants DEF Clock, Start
  <2>2. Log("check", clock, FALSE, FALSE) /\ window' = window
    BY DEF CheckExpiry
  <2> QED
    BY <2>1, <2>2, LoggedCall
<1>3. /\ closure' = IF closure = "open" /\ clock >= Deadline
                    THEN "timedOut" ELSE closure
      /\ attempts' = attempts /\ completed' = completed
  BY DEF CheckExpiry, Open
<1>4. n \in Nat /\ attempts \in Nat /\ completed \in BOOLEAN
  BY <1>1, <1>2, LongerLog DEF PairingTypes
<1> HIDE DEF call
<1>5. ~Inside(call)
  BY <1>2 DEF Inside
<1>6. CASE closure # "open"
  BY <1>2, <1>3, <1>4, <1>6, StaysDecided
<1>7. CASE closure = "open" /\ clock >= Deadline
  <2>1. n \in Ending("timedOut")'
    BY <1>1, <1>2, <1>4, <1>7, NewCall
  <2>2. closure' = "timedOut" /\ "timedOut" \in Reasons
    BY <1>3, <1>7 DEF Reasons
  <2> QED
    BY <1>2, <1>3, <1>4, <1>7, <2>1, <2>2, Decides
<1>8. CASE closure = "open" /\ ~(clock >= Deadline)
  <2>1. \A reason \in Reasons : n \notin Ending(reason)'
    BY <1>1, <1>2, <1>4, <1>5, <1>8, NewCall DEF Reasons
  <2>2. attempts < MaxAttempts
    BY <1>8 DEF PairingIInv, Undecided
  <2>3. attempts' = attempts + (IF Inside(call) THEN 1 ELSE 0)
    BY <1>3, <1>4, <1>5
  <2> HIDE DEF n
  <2> QED
    BY <1>2, <1>3, <1>4, <1>8, <2>1, <2>2, <2>3, StaysOpen DEF n
<1> QED
  BY <1>6, <1>7, <1>8

LEMMA CancelKeeps ==
  ASSUME PairingIInv, Cancel
  PROVE  PairingIInv'
<1> DEFINE call == Call("cancel", Start, FALSE, FALSE)
           n    == Len(log) + 1
<1>1. PairingTypes
  BY DEF PairingIInv
<1>2. Logs(call) /\ call.kind = "cancel" /\ call.record = FALSE
  <2>1. Log("cancel", Start, FALSE, FALSE) /\ window' = window
    BY DEF Cancel
  <2>2. Start \in Int
    BY DEF Start
  <2> QED
    BY <2>1, <2>2, LoggedCall
<1>3. /\ closure' = IF closure = "open" THEN "cancelled" ELSE closure
      /\ attempts' = attempts /\ completed' = completed
  BY DEF Cancel, Open
<1>4. n \in Nat /\ completed \in BOOLEAN
  BY <1>1, <1>2, LongerLog DEF PairingTypes
<1> HIDE DEF call
<1>5. CASE closure # "open"
  BY <1>2, <1>3, <1>4, <1>5, StaysDecided
<1>6. CASE closure = "open"
  <2>1. n \in Ending("cancelled")'
    BY <1>1, <1>2, <1>4, NewCall
  <2>2. closure' = "cancelled" /\ "cancelled" \in Reasons
    BY <1>3, <1>6 DEF Reasons
  <2> QED
    BY <1>2, <1>3, <1>4, <1>6, <2>1, <2>2, Decides
<1> QED
  BY <1>5, <1>6

LEMMA AttemptConfirmationKeeps ==
  ASSUME PairingIInv, NEW clock \in Clock, NEW matched \in BOOLEAN,
         AttemptConfirmation(clock, matched)
  PROVE  PairingIInv'
<1> DEFINE call == Call("attempt", clock, matched, FALSE)
<1>1. PairingTypes
  BY DEF PairingIInv
<1>2. clock \in Int
  BY PairingConstants DEF Clock, Start
<1>3. /\ Logs(call) /\ call.kind = "attempt" /\ call.at = clock
      /\ call.good = matched /\ call.record = FALSE
  <2>1. Log("attempt", clock, matched, FALSE) /\ window' = window
    BY DEF AttemptConfirmation
  <2>2. /\ call.kind = "attempt" /\ call.at = clock
        /\ call.good = matched /\ call.record = FALSE
    BY DEF Call
  <2>3. call \in Calls
    BY <1>2 DEF Call, Calls
  <2>4. log' = Append(log, call)
    BY <2>1 DEF Log, Call
  <2> HIDE DEF call
  <2> QED
    BY <2>1, <2>2, <2>3, <2>4 DEF Logs
<1>4. completed' = completed
  BY DEF AttemptConfirmation
<1>5. attempts \in Nat /\ completed \in BOOLEAN
  BY <1>1 DEF PairingTypes
<1>n. PICK n \in Nat : n = Len(log) + 1
  BY <1>1, <1>3, LongerLog
<1> HIDE DEF call
<1>6. CASE closure # "open"
  <2>1. attempts' = attempts /\ closure' = closure
    BY <1>6 DEF AttemptConfirmation, Open
  <2> QED
    BY <1>3, <1>4, <1>5, <1>6, <2>1, StaysDecided
<1>7. CASE closure = "open" /\ clock < Start
  <2>1. attempts' = attempts /\ closure' = "open"
    BY <1>7 DEF AttemptConfirmation, Open
  <2>2. ~Inside(call) /\ ~(call.at >= Deadline)
    <3>1. Deadline \in Int /\ Start \in Int /\ Start <= Deadline
      BY <1>1 DEF Deadline, Start, PairingTypes
    <3>2. ~(Start <= clock) /\ ~(clock >= Deadline)
      BY <1>2, <1>7, <3>1
    <3> QED
      BY <1>3, <3>2 DEF Inside
  <2>3. \A reason \in Reasons : n \notin Ending(reason)'
    BY <1>1, <1>3, <1>5, <2>2, <1>n, NewCall DEF Reasons
  <2>4. attempts < MaxAttempts
    BY <1>7 DEF PairingIInv, Undecided
  <2>5. attempts' = attempts + (IF Inside(call) THEN 1 ELSE 0)
    BY <1>5, <2>1, <2>2
  <2> QED
    BY <1>3, <1>4, <1>5, <1>7, <2>1, <2>3, <2>4, <2>5, <1>n, StaysOpen
<1>8. CASE closure = "open" /\ ~(clock < Start) /\ clock >= Deadline
  <2>1. attempts' = attempts /\ closure' = "timedOut"
    BY <1>8 DEF AttemptConfirmation, Open
  <2>2. n \in Ending("timedOut")'
    BY <1>1, <1>3, <1>5, <1>8, <1>n, NewCall
  <2>3. "timedOut" \in Reasons
    BY DEF Reasons
  <2> QED
    BY <1>3, <1>4, <1>5, <1>8, <2>1, <2>2, <2>3, <1>n, Decides
<1>9. CASE closure = "open" /\ ~(clock < Start) /\ ~(clock >= Deadline)
  <2>1. /\ attempts' = attempts + 1
        /\ closure' = IF matched THEN "confirmed"
                      ELSE IF Exhausted(attempts + 1)
                      THEN "attemptsExhausted" ELSE "open"
    BY <1>9 DEF AttemptConfirmation, Open
  <2>2. Inside(call) /\ ~(call.at >= Deadline)
    <3>1. Deadline \in Int /\ Start \in Int
      BY <1>1 DEF Deadline, Start, PairingTypes
    <3>2. Start <= clock /\ clock < Deadline
      BY <1>2, <1>9, <3>1
    <3> QED
      BY <1>3, <1>9, <3>2 DEF Inside
  <2>3. Cardinality(Tried(n)') = attempts + 1
    <3>1. attempts = Cardinality(Tried(Len(log)))
      BY <1>9 DEF PairingIInv, Undecided
    <3>2. Cardinality(Tried(n)') =
            Cardinality(Tried(Len(log))) + (IF Inside(call) THEN 1 ELSE 0)
      BY <1>1, <1>3, <1>5, <1>n, NewCall
    <3> QED
      BY <2>2, <3>1, <3>2
  <2>4. Exhausted(attempts + 1) <=> attempts + 1 >= MaxAttempts
    BY <1>5, PairingConstants DEF Exhausted
  <2>5. CASE matched
    <3>1. n \in Ending("confirmed")'
      BY <1>1, <1>3, <1>5, <2>2, <2>5, <1>n, NewCall
    <3>2. closure' = "confirmed" /\ "confirmed" \in Reasons
      BY <2>1, <2>5 DEF Reasons
    <3> QED
      BY <1>3, <1>4, <1>5, <1>9, <2>1, <3>1, <3>2, <1>n, Decides
  <2>6. CASE ~matched /\ Exhausted(attempts + 1)
    <3>1. n \in Ending("attemptsExhausted")'
      BY <1>1, <1>3, <1>5, <2>2, <2>3, <2>4, <2>6, <1>n, NewCall
    <3>2. closure' = "attemptsExhausted" /\ "attemptsExhausted" \in Reasons
      BY <2>1, <2>6 DEF Reasons
    <3> QED
      BY <1>3, <1>4, <1>5, <1>9, <2>1, <3>1, <3>2, <1>n, Decides
  <2>7. CASE ~matched /\ ~Exhausted(attempts + 1)
    <3>1. closure' = "open"
      BY <2>1, <2>7
    <3>2. \A reason \in Reasons : n \notin Ending(reason)'
      BY <1>1, <1>3, <1>5, <2>2, <2>3, <2>4, <2>7, <1>n, NewCall DEF Reasons
    <3>3. attempts' < MaxAttempts
      BY <1>5, <2>1, <2>4, <2>7, PairingConstants
    <3>4. attempts' = attempts + (IF Inside(call) THEN 1 ELSE 0)
      BY <2>1, <2>2
    <3> QED
      BY <1>3, <1>4, <1>5, <1>9, <3>1, <3>2, <3>3, <3>4, <1>n, StaysOpen
  <2> QED
    BY <2>5, <2>6, <2>7
<1> QED
  BY <1>6, <1>7, <1>8, <1>9

LEMMA CompleteWithReferenceKeeps ==
  ASSUME PairingIInv, NEW valid \in BOOLEAN, CompleteWithReference(valid)
  PROVE  PairingIInv'
<1> DEFINE record == closure = "confirmed" /\ ~completed /\ valid
           call   == Call("complete", Start, valid, record)
           n      == Len(log) + 1
<1>1. PairingTypes
  BY DEF PairingIInv
<1>2. record \in BOOLEAN /\ (record => closure = "confirmed" /\ ~completed)
  OBVIOUS
<1>3. Logs(call) /\ call.kind = "complete" /\ call.record = record
  <2>1. Log("complete", Start, valid, record) /\ window' = window
    BY DEF CompleteWithReference
  <2>2. Start \in Int
    BY DEF Start
  <2> HIDE DEF record
  <2> QED
    BY <1>2, <2>1, <2>2, LoggedCall
<1>4. completed' = (completed \/ record) /\ UNCHANGED <<attempts, closure>>
  BY DEF CompleteWithReference
<1>5. n \in Nat /\ attempts \in Nat /\ completed \in BOOLEAN
  BY <1>1, <1>3, LongerLog DEF PairingTypes
<1>6. closure = "open" => ~record
  OBVIOUS
<1> HIDE DEF call, record
<1>7. CASE closure # "open"
  <2>1. completed' = (completed \/ call.record)
    BY <1>3, <1>4
  <2>2. call.record => closure = "confirmed" /\ ~completed
    BY <1>2, <1>3
  <2> QED
    BY <1>3, <1>4, <1>7, <2>1, <2>2, StaysDecided
<1>8. CASE closure = "open"
  <2>1. ~Inside(call)
    BY <1>3 DEF Inside
  <2>2. \A reason \in Reasons : n \notin Ending(reason)'
    BY <1>1, <1>3, <1>5, <2>1, NewCall DEF Reasons
  <2>3. attempts < MaxAttempts
    BY <1>8 DEF PairingIInv, Undecided
  <2>4. attempts' = attempts + (IF Inside(call) THEN 1 ELSE 0)
    BY <1>4, <1>5, <2>1
  <2>5. completed' = completed /\ ~call.record
    BY <1>3, <1>4, <1>5, <1>6, <1>8
  <2> HIDE DEF n
  <2> QED
    BY <1>3, <1>4, <1>5, <1>8, <2>2, <2>3, <2>4, <2>5, StaysOpen DEF n
<1> QED
  BY <1>7, <1>8

LEMMA PairingNextIInv ==
  ASSUME PairingIInv, [PairingNext]_pairingVars
  PROVE  PairingIInv'
<1>1. ASSUME NEW clock \in Clock, CheckExpiry(clock) PROVE PairingIInv'
  BY <1>1, CheckExpiryKeeps
<1>2. CASE Cancel
  BY <1>2, CancelKeeps
<1>3. ASSUME NEW clock \in Clock, NEW matched \in BOOLEAN,
             AttemptConfirmation(clock, matched)
      PROVE  PairingIInv'
  BY <1>3, AttemptConfirmationKeeps
<1>4. ASSUME NEW valid \in BOOLEAN, CompleteWithReference(valid) PROVE PairingIInv'
  BY <1>4, CompleteWithReferenceKeeps
<1>5. CASE UNCHANGED pairingVars
  <2>1. /\ window' = window /\ attempts' = attempts /\ closure' = closure
        /\ completed' = completed /\ log' = log
    BY <1>5 DEF pairingVars
  <2>2. Deadline' = Deadline
    BY <2>1 DEF Deadline
  <2>3. \A i \in Int : Inside(log[i])' <=> Inside(log[i])
    BY <2>1, <2>2 DEF Inside
  <2>4. \A i \in Int : Tried(i)' = Tried(i)
    BY <2>3 DEF Tried
  <2>5. Len(log) \in Nat /\ DOMAIN log = 1 .. Len(log)
    BY LenProperties DEF PairingIInv, PairingTypes
  <2>6. \A i \in DOMAIN log : i \in Int
    BY <2>5
  <2>7. \A reason \in Reasons : Ending(reason)' = Ending(reason)
    <3>1. Ending("cancelled")' = Ending("cancelled")
      BY <2>1, EndingCases, EndingCasesNext
    <3>2. Ending("confirmed")' = Ending("confirmed")
      BY <2>1, <2>3, <2>6, EndingCases, EndingCasesNext
    <3>3. Ending("timedOut")' = Ending("timedOut")
      BY <2>1, <2>2, EndingCases, EndingCasesNext
    <3>4. Ending("attemptsExhausted")' = Ending("attemptsExhausted")
      BY <2>1, <2>3, <2>4, <2>6, EndingCases, EndingCasesNext
    <3> QED
      BY <3>1, <3>2, <3>3, <3>4 DEF Reasons
  <2>8. PairingTypes'
    BY <2>1 DEF PairingIInv, PairingTypes
  <2>9. Undecided'
    <3>1. Cardinality(Tried(Len(log)))' = Cardinality(Tried(Len(log)))
      <4>1. Tried(Len(log))' = Tried(Len(log))
        BY <2>1, <2>3, <2>5 DEF Tried
      <4> QED
        BY <4>1
    <3> QED
      BY <2>1, <2>7, <3>1 DEF PairingIInv, Undecided
  <2>10. Decided'
    <3>1. SUFFICES ASSUME closure # "open" PROVE Decided'
      BY <2>1 DEF Decided
    <3>2. PICK i \in DOMAIN log : DecidedBy(i)
      BY <3>1 DEF PairingIInv, Decided
    <3>3. closure \in Reasons /\ i \in Int
      BY <2>6, <3>1 DEF PairingIInv, PairingTypes
    <3>4. i \in Ending(closure)'
      BY <2>1, <2>7, <3>2, <3>3 DEF DecidedBy
    <3>5. DecidedBy(i)'
      BY <2>1, <2>4, <2>7, <3>2, <3>3, <3>4 DEF DecidedBy
    <3> QED
      BY <2>1, <3>2, <3>5 DEF Decided
  <2>11. OneRecord'
    BY <2>1 DEF PairingIInv, OneRecord
  <2> QED
    BY <2>8, <2>9, <2>10, <2>11 DEF PairingIInv
<1> QED
  BY <1>1, <1>2, <1>3, <1>4, <1>5 DEF PairingNext

-----------------------------------------------------------------------------
(* At most one element makes at most one record. *)
LEMMA AtMostOne ==
  ASSUME NEW S, \A x, y \in S : x = y
  PROVE  Cardinality(S) <= 1
<1>1. CASE S = {}
  BY <1>1, FS_EmptySet
<1>2. CASE S # {}
  <2>1. PICK x \in S : S = {x}
    BY <1>2
  <2> QED
    BY <2>1, FS_Singleton
<1> QED
  BY <1>1, <1>2

LEMMA PairingIInvDecides == PairingIInv => DecidedOnceInTime
<1> SUFFICES ASSUME PairingIInv PROVE DecidedOnceInTime
  OBVIOUS
<1> DEFINE ends    == UNION {Ending(reason) : reason \in Reasons}
           records == {i \in DOMAIN log : log[i].record}
<1>1. Len(log) \in Nat /\ DOMAIN log = 1 .. Len(log)
  BY LenProperties DEF PairingIInv, PairingTypes
<1>2. \A reason \in Reasons : Ending(reason) \subseteq DOMAIN log
  BY EndingCases DEF Reasons
<1>3. ends \in SUBSET Int /\ IsFiniteSet(ends)
  <2>1. ends \in SUBSET (1 .. Len(log))
    BY <1>1, <1>2
  <2>2. IsFiniteSet(1 .. Len(log))
    BY <1>1, FS_Interval
  <2> HIDE DEF ends
  <2>3. IsFiniteSet(ends)
    BY <2>1, <2>2, FS_Subset
  <2> QED
    BY <2>1, <2>3
<1>4. Cardinality(records) <= 1
  <2>1. \A i, j \in records : i = j
    BY DEF PairingIInv, OneRecord
  <2> HIDE DEF records
  <2> QED
    BY <2>1, AtMostOne
<1>5. CASE closure = "open"
  <2>1. ends = {}
    BY <1>5 DEF PairingIInv, Undecided
  <2>2. records = {}
    BY <1>5 DEF PairingIInv, OneRecord
  <2> QED
    BY <1>4, <1>5, <2>1, <2>2 DEF DecidedOnceInTime
<1>6. CASE closure # "open"
  <2>1. PICK i \in DOMAIN log : DecidedBy(i)
    BY <1>6 DEF PairingIInv, Decided
  <2>2. closure \in Reasons
    BY <1>6 DEF PairingIInv, PairingTypes
  <2>3. i \in ends /\ \A k \in ends : i <= k
    BY <2>1, <2>2 DEF DecidedBy
  <2>4. Min(ends) = i
    <3> HIDE DEF ends
    <3>1. Min(ends) \in ends /\ Min(ends) <= i
      BY <1>3, <2>3, MinIsMinimum
    <3>2. Min(ends) \in Int /\ i \in Int /\ i <= Min(ends)
      BY <1>3, <2>3, <3>1
    <3> QED
      BY <3>1, <3>2
  <2>5. Min(ends) \in Ending(closure)
    BY <2>1, <2>4 DEF DecidedBy
  <2>6. ASSUME NEW r \in records
        PROVE  \E j \in 1 .. r - 1 :
                 /\ j = Min(ends) /\ j \in Ending("confirmed")
                 /\ Cardinality({k \in 1 .. j : Inside(log[k])}) <= MaxAttempts
    <3>1. closure = "confirmed" /\ i < r
      BY <2>1 DEF DecidedBy
    <3>2. i \in 1 .. r - 1
      BY <1>1, <3>1
    <3>3. Cardinality({k \in 1 .. i : Inside(log[k])}) <= MaxAttempts
      BY <2>1, <3>1 DEF DecidedBy, Tried
    <3>4. i \in Ending("confirmed")
      BY <2>1, <3>1 DEF DecidedBy
    <3> HIDE DEF ends
    <3> QED
      BY <2>4, <3>2, <3>3, <3>4
  <2>7. ends # {} /\ (closure = "open" <=> ends = {})
    BY <1>6, <2>3
  <2> QED
    BY <1>4, <2>5, <2>6, <2>7 DEF DecidedOnceInTime
<1> QED
  BY <1>5, <1>6

(* The first call that would end a ceremony decides it, whatever is called *)
(* later and however the clock is set, and at most one record comes of it: *)
(* after a match inside the window, by one of the first MaxAttempts tries  *)
(* (checkExpiry, cancel, attemptConfirmation and completeWithReference).   *)
THEOREM FirstEndDecides == PairingSpec => []DecidedOnceInTime
<1>1. PairingInit => PairingIInv
  BY PairingInitIInv
<1>2. PairingIInv /\ [PairingNext]_pairingVars => PairingIInv'
  BY PairingNextIInv
<1>3. PairingIInv => DecidedOnceInTime
  BY PairingIInvDecides
<1> QED
  BY <1>1, <1>2, <1>3, PTL DEF PairingSpec

-----------------------------------------------------------------------------
(* The push control.  A level that is confirmed was seen at both ends of   *)
(* Stable ticks, so that the later sample is the finger's and no bounce,   *)
(* if the finger has not moved since the first.                            *)
DebounceTypes ==
  /\ line \in [stable : Levels, candidate : Levels, started : Int]
  /\ now \in Nat /\ skew \in Nat /\ polled \in Nat /\ moved \in Nat
  /\ moved <= now /\ polled <= now
  /\ finger \in BOOLEAN /\ armed \in BOOLEAN /\ answered \in BOOLEAN
  /\ presses \in Nat /\ events \in Nat

(* A press that may still act. *)
Due == presses > 0 /\ ~answered

(* The candidate was first seen after the finger's last move; the clock    *)
(* read skew less than the true time, and that only grows.                 *)
SeenSinceMove == moved <= line.started + skew

(* Without a press that may act, a confirmed release is a real one, and a  *)
(* candidate that contradicts the finger is younger than its last move.    *)
Explained ==
  ~Due =>
    /\ line.stable = FALSE => /\ ~finger
                              /\ line.candidate = TRUE => SeenSinceMove
    /\ finger /\ line.candidate = FALSE => SeenSinceMove

(* Every event has a press of its own. *)
Matched == events <= presses /\ (Due => events < presses)

DebounceIInv == DebounceTypes /\ Explained /\ Matched

LEMMA DebounceInitIInv == DebounceInit => DebounceIInv
<1> SUFFICES ASSUME DebounceInit PROVE DebounceIInv
  OBVIOUS
<1>1. line.stable = None /\ line.candidate = None /\ None \notin BOOLEAN
  BY DebounceConstants DEF DebounceInit
<1>2. line.stable # FALSE /\ line.candidate # FALSE
  BY <1>1
<1>3. line \in [stable : Levels, candidate : Levels, started : Int]
  BY DEF DebounceInit, Levels
<1>4. finger \in BOOLEAN /\ armed \in BOOLEAN /\ answered \in BOOLEAN
  BY DEF DebounceInit
<1>5. /\ now = 0 /\ skew = 0 /\ polled = 0 /\ moved = 0
      /\ presses = 0 /\ events = 0
  BY DEF DebounceInit
<1>6. DebounceTypes
  <2>1. /\ now \in Nat /\ skew \in Nat /\ polled \in Nat /\ moved \in Nat
        /\ moved <= now /\ polled <= now
        /\ presses \in Nat /\ events \in Nat
    BY <1>5
  <2> QED
    BY <1>3, <1>4, <2>1 DEF DebounceTypes
<1>7. Matched
  BY <1>5 DEF Matched, Due
<1>8. Explained
  BY <1>2 DEF Explained
<1> QED
  BY <1>6, <1>7, <1>8 DEF DebounceIInv

(* What a sample confirms in place of a candidate seen since the last move *)
(* is the level of the finger.                                             *)
LEMMA ConfirmedIsFinger ==
  ASSUME DebounceTypes, Bounce <= Stable, NEW pressed \in Contacts,
         ~Restarts(pressed, now - skew), HeldStable(now - skew),
         SeenSinceMove
  PROVE  pressed = finger
<1>1. /\ now \in Int /\ skew \in Int /\ moved \in Int /\ line.started \in Int
  BY DEF DebounceTypes
<1> DEFINE elapsed == (now - skew) - line.started
<1>2. elapsed \in Nat
  BY <1>1 DEF Restarts
<1>3. elapsed % Wrap >= Stable
  BY DEF HeldStable
<1> HIDE DEF elapsed
<1>4. elapsed % Wrap <= elapsed /\ elapsed % Wrap \in Nat
  BY <1>2, DebounceConstants
<1>5. Stable <= elapsed
  BY <1>2, <1>3, <1>4, DebounceConstants
<1>6. ~(now - moved < Bounce)
  BY <1>1, <1>5, DebounceConstants DEF SeenSinceMove, elapsed
<1> QED
  BY <1>6 DEF Contacts

(* A sample that acts has a press that may act; any sample keeps the       *)
(* invariant.                                                              *)
LEMMA SampleKeeps ==
  ASSUME DebounceIInv, Bounce <= Stable, NEW pressed \in Contacts,
         SampleLine(pressed, now - skew),
         UNCHANGED <<now, skew, finger, moved, armed, presses>>,
         polled' = now
  PROVE  /\ DebounceIInv'
         /\ events' # events => Due
<1> DEFINE clock == now - skew
<1>1. /\ now \in Int /\ skew \in Int /\ moved \in Int /\ clock \in Int
      /\ pressed \in BOOLEAN /\ finger \in BOOLEAN /\ answered \in BOOLEAN
      /\ presses \in Nat /\ events \in Nat
      /\ line \in [stable : Levels, candidate : Levels, started : Int]
      /\ None \notin BOOLEAN
  BY DebounceConstants DEF DebounceIInv, DebounceTypes, Contacts
<1>2. /\ line.stable \in Levels /\ line.candidate \in Levels
      /\ pressed \in Levels /\ None \in Levels
  BY <1>1 DEF Levels
<1>3. CASE line' = [line EXCEPT !.candidate = None]
           /\ UNCHANGED <<events, answered>>
  <2>1. /\ line'.stable = line.stable /\ line'.candidate = None
        /\ line' \in [stable : Levels, candidate : Levels, started : Int]
    BY <1>1, <1>2, <1>3
  <2>2. line'.candidate # TRUE /\ line'.candidate # FALSE
    BY <1>1, <2>1
  <2>3. DebounceTypes' /\ Matched'
    BY <1>1, <1>3, <2>1 DEF DebounceIInv, DebounceTypes, Matched, Due
  <2>4. Explained'
    BY <1>3, <2>1, <2>2 DEF DebounceIInv, Explained, Due
  <2> QED
    BY <1>3, <2>3, <2>4 DEF DebounceIInv
<1>4. CASE /\ line' = [line EXCEPT !.candidate = pressed, !.started = clock]
           /\ UNCHANGED <<events, answered>>
  <2>1. /\ line'.stable = line.stable /\ line'.started = clock
        /\ line' \in [stable : Levels, candidate : Levels, started : Int]
    BY <1>1, <1>2, <1>4
  <2>2. moved' <= line'.started + skew'
    BY <1>1, <2>1 DEF DebounceIInv, DebounceTypes
  <2>3. DebounceTypes' /\ Matched'
    BY <1>1, <1>4, <2>1 DEF DebounceIInv, DebounceTypes, Matched, Due
  <2>4. Explained'
    BY <1>4, <2>1, <2>2 DEF DebounceIInv, Explained, Due, SeenSinceMove
  <2> QED
    BY <1>4, <2>3, <2>4 DEF DebounceIInv
<1>5. CASE UNCHANGED <<line, events, answered>>
  BY <1>1, <1>5 DEF DebounceIInv, DebounceTypes, Explained, Matched, Due,
                    SeenSinceMove
<1>6. CASE /\ line.stable # pressed
           /\ ~Restarts(pressed, clock) /\ HeldStable(clock)
           /\ line' = [line EXCEPT !.stable = pressed, !.candidate = None]
           /\ events' = IF Acts(pressed) THEN events + 1 ELSE events
           /\ answered' = (answered \/ Acts(pressed))
  <2>1. /\ line'.stable = pressed /\ line'.candidate = None
        /\ line' \in [stable : Levels, candidate : Levels, started : Int]
    BY <1>1, <1>2, <1>6
  <2>2. line.candidate = pressed
    BY <1>6 DEF Restarts
  <2>3. SeenSinceMove => pressed = finger
    BY <1>6, ConfirmedIsFinger DEF DebounceIInv
  <2>4. CASE Acts(pressed)
    <3>1. /\ pressed = TRUE /\ line.stable = FALSE
          /\ events' = events + 1 /\ answered' = TRUE
      BY <1>1, <1>2, <1>6, <2>4 DEF Acts, Levels
    <3>2. Due
      BY <1>1, <2>2, <2>3, <3>1 DEF DebounceIInv, Explained
    <3>3. DebounceTypes' /\ Matched'
      BY <1>1, <2>1, <3>1, <3>2 DEF DebounceIInv, DebounceTypes, Matched, Due
    <3>4. Explained'
      BY <1>1, <2>1, <3>1 DEF Explained
    <3> QED
      BY <3>2, <3>3, <3>4 DEF DebounceIInv
  <2>5. CASE ~Acts(pressed)
    <3>1. events' = events /\ answered' = answered
      BY <1>1, <1>6, <2>5
    <3>2. DebounceTypes' /\ Matched'
      BY <1>1, <2>1, <3>1 DEF DebounceIInv, DebounceTypes, Matched, Due
    <3>3. ~Due /\ pressed = FALSE => ~finger
      BY <1>1, <2>2, <2>3 DEF DebounceIInv, Explained
    <3>4. Explained'
      BY <1>1, <2>1, <3>1, <3>3 DEF Explained, Due
    <3> QED
      BY <3>1, <3>2, <3>4 DEF DebounceIInv
  <2> QED
    BY <2>4, <2>5
<1> QED
  BY <1>3, <1>4, <1>5, <1>6 DEF SampleLine

LEMMA DebounceStep ==
  ASSUME DebounceIInv, Bounce <= Stable, [DebounceNext]_debounceVars
  PROVE  /\ DebounceIInv'
         /\ events' # events => Due
<1>0. DebounceTypes /\ Explained /\ Matched
  BY DEF DebounceIInv
<1>1. CASE Poll
  BY <1>1, SampleKeeps DEF Poll
<1>2. CASE Tick
  BY <1>0, <1>2
     DEF Tick, DebounceIInv, DebounceTypes, Explained, Matched, Due,
         SeenSinceMove
<1>3. CASE SetClockBack
  BY <1>0, <1>3
     DEF SetClockBack, DebounceIInv, DebounceTypes, Explained, Matched, Due,
         SeenSinceMove
<1>4. CASE Move
  <2>1. /\ finger' = ~finger /\ moved' = now
        /\ UNCHANGED <<line, now, skew, polled, events>>
    BY <1>4 DEF Move
  <2>2. CASE finger
    <3>1. finger' = FALSE /\ UNCHANGED <<armed, presses, answered>>
      BY <1>4, <2>1, <2>2 DEF Move
    <3>2. DebounceTypes' /\ Matched'
      BY <1>0, <2>1, <3>1 DEF DebounceTypes, Matched, Due
    <3>3. Explained'
      BY <1>0, <2>1, <2>2, <3>1 DEF Explained, Due
    <3> QED
      BY <2>1, <3>2, <3>3 DEF DebounceIInv
  <2>3. CASE ~finger
    <3>1. /\ presses' = presses + 1 /\ answered' = FALSE
          /\ armed' = (line.stable = FALSE /\ line.candidate = None)
      BY <1>4, <2>3 DEF Move
    <3>2. finger' = TRUE /\ armed' \in BOOLEAN
      <4>1. finger' = TRUE
        BY <2>1, <2>3
      <4>2. (line.stable = FALSE /\ line.candidate = None) \in BOOLEAN
        OBVIOUS
      <4> QED
        BY <3>1, <4>1, <4>2
    <3>3. finger' \in BOOLEAN /\ answered' \in BOOLEAN /\ ~answered'
      BY <3>1, <3>2
    <3>4. /\ moved' \in Nat /\ moved' <= now' /\ presses' \in Nat
          /\ presses' > 0 /\ events' <= presses' /\ events' < presses'
      BY <1>0, <2>1, <3>1 DEF DebounceTypes, Matched
    <3>5. DebounceTypes'
      BY <1>0, <2>1, <3>2, <3>3, <3>4 DEF DebounceTypes
    <3>6. Matched' /\ Due'
      BY <3>3, <3>4 DEF Matched, Due
    <3> QED
      BY <2>1, <3>5, <3>6 DEF DebounceIInv, Explained
  <2> QED
    BY <2>2, <2>3
<1>5. CASE UNCHANGED debounceVars
  BY <1>0, <1>5
     DEF debounceVars, DebounceIInv, DebounceTypes, Explained, Matched, Due,
         SeenSinceMove
<1> QED
  BY <1>1, <1>2, <1>3, <1>4, <1>5 DEF DebounceNext

(* Bounce on either edge, a held control, one held through boot and a      *)
(* clock set back add no event, as long as the contacts bounce no longer   *)
(* than the debounce interval (ControlDebounce::sample).                   *)
THEOREM PressesActOnce ==
  ASSUME Bounce <= Stable
  PROVE  DebounceSpec => OneEventPerPress
<1>1. DebounceInit => DebounceIInv
  BY DebounceInitIInv
<1>2. /\ DebounceIInv /\ [DebounceNext]_debounceVars
      => /\ DebounceIInv'
         /\ [events' # events => presses > 0 /\ ~answered]_debounceVars
  BY DebounceStep DEF Due
<1> QED
  BY <1>1, <1>2, PTL DEF DebounceSpec, OneEventPerPress

(* The answer in time.  Polls come at most Gap apart.  The last poll that  *)
(* saw the released level came before the contacts rested, or before the   *)
(* press; the next one starts the interval, and the first poll after       *)
(* Stable more ticks confirms the press.                                   *)
Rest == IF Bounce = 0 THEN 1 ELSE Bounce
LatestStart == Rest - 1 + Gap

PolledInTime == polled <= now /\ now - polled <= Gap

(* A press that armed the control and waits for its event. *)
Waits ==
  finger /\ armed /\ ~answered /\ skew = 0 =>
    /\ line.stable = FALSE
    /\ \/ /\ line.candidate = None
          /\ polled - moved < Rest
       \/ /\ line.candidate = TRUE
          /\ line.started <= polled
          /\ line.started - moved <= LatestStart
          /\ polled - line.started < Stable

WaitTypes ==
  /\ line \in [stable : Levels, candidate : Levels, started : Int]
  /\ now \in Int /\ skew \in Nat /\ polled \in Int /\ moved \in Int
  /\ finger \in BOOLEAN /\ armed \in BOOLEAN /\ answered \in BOOLEAN

WaitIInv == WaitTypes /\ PolledInTime /\ Waits

LEMMA RestIs == Rest \in Nat /\ Rest >= 1 /\ Bounce <= Rest /\ LatestStart \in Nat
  BY DebounceConstants DEF Rest, LatestStart

LEMMA WaitInitIInv == DebounceInit => WaitIInv
<1> SUFFICES ASSUME DebounceInit PROVE WaitIInv
  OBVIOUS
<1>1. line \in [stable : Levels, candidate : Levels, started : Int]
  BY DEF DebounceInit, Levels
<1>2. finger \in BOOLEAN /\ armed = FALSE /\ answered = FALSE
  BY DEF DebounceInit
<1>3. now = 0 /\ skew = 0 /\ polled = 0 /\ moved = 0
  BY DEF DebounceInit
<1>4. armed \in BOOLEAN /\ answered \in BOOLEAN
  BY <1>2
<1>5. PolledInTime
  BY <1>3, DebounceConstants DEF PolledInTime
<1>6. now \in Int /\ skew \in Nat /\ polled \in Int /\ moved \in Int
  BY <1>3
<1> QED
  BY <1>1, <1>2, <1>4, <1>5, <1>6 DEF WaitIInv, WaitTypes, Waits

(* An interval that is no longer than a distance of polls beyond Stable    *)
(* is computed without a wrap.                                             *)
LEMMA NoWrap ==
  ASSUME Stable + Gap <= Wrap, NEW elapsed \in Nat, elapsed < Stable + Gap
  PROVE  elapsed % Wrap = elapsed
  BY DebounceConstants

(* What a sample does to a press that waits. *)
LEMMA SampleWaits ==
  ASSUME WaitIInv, Stable + Gap <= Wrap, NEW pressed \in Contacts,
         SampleLine(pressed, now - skew),
         UNCHANGED <<now, skew, finger, moved, armed, presses>>,
         polled' = now
  PROVE  WaitIInv'
<1> DEFINE clock == now - skew
<1>1. /\ now \in Int /\ skew \in Nat /\ moved \in Int /\ clock \in Int
      /\ polled \in Int
      /\ pressed \in BOOLEAN /\ finger \in BOOLEAN /\ answered \in BOOLEAN
      /\ line \in [stable : Levels, candidate : Levels, started : Int]
      /\ None \notin BOOLEAN
  BY DebounceConstants DEF WaitIInv, WaitTypes, Contacts
<1>2. pressed \in Levels /\ None \in Levels
  BY <1>1 DEF Levels
<1>3. PolledInTime'
  BY <1>1, DebounceConstants DEF PolledInTime
<1>4. answered' \in BOOLEAN /\ (answered => answered')
  BY <1>1 DEF SampleLine
<1>5. line' \in [stable : Levels, candidate : Levels, started : Int]
  BY <1>1, <1>2 DEF SampleLine
<1>6. WaitTypes'
  BY <1>1, <1>4, <1>5 DEF WaitIInv, WaitTypes
<1>7. ASSUME finger, armed, ~answered', skew = 0
      PROVE  /\ line'.stable = FALSE
             /\ \/ /\ line'.candidate = None
                   /\ now - moved < Rest
                \/ /\ line'.candidate = TRUE
                   /\ line'.started <= now
                   /\ line'.started - moved <= LatestStart
                   /\ now - line'.started < Stable
  <2>1. /\ line.stable = FALSE
        /\ \/ /\ line.candidate = None
              /\ polled - moved < Rest
           \/ /\ line.candidate = TRUE
              /\ line.started <= polled
              /\ line.started - moved <= LatestStart
              /\ polled - line.started < Stable
    BY <1>4, <1>7 DEF WaitIInv, Waits
  <2>2. clock = now /\ polled <= now /\ now - polled <= Gap
    BY <1>1, <1>7 DEF WaitIInv, PolledInTime
  <2>3. CASE pressed = FALSE
    <3>1. line' = [line EXCEPT !.candidate = None]
      BY <2>1, <2>3 DEF SampleLine
    <3>2. now - moved < Bounce
      BY <1>1, <1>7, <2>3 DEF Contacts
    <3>3. now - moved < Rest
      BY <1>1, <3>2, RestIs, DebounceConstants
    <3> QED
      BY <1>1, <2>1, <3>1, <3>3
  <2>4. CASE pressed = TRUE /\ line.candidate # TRUE
    <3>1. line' = [line EXCEPT !.candidate = TRUE, !.started = now]
      BY <2>1, <2>2, <2>4 DEF SampleLine, Restarts
    <3>2. /\ line'.stable = FALSE /\ line'.candidate = TRUE
          /\ line'.started = now
      BY <1>1, <2>1, <3>1
    <3>3. polled - moved < Rest
      BY <2>1, <2>4
    <3>4. now - moved <= LatestStart
      BY <1>1, <2>2, <3>3, RestIs, DebounceConstants DEF LatestStart
    <3>5. now <= now /\ now - now < Stable
      BY <1>1, DebounceConstants
    <3> QED
      BY <3>2, <3>4, <3>5
  <2>5. CASE pressed = TRUE /\ line.candidate = TRUE
    <3>1. /\ line.started \in Int /\ line.started <= polled
          /\ line.started - moved <= LatestStart
          /\ polled - line.started < Stable
      BY <1>1, <2>1, <2>5
    <3>2. ~Restarts(pressed, clock)
      <4>1. ~(clock < line.started)
        BY <1>1, <2>2, <3>1
      <4>2. line.candidate = pressed
        BY <2>5
      <4> QED
        BY <4>1, <4>2 DEF Restarts
    <3>3. line.stable # pressed /\ Acts(pressed)
      BY <1>1, <2>1, <2>5 DEF Acts
    <3>4. ~HeldStable(clock) /\ line' = line
      BY <1>7, <3>2, <3>3 DEF SampleLine
    <3> DEFINE elapsed == clock - line.started
    <3>5. elapsed \in Nat /\ elapsed < Stable + Gap
      BY <1>1, <2>2, <3>1, DebounceConstants
    <3>6. ~(elapsed % Wrap >= Stable)
      BY <3>4 DEF HeldStable
    <3> HIDE DEF elapsed
    <3>7. elapsed < Stable
      BY <3>5, <3>6, NoWrap, DebounceConstants
    <3>8. now - line.started < Stable /\ line.started <= now
      BY <1>1, <2>2, <3>1, <3>7 DEF elapsed
    <3> QED
      BY <2>1, <2>5, <3>1, <3>4, <3>8
  <2> QED
    BY <1>1, <2>3, <2>4, <2>5
<1>8. Waits'
  BY <1>7 DEF Waits
<1> QED
  BY <1>3, <1>6, <1>8 DEF WaitIInv

LEMMA WaitStep ==
  ASSUME WaitIInv, Stable + Gap <= Wrap, [DebounceNext]_debounceVars
  PROVE  WaitIInv'
<1>0. WaitTypes /\ PolledInTime /\ Waits
  BY DEF WaitIInv
<1>1. CASE Poll
  BY <1>1, SampleWaits DEF Poll
<1>2. CASE Tick
  BY <1>0, <1>2, DebounceConstants
     DEF Tick, WaitIInv, WaitTypes, PolledInTime, Waits
<1>3. CASE SetClockBack
  <2>1. /\ skew' = skew + 1
        /\ UNCHANGED <<line, now, polled, finger, moved, armed, answered>>
    BY <1>3 DEF SetClockBack
  <2>2. skew' \in Nat /\ skew' # 0
    BY <1>0, <2>1 DEF WaitTypes
  <2> QED
    BY <1>0, <2>1, <2>2 DEF WaitIInv, WaitTypes, PolledInTime, Waits
<1>4. CASE Move
  <2>1. /\ finger' = ~finger /\ moved' = now
        /\ UNCHANGED <<line, now, skew, polled>>
    BY <1>4 DEF Move
  <2>2. CASE finger
    <3>1. finger' = FALSE /\ UNCHANGED <<armed, answered>>
      BY <1>4, <2>1, <2>2 DEF Move
    <3> QED
      BY <1>0, <2>1, <3>1 DEF WaitIInv, WaitTypes, PolledInTime, Waits
  <2>3. CASE ~finger
    <3>1. /\ answered' = FALSE
          /\ armed' = (line.stable = FALSE /\ line.candidate = None)
      BY <1>4, <2>3 DEF Move
    <3>2. finger' = TRUE
      BY <2>1, <2>3
    <3>3. armed' \in BOOLEAN
      <4>1. (line.stable = FALSE /\ line.candidate = None) \in BOOLEAN
        OBVIOUS
      <4> QED
        BY <3>1, <4>1
    <3>4. WaitTypes'
      BY <1>0, <2>1, <3>1, <3>2, <3>3 DEF WaitTypes
    <3>5. polled' - moved' < Rest
      BY <1>0, <2>1, RestIs DEF WaitTypes, PolledInTime
    <3>6. Waits'
      BY <2>1, <3>1, <3>5 DEF Waits
    <3>7. PolledInTime'
      BY <1>0, <2>1 DEF PolledInTime
    <3> QED
      BY <3>4, <3>6, <3>7 DEF WaitIInv
  <2> QED
    BY <2>2, <2>3
<1>5. CASE UNCHANGED debounceVars
  BY <1>0, <1>5
     DEF debounceVars, WaitIInv, WaitTypes, PolledInTime, Waits
<1> QED
  BY <1>1, <1>2, <1>3, <1>4, <1>5 DEF DebounceNext

(* A control held after a confirmed release acts within the budget, unless *)
(* the clock went back, if the budget covers the bounce, the interval and  *)
(* a distance of polls at either end, and no interval wraps.               *)
THEOREM PressesActInTime ==
  ASSUME Stable + Gap <= Wrap,
         LatestStart + Stable - 1 + Gap <= Budget
  PROVE  DebounceSpec => []AnsweredInTime
<1>1. DebounceInit => WaitIInv
  BY WaitInitIInv
<1>2. WaitIInv /\ [DebounceNext]_debounceVars => WaitIInv'
  BY WaitStep
<1>3. WaitIInv => AnsweredInTime
  <2> SUFFICES ASSUME WaitIInv, finger, armed, ~answered, skew = 0
               PROVE  now - moved <= Budget
    BY DEF AnsweredInTime
  <2>1. /\ now \in Int /\ polled \in Int /\ moved \in Int
        /\ line.started \in Int
        /\ polled <= now /\ now - polled <= Gap
    BY DEF WaitIInv, WaitTypes, PolledInTime
  <2>2. \/ polled - moved < Rest
        \/ /\ line.started - moved <= LatestStart
           /\ polled - line.started < Stable
    BY DEF WaitIInv, Waits
  <2> QED
    BY <2>1, <2>2, RestIs, DebounceConstants DEF LatestStart
<1> QED
  BY <1>1, <1>2, <1>3, PTL DEF DebounceSpec

-----------------------------------------------------------------------------
(* Types of the four, and their bounds.                                    *)

(* The finger goes down at most MaxPresses times and time is bounded; that *)
(* the events are bounded too is the work of Matched.                      *)
DebounceBounds ==
  /\ -MaxSkew <= line.started /\ line.started <= MaxTime
  /\ now <= MaxTime /\ skew <= MaxSkew /\ presses <= MaxPresses

LEMMA DebounceInitBounds == DebounceInit => DebounceBounds
  BY DebounceConstants DEF DebounceInit, DebounceBounds

LEMMA DebounceStepBounds ==
  ASSUME DebounceIInv, DebounceBounds, [DebounceNext]_debounceVars
  PROVE  DebounceBounds'
<1>0. /\ now \in Nat /\ skew \in Nat /\ presses \in Nat
      /\ line \in [stable : Levels, candidate : Levels, started : Int]
  BY DEF DebounceIInv, DebounceTypes
<1>1. CASE Poll
  <2>1. PICK pressed \in Contacts : SampleLine(pressed, now - skew)
    BY <1>1 DEF Poll
  <2>2. line'.started \in {line.started, now - skew}
    BY <1>0, <2>1 DEF SampleLine
  <2>3. -MaxSkew <= now - skew /\ now - skew <= MaxTime
    BY <1>0, DebounceConstants DEF DebounceBounds
  <2> QED
    BY <1>0, <1>1, <2>2, <2>3 DEF Poll, DebounceBounds
<1>2. CASE Tick
  BY <1>0, <1>2, DebounceConstants DEF Tick, DebounceBounds
<1>3. CASE SetClockBack
  BY <1>0, <1>3, DebounceConstants DEF SetClockBack, DebounceBounds
<1>4. CASE Move
  <2>1. UNCHANGED <<line, now, skew>>
    BY <1>4 DEF Move
  <2>2. presses' <= MaxPresses
    <3>1. CASE finger
      BY <1>4, <3>1 DEF Move, DebounceBounds
    <3>2. CASE ~finger
      BY <1>0, <1>4, <3>2, DebounceConstants DEF Move, DebounceBounds
    <3> QED
      BY <3>1, <3>2
  <2> QED
    BY <2>1, <2>2 DEF DebounceBounds
<1>5. CASE UNCHANGED debounceVars
  BY <1>5 DEF debounceVars, DebounceBounds
<1> QED
  BY <1>1, <1>2, <1>3, <1>4, <1>5 DEF DebounceNext

LEMMA DebounceTyped ==
  ASSUME DebounceIInv, DebounceBounds
  PROVE  DebounceTypeOK
<1>1. /\ line \in [stable : Levels, candidate : Levels, started : Int]
      /\ finger \in BOOLEAN /\ armed \in BOOLEAN /\ answered \in BOOLEAN
  BY DEF DebounceIInv, DebounceTypes
<1>2. line.started \in -MaxSkew .. MaxTime
  BY <1>1, DebounceConstants DEF DebounceBounds
<1>3. line \in [stable : Levels, candidate : Levels,
                started : -MaxSkew .. MaxTime]
  BY <1>1, <1>2
<1>4. /\ now \in 0 .. MaxTime /\ skew \in 0 .. MaxSkew
      /\ polled \in 0 .. now /\ moved \in 0 .. now
      /\ presses \in 0 .. MaxPresses /\ events \in 0 .. MaxPresses
  <2>1. /\ now \in Nat /\ skew \in Nat /\ polled \in Nat /\ moved \in Nat
        /\ moved <= now /\ polled <= now
        /\ presses \in Nat /\ events \in Nat /\ events <= presses
    BY DEF DebounceIInv, DebounceTypes, Matched
  <2> QED
    BY <2>1, DebounceConstants DEF DebounceBounds
<1> QED
  BY <1>1, <1>3, <1>4 DEF DebounceTypeOK

(* The shaft and what is measured from it stay on the scale; the cycles    *)
(* that were counted do, because they add up to a rotation.                *)
EncoderBounds ==
  /\ {shaft, low, high, origin} \subseteq -MaxShaft .. MaxShaft
  /\ knob.phase = NoPhase => cycles = 0

LEMMA EncoderInitBounds == EncoderInit => EncoderBounds
  BY EncoderConstants DEF EncoderInit, EncoderBounds, Phases

LEMMA EncoderStepBounds ==
  ASSUME EncoderIInv, EncoderBounds, [EncoderNext]_encoderVars
  PROVE  EncoderBounds'
<1>1. CASE EncoderNext
  <2>1. PICK position \in Reachable, pressed \in BOOLEAN :
          Rotate(position, pressed)
    BY <1>1 DEF EncoderNext
  <2>2. position \in -MaxShaft .. MaxShaft
    BY DEF Reachable
  <2>3. /\ shaft' = position /\ origin' \in {origin, position}
        /\ low' \in {low, position} /\ high' \in {high, position}
    BY <2>1 DEF Rotate, Measure
  <2>4. knob'.phase = Phase(position)
    BY <2>1 DEF Rotate, SampleKnob, Rebased, Advanced
  <2>5. Phase(position) # NoPhase
    BY <2>2, EncoderConstants DEF Phase, NoPhase
  <2> QED
    BY <2>2, <2>3, <2>4, <2>5 DEF EncoderBounds
<1>2. CASE UNCHANGED encoderVars
  BY <1>2 DEF encoderVars, EncoderBounds
<1> QED
  BY <1>1, <1>2

LEMMA EncoderTyped ==
  ASSUME EncoderIInv, EncoderBounds
  PROVE  EncoderTypeOK
<1>1. EncoderTypes
  BY DEF EncoderIInv
<1>2. cycles \in -MaxShaft .. MaxShaft
  <2>1. CASE knob.phase = NoPhase
    BY <2>1, EncoderConstants DEF EncoderBounds
  <2>2. CASE knob.phase # NoPhase
    <3>1. 4 * cycles + knob.progress = shaft - origin
      BY <2>2 DEF EncoderIInv, RotationAddsUp
    <3>2. knob.progress \in -3 .. 3 /\ cycles \in Int
      BY <1>1 DEF EncoderTypes
    <3>3. shaft \in -MaxShaft .. MaxShaft /\ origin \in -MaxShaft .. MaxShaft
      BY DEF EncoderBounds
    <3> QED
      BY <3>1, <3>2, <3>3, EncoderConstants
  <2> QED
    BY <2>1, <2>2
<1> QED
  BY <1>1, <1>2 DEF EncoderTypes, EncoderTypeOK, EncoderBounds

(* A ceremony takes no more than MaxAttempts attempts, because the one     *)
(* that is too many closes it.                                             *)
PairingBounds ==
  window <= MaxWindow /\ attempts <= MaxAttempts /\ Len(log) <= MaxCalls

LEMMA PairingInitBounds == PairingInit => PairingBounds
  BY PairingConstants DEF PairingInit, PairingBounds

LEMMA PairingStepBounds ==
  ASSUME PairingIInv, PairingBounds, [PairingNext]_pairingVars
  PROVE  PairingBounds'
<1>1. /\ window \in Nat /\ attempts \in Nat /\ log \in Seq(Calls)
      /\ closure = "open" => attempts < MaxAttempts
  BY DEF PairingIInv, PairingTypes, Undecided
<1>2. ASSUME NEW kind, NEW clock, NEW good, NEW record,
             Log(kind, clock, good, record)
      PROVE  Len(log') <= MaxCalls
  <2>1. Len(log') = Len(log) + 1 /\ Len(log) \in Nat /\ Len(log) < MaxCalls
    <3>1. log' = Append(log, [kind |-> kind, at |-> clock, good |-> good,
                              record |-> record])
      BY <1>2 DEF Log
    <3>2. Len(log) \in Nat /\ Len(log') = Len(log) + 1
      BY <1>1, <3>1
    <3> QED
      BY <1>2, <3>2 DEF Log
  <2> QED
    BY <2>1, PairingConstants
<1>3. CASE UNCHANGED pairingVars
  BY <1>3 DEF pairingVars, PairingBounds
<1>4. CASE PairingNext
  <2>1. window' = window /\ Len(log') <= MaxCalls
    BY <1>2, <1>4 DEF PairingNext, CheckExpiry, Cancel, AttemptConfirmation,
                      CompleteWithReference
  <2>2. \/ attempts' = attempts
        \/ closure = "open" /\ attempts' = attempts + 1
    BY <1>4 DEF PairingNext, CheckExpiry, Cancel, AttemptConfirmation,
                CompleteWithReference, Open
  <2>3. attempts' <= MaxAttempts
    BY <1>1, <2>2, PairingConstants DEF PairingBounds
  <2> QED
    BY <2>1, <2>3 DEF PairingBounds
<1> QED
  BY <1>3, <1>4

LEMMA PairingTyped ==
  ASSUME PairingIInv, PairingBounds
  PROVE  PairingTypeOK
  BY PairingConstants
     DEF PairingIInv, PairingTypes, PairingBounds, PairingTypeOK

(* Busy is shown exactly while an operation awaits the file, and what is   *)
(* shown next to a kind is a backup or nothing.                            *)
BackupShown ==
  /\ op \in Operations \cup {Absent}
  /\ Busy <=> state.kind = "busy"
  /\ state.summary \in Backups \cup {Absent}

LEMMA FlowShows ==
  ASSUME NEW kind, NEW operation, NEW summary, NEW current
  PROVE  /\ Flow(kind, operation, summary, current).kind = kind
         /\ Flow(kind, operation, summary, current).summary = summary
  BY DEF Flow

LEMMA BackupInitShown == BackupInit => BackupShown
  BY FlowShows DEF BackupInit, Initial, Shows, BackupShown, Busy

(* A state with another kind, once nothing awaits the file. *)
LEMMA ShownIdle ==
  ASSUME op' = Absent, NEW kind, NEW operation, NEW current, kind # "busy",
         NEW summary \in Backups \cup {Absent},
         state' = Flow(kind, operation, summary, current)
  PROVE  BackupShown'
  BY FlowShows DEF BackupShown, Busy

LEMMA BackupStepShown ==
  ASSUME BackupIInv, BackupShown, [BackupNext]_backupVars
  PROVE  BackupShown'
<1>0. /\ live \in Backups /\ file \in Backups \cup {Absent, Corrupt}
      /\ op # Absent => op \in Operations
      /\ state.summary \in Backups \cup {Absent}
      /\ Absent \in Backups \cup {Absent}
  BY DEF BackupIInv, Held, BackupShown
<1>1. op # Absent => op.summary \in Backups \cup {Absent}
                     /\ op.snapshot \in Backups
  BY <1>0 DEF Operations
<1>2. ASSUME NEW operation \in {"export", "inspect", "restore", "erase",
                                "eraseLocalData"},
             Begin(operation)
      PROVE  BackupShown'
  <2> DEFINE keeps == IF operation \in {"erase", "eraseLocalData"}
                      THEN Absent ELSE LastSummary
  <2>1. keeps \in Backups \cup {Absent}
    BY <1>0 DEF LastSummary
  <2>2. /\ op' = [operation |-> operation, snapshot |-> live,
                  summary |-> keeps]
        /\ state' = Flow("busy", operation, keeps, Absent)
    BY <1>2 DEF Begin, Shows
  <2> HIDE DEF keeps
  <2>3. op' \in Operations
    BY <1>0, <2>1, <2>2 DEF Operations
  <2>4. op' # Absent
    BY <2>3, AbsentIsNoOperation
  <2> QED
    BY <2>1, <2>2, <2>3, <2>4, FlowShows DEF BackupShown, Busy
<1>3. CASE Fails
  <2>1. /\ op' = Absent /\ op # Absent
        /\ state' = Flow("failure", op.operation, op.summary, Absent)
    BY <1>3 DEF Fails, Failed, Shows, Busy
  <2> QED
    BY <1>1, <2>1, ShownIdle
<1>4. CASE EndExport
  <2>1. /\ op' = Absent /\ op # Absent
        /\ state' = Flow("success", "export", op.snapshot, Absent)
    BY <1>4 DEF EndExport, Ends, Done, Shows, Busy
  <2> QED
    BY <1>1, <2>1, ShownIdle
<1>5. CASE EndInspect
  <2>1. op' = Absent /\ op # Absent
    BY <1>5 DEF EndInspect, Ends, Busy
  <2>2. CASE file = Absent
    BY <1>0, <1>5, <2>1, <2>2, ShownIdle DEF EndInspect, Shows
  <2>3. CASE file # Absent /\ file = Corrupt
    <3>1. state' = Flow("failure", "inspect", op.summary, Absent)
      BY <1>5, <2>3 DEF EndInspect, Failed, Shows
    <3> QED
      BY <1>1, <2>1, <3>1, ShownIdle
  <2>4. CASE file # Absent /\ file # Corrupt
    <3>1. state' = Flow("success", "inspect", file, Absent)
      BY <1>5, <2>4 DEF EndInspect, Done, Shows
    <3> QED
      BY <1>0, <2>1, <2>4, <3>1, ShownIdle
  <2> QED
    BY <2>2, <2>3, <2>4
<1>6. CASE EndRestore
  <2>1. op' = Absent /\ op # Absent
    BY <1>6 DEF EndRestore, Ends, Busy
  <2>2. CASE file = Absent
    <3>1. state' = Flow("absent", "restore", Absent, Absent)
      BY <1>6, <2>2 DEF EndRestore, Shows
    <3> QED
      BY <1>0, <2>1, <3>1, ShownIdle
  <2>3. CASE file # Absent /\ file = Corrupt
    <3>1. state' = Flow("failure", "restore", op.summary, Absent)
      BY <1>6, <2>3 DEF EndRestore, Failed, Shows
    <3> QED
      BY <1>1, <2>1, <3>1, ShownIdle
  <2>4. CASE file # Absent /\ file # Corrupt
    <3>1. \/ state' = Flow("stale", "restore", file, live.revision)
          \/ state' = Flow("success", "restore", file, Absent)
      BY <1>6, <2>4 DEF EndRestore, Refused, Done, Shows
    <3> QED
      BY <1>0, <2>1, <2>4, <3>1, ShownIdle
  <2> QED
    BY <2>2, <2>3, <2>4
<1>7. CASE EndErase \/ EndEraseLocalData
  <2>1. /\ op' = Absent
        /\ \/ state' = Flow("absent", "erase", Absent, Absent)
           \/ state' = Flow("erased", Absent, Absent, Absent)
    BY <1>7 DEF EndErase, EndEraseLocalData, Ends, Shows
  <2> QED
    BY <1>0, <2>1, ShownIdle
<1>8. CASE ConfirmStaleRestore
  <2>1. /\ op' = Absent
        /\ state' = Flow("success", "restore", state.summary, Absent)
    BY <1>8 DEF ConfirmStaleRestore, Busy, Done, Shows
  <2> QED
    BY <1>0, <2>1, ShownIdle
<1>9. CASE CancelStaleConfirmation
  <2>1. /\ op' = op /\ op = Absent
        /\ state' = Flow("success", "inspect", state.summary, Absent)
    BY <1>9 DEF CancelStaleConfirmation, BackupShown, Busy, Done, Shows
  <2> QED
    BY <1>0, <2>1, ShownIdle
<1>10. ASSUME NEW backup \in Backups, NEW allowStale \in BOOLEAN,
              RestoreParsedBackup(backup, allowStale)
       PROVE  BackupShown'
  <2>1. /\ op' = Absent
        /\ \/ state' = Flow("stale", "restore", backup, live.revision)
           \/ state' = Flow("success", "restore", backup, Absent)
    BY <1>10 DEF RestoreParsedBackup, Busy, Refused, Done, Shows
  <2> QED
    BY <2>1, ShownIdle
<1>11. CASE RequestEraseLocalData \/ CancelEraseLocalData
  <2>1. /\ op' = Absent
        /\ \/ state' = Flow("eraseRequired", Absent, Absent, Absent)
           \/ state' = Flow("initial", Absent, Absent, Absent)
    BY <1>11 DEF RequestEraseLocalData, CancelEraseLocalData, Busy, Initial,
                 Shows
  <2> QED
    BY <1>0, <2>1, ShownIdle
<1>12. CASE UNCHANGED <<state, op>>
  BY <1>12 DEF BackupShown, Busy
<1> QED
  BY <1>2, <1>3, <1>4, <1>5, <1>6, <1>7, <1>8, <1>9, <1>10, <1>11, <1>12
     DEF BackupNext, Receipt, Edit, Damage, backupVars

LEMMA BackupTyped ==
  ASSUME BackupIInv, BackupShown
  PROVE  BackupTypeOK
  BY DEF BackupIInv, Held, Told, BackupShown, BackupTypeOK

(* The four side by side: a step of one leaves the others alone. *)
ControlsIInv ==
  /\ DebounceIInv /\ DebounceBounds
  /\ EncoderIInv /\ EncoderBounds
  /\ PairingIInv /\ PairingBounds
  /\ BackupIInv /\ BackupShown
  /\ used \in {"line", "knob", "pairing", "backup"}

LEMMA ControlsInitIInv == Init => ControlsIInv
  BY DebounceInitIInv, DebounceInitBounds, EncoderInitIInv, EncoderInitBounds,
     PairingInitIInv, PairingInitBounds, BackupInitIInv, BackupInitShown
     DEF Init, ControlsIInv

LEMMA ControlsStep ==
  ASSUME ControlsIInv, Bounce <= Stable, [Next]_vars
  PROVE  ControlsIInv'
<1>1. /\ [DebounceNext]_debounceVars /\ [EncoderNext]_encoderVars
      /\ [PairingNext]_pairingVars /\ [BackupNext]_backupVars
      /\ used' = used
  BY DEF Next, UseLine, UseKnob, UsePairing, UseBackup, vars
<1>2. DebounceIInv' /\ DebounceBounds'
  BY <1>1, DebounceStep, DebounceStepBounds DEF ControlsIInv
<1>3. EncoderIInv' /\ EncoderBounds'
  BY <1>1, EncoderNextIInv, EncoderStepBounds DEF ControlsIInv
<1>4. PairingIInv' /\ PairingBounds'
  BY <1>1, PairingNextIInv, PairingStepBounds DEF ControlsIInv
<1>5. BackupIInv' /\ BackupShown'
  BY <1>1, BackupNextIInv, BackupStepShown DEF ControlsIInv
<1> QED
  BY <1>1, <1>2, <1>3, <1>4, <1>5 DEF ControlsIInv

(* Types of all four: no more events than presses, cycles that the shaft   *)
(* can have turned, no attempt beyond MaxAttempts, and a flow that shows   *)
(* busy exactly while an operation awaits the file.                        *)
THEOREM TypeCorrectness ==
  ASSUME Bounce <= Stable
  PROVE  Spec => []TypeOK
<1>1. Init => ControlsIInv
  BY ControlsInitIInv
<1>2. ControlsIInv /\ [Next]_vars => ControlsIInv'
  BY ControlsStep
<1>3. ControlsIInv => TypeOK
  BY DebounceTyped, EncoderTyped, PairingTyped, BackupTyped
     DEF ControlsIInv, TypeOK
<1> QED
  BY <1>1, <1>2, <1>3, PTL DEF Spec
=============================================================================
