-------------------------- MODULE QuadratureEncoder --------------------------
(***************************************************************************)
(* The rotary knob: a shaft that turns between samples, a push switch, and *)
(* the policy that turns sampled phases into whole detent cycles.          *)
(* Phases are numbered along the Gray sequence 00, 01, 11, 10, of which    *)
(* shaft positions run through one after the other.                        *)
(***************************************************************************)
EXTENDS Integers

CONSTANTS
  Turn,       \* most quarter cycles the shaft turns between two samples;
              \* from 3 on its direction cannot be told from the phases
  MaxShaft    \* bound: shaft positions are -MaxShaft .. MaxShaft

ASSUME EncoderConstants ==
  /\ Turn \in 0 .. 2
  /\ MaxShaft \in Nat /\ MaxShaft >= 3

VARIABLES
  knob,     \* QuadratureEncoder: phase, progress, was pressed
  event,    \* what the last sample returned: -1, 1, or 0 for nothing
  shaft,    \* true position in quarter cycles
  low,      \* history: least position sampled since a cycle or a push
  high,     \* history: greatest position sampled since then
  origin,   \* history: the position sampled after a push or a missed sample
  cycles    \* history: sum of the events since the origin

encoderVars == <<knob, event, shaft, low, high, origin, cycles>>

Phases == 0 .. 3
NoPhase == -1     \* nothing sampled yet
Phase(position) == position % 4

(* Mutant: a jump over a phase counts as a step forward. *)
StepAlways(from, to) ==
  LET ahead == (to - from) % 4
  IN  IF ahead = 3 THEN -1 ELSE IF ahead = 2 THEN 1 ELSE ahead

(* kStep: adjacent phases are one step apart, opposite ones are 2. *)
Step(from, to) ==
  LET ahead == (to - from) % 4
  IN  IF ahead = 3 THEN -1 ELSE ahead

EncoderInit ==
  /\ knob = [phase |-> NoPhase, progress |-> 0, pressed |-> FALSE]
  /\ event = 0
  /\ shaft \in Phases
  /\ low = shaft /\ high = shaft /\ origin = shaft /\ cycles = 0

(* Mutant: partial progress survives a push and a diagonal jump. *)
RebasedKeeping(phase, pressed) ==
  [phase |-> phase, progress |-> knob.progress % 4, pressed |-> pressed]

(* The phase becomes the reference and partial progress is dropped. *)
Rebased(phase, pressed) ==
  [phase |-> phase, progress |-> 0, pressed |-> pressed]

Advanced(phase) ==
  [phase |-> phase, progress |-> knob.progress + Step(knob.phase, phase),
   pressed |-> FALSE]

(* sample(phase, pressed): the first sample, a push and the sample after   *)
(* it, and a jump over a phase only set the reference.                     *)
SampleKnob(phase, pressed) ==
  IF \/ knob.phase = NoPhase \/ pressed \/ knob.pressed
     \/ Step(knob.phase, phase) = 2
  THEN knob' = Rebased(phase, pressed) /\ event' = 0
  ELSE IF Advanced(phase).progress \in {4, -4}
  THEN /\ knob' = Rebased(phase, FALSE)
       /\ event' = Advanced(phase).progress \div 4
  ELSE knob' = Advanced(phase) /\ event' = 0

(* What the rotation is measured against: a push, the sample that ends it  *)
(* and a turn by more than one phase start the measurement anew.           *)
Disturbed(position, pressed) ==
  \/ knob.phase = NoPhase \/ pressed \/ knob.pressed
  \/ position - shaft \notin -1 .. 1

Measure(position, disturbed) ==
  /\ origin' = IF disturbed THEN position ELSE origin
  /\ cycles' = IF disturbed THEN 0 ELSE cycles + event'
  /\ IF knob.phase = NoPhase \/ knob'.pressed \/ knob.pressed \/ event' # 0
     THEN low' = position /\ high' = position
     ELSE /\ low' = IF position < low THEN position ELSE low
          /\ high' = IF position > high THEN position ELSE high

(* The shaft turns, then it is sampled. *)
Rotate(position, pressed) ==
  /\ shaft' = position
  /\ SampleKnob(Phase(position), pressed)
  /\ Measure(position, Disturbed(position, pressed))

Reachable == {p \in -MaxShaft .. MaxShaft : p - shaft \in -Turn .. Turn}

EncoderNext == \E position \in Reachable, pressed \in BOOLEAN :
                 Rotate(position, pressed)

EncoderSpec == EncoderInit /\ [][EncoderNext]_encoderVars

-----------------------------------------------------------------------------
EncoderTypeOK ==
  /\ knob \in [phase : Phases \cup {NoPhase}, progress : -3 .. 3,
               pressed : BOOLEAN]
  /\ event \in -1 .. 1
  /\ {shaft, low, high, origin} \subseteq -MaxShaft .. MaxShaft
  /\ cycles \in -MaxShaft .. MaxShaft

(* quadrature_encoder.cpp:48: lost motion is acceptable, invented motion   *)
(* is not.  A cycle is reported only when the shaft has turned by a whole  *)
(* cycle in that direction since the last one reported or the last push.   *)
NoInventedMotion ==
  [][/\ event' = 1 => shaft' - low >= 4
     /\ event' = -1 => high - shaft' >= 4]_encoderVars

(* No cycle is lost or delayed while every phase is sampled: the events    *)
(* and the partial progress add up to the true rotation.                   *)
RotationAddsUp ==
  knob.phase # NoPhase => 4 * cycles + knob.progress = shaft - origin
=============================================================================
