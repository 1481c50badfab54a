------------------------------ MODULE Controls ------------------------------
(***************************************************************************)
(* What a user operates: the push lines and the knob of the clock, the     *)
(* pairing and the backups of the application.  The four share no state,   *)
(* so that a behaviour of all is any interleaving of one of each; the      *)
(* checked behaviours use one of them.                                     *)
(***************************************************************************)
EXTENDS ControlDebounce, QuadratureEncoder, Pairing, BackupFlow

VARIABLE used   \* what is in use, from the start

vars == <<debounceVars, encoderVars, pairingVars, backupVars, used>>

(* What is not in use rests in one initial state. *)
Init ==
  /\ DebounceInit /\ EncoderInit /\ PairingInit /\ BackupInit
  /\ used \in {"line", "knob", "pairing", "backup"}
  /\ used # "line" => ~finger
  /\ used # "knob" => shaft = 0
  /\ used # "pairing" => window = MaxWindow

UseLine ==
  /\ used = "line" /\ DebounceNext
  /\ UNCHANGED <<encoderVars, pairingVars, backupVars, used>>

UseKnob ==
  /\ used = "knob" /\ EncoderNext
  /\ UNCHANGED <<debounceVars, pairingVars, backupVars, used>>

UsePairing ==
  /\ used = "pairing" /\ PairingNext
  /\ UNCHANGED <<debounceVars, encoderVars, backupVars, used>>

UseBackup ==
  /\ used = "backup" /\ BackupNext
  /\ UNCHANGED <<debounceVars, encoderVars, pairingVars, used>>

Next == UseLine \/ UseKnob \/ UsePairing \/ UseBackup

Spec == Init /\ [][Next]_vars

-----------------------------------------------------------------------------
(* Types of the four. *)
TypeOK ==
  /\ DebounceTypeOK /\ EncoderTypeOK /\ PairingTypeOK /\ BackupTypeOK
  /\ used \in {"line", "knob", "pairing", "backup"}
=============================================================================
