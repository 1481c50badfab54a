------------------------------- MODULE Pairing -------------------------------
(***************************************************************************)
(* One pairing ceremony (pairing.dart): within a window that the device    *)
(* opened, by a wall clock that may be set, a code and a fingerprint are   *)
(* compared a bounded number of times, and a ceremony that was confirmed   *)
(* gives one record.  A call is logged with the reading of the clock.      *)
(***************************************************************************)
EXTENDS Integers, SequencesExt

CONSTANTS
  MaxAttempts,   \* kMaxPairingAttempts
  MaxWindow,     \* kMaxPairingWindowSeconds
  MaxCalls       \* bound: calls of one ceremony

ASSUME PairingConstants ==
  MaxAttempts \in Nat \ {0} /\ MaxWindow \in Nat \ {0} /\ MaxCalls \in Nat

VARIABLES
  window,     \* _windowSeconds
  attempts,   \* _attempts
  closure,    \* _closureReason, or "open"
  completed,  \* _recordCompleted
  log         \* history: the calls, in order, and whether each gave a record

pairingVars == <<window, attempts, closure, completed, log>>

(* The device reported its window at one; clocks read around it. *)
Start    == 1
Deadline == Start + window
Clock    == 0 .. Start + MaxWindow

Open == closure = "open"

PairingInit ==
  /\ window \in 1 .. MaxWindow
  /\ attempts = 0 /\ closure = "open" /\ completed = FALSE /\ log = << >>

Log(kind, clock, good, record) ==
  /\ Len(log) < MaxCalls
  /\ log' = Append(log, [kind |-> kind, at |-> clock, good |-> good,
                         record |-> record])

(* checkExpiry *)
CheckExpiry(clock) ==
  /\ Log("check", clock, FALSE, FALSE)
  /\ closure' = IF Open /\ clock >= Deadline THEN "timedOut" ELSE closure
  /\ UNCHANGED <<window, attempts, completed>>

(* cancel: the first reason stays. *)
Cancel ==
  /\ Log("cancel", Start, FALSE, FALSE)
  /\ closure' = IF Open THEN "cancelled" ELSE closure
  /\ UNCHANGED <<window, attempts, completed>>

(* Mutant: the one failure too many closes the ceremony. *)
ExhaustedLate(count) == MaxAttempts - count < 0

Exhausted(count) == MaxAttempts - count <= 0

(* attemptConfirmation: a closed ceremony and one whose window has not     *)
(* opened throw and consume nothing, one whose window is over is closed.   *)
AttemptConfirmation(clock, matched) ==
  /\ Log("attempt", clock, matched, FALSE)
  /\ IF ~Open \/ clock < Start THEN UNCHANGED <<attempts, closure>>
     ELSE IF clock >= Deadline
     THEN closure' = "timedOut" /\ UNCHANGED attempts
     ELSE /\ attempts' = attempts + 1
          /\ closure' = IF matched THEN "confirmed"
                        ELSE IF Exhausted(attempts + 1)
                        THEN "attemptsExhausted" ELSE "open"
  /\ UNCHANGED <<window, completed>>

(* completeWithReference: once, after a confirmation; a reference that is  *)
(* out of bounds consumes nothing.                                         *)
CompleteWithReference(valid) ==
  LET record == closure = "confirmed" /\ ~completed /\ valid IN
  /\ Log("complete", Start, valid, record)
  /\ completed' = (completed \/ record)
  /\ UNCHANGED <<window, attempts, closure>>

PairingNext ==
  \/ \E clock \in Clock : CheckExpiry(clock)
  \/ Cancel
  \/ \E clock \in Clock, matched \in BOOLEAN : AttemptConfirmation(clock, matched)
  \/ \E valid \in BOOLEAN : CompleteWithReference(valid)

PairingSpec == PairingInit /\ [][PairingNext]_pairingVars

-----------------------------------------------------------------------------
Reasons == {"timedOut", "attemptsExhausted", "cancelled", "confirmed"}

PairingTypeOK ==
  /\ window \in 1 .. MaxWindow /\ attempts \in 0 .. MaxAttempts
  /\ closure \in Reasons \cup {"open"} /\ completed \in BOOLEAN
  /\ Len(log) <= MaxCalls

(* The calls, of those logged, each of which alone would end a ceremony:   *)
(* with the reason it would give.                                          *)
Inside(call) == call.kind = "attempt" /\ Start <= call.at /\ call.at < Deadline
Ending(reason) ==
  CASE reason = "cancelled" -> {i \in DOMAIN log : log[i].kind = "cancel"}
    [] reason = "confirmed" -> {i \in DOMAIN log : Inside(log[i]) /\ log[i].good}
    [] reason = "timedOut" ->
         {i \in DOMAIN log : log[i].kind \in {"check", "attempt"}
                             /\ log[i].at >= Deadline}
    [] OTHER -> {i \in DOMAIN log : Inside(log[i]) /\ ~log[i].good /\
                   Cardinality({j \in 1 .. i : Inside(log[j])}) >= MaxAttempts}

(* The first call that ends the ceremony decides it for good: no later     *)
(* call, no clock set back and no answer that comes late changes the       *)
(* reason, and at most one record comes of it, after a match that was      *)
(* inside the window and among the first MaxAttempts (pairing.dart,        *)
(* threat-model.md on pairing).                                            *)
DecidedOnceInTime ==
  LET ends    == UNION {Ending(reason) : reason \in Reasons}
      records == {i \in DOMAIN log : log[i].record}
  IN  /\ (closure = "open") <=> (ends = {})
      /\ ends # {} => Min(ends) \in Ending(closure)
      /\ Cardinality(records) <= 1
      /\ \A i \in records : \E j \in 1 .. i - 1 :
           /\ j = Min(ends) /\ j \in Ending("confirmed")
           /\ Cardinality({k \in 1 .. j : Inside(log[k])}) <= MaxAttempts
=============================================================================
