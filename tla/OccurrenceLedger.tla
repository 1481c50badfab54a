-------------------------- MODULE OccurrenceLedger --------------------------
(***************************************************************************)
(* What the firmware promises of alarm occurrences, whatever the clocks,   *)
(* the storage and the schedule do (docs/alarm-semantics.md, principle 2): *)
(* an occurrence is admitted at most once, one occurrence at a time holds  *)
(* the alert, and an outcome is final.                                     *)
(***************************************************************************)
CONSTANTS Occurrences,  \* every occurrence identity
          Nobody        \* no occurrence holds the alert

VARIABLES current,      \* the active occurrence, or Nobody
          ended         \* the occurrences that have an outcome

ledger == <<current, ended>>

LedgerInit == current = Nobody /\ ended = {}

(* Occurrences recorded as missed by a step. *)
Missing == ended \subseteq ended' /\ ended' \subseteq Occurrences

(* An occurrence without outcome takes the free alert; others may be       *)
(* recorded as missed in the same commit.                                  *)
Admit ==
  /\ current = Nobody
  /\ current' \in Occurrences
  /\ Missing
  /\ current' \notin ended'

(* Occurrences are missed without ever holding the alert. *)
Miss ==
  /\ current = Nobody
  /\ Missing
  /\ current' = current

(* The active occurrence gets its outcome. *)
Finish ==
  /\ current # Nobody
  /\ ended' = ended \cup {current}
  /\ current' = Nobody

LedgerNext == Admit \/ Miss \/ Finish

LedgerSpec == LedgerInit /\ [][LedgerNext]_ledger
=============================================================================
