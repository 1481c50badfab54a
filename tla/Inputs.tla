------------------------------- MODULE Inputs -------------------------------
(***************************************************************************)
(* What the device is given and does not trust: timezone records and       *)
(* weekly alarms, JSON text, protocol messages.  The three parts share no  *)
(* state, so that a behaviour of all is any interleaving of one of each;   *)
(* the checked behaviours give one of them.                                *)
(***************************************************************************)
EXTENDS AlarmCalendar, JsonParser, MessageGate

VARIABLE given   \* what is given, from the start

vars == <<calendarVars, parserVars, gateVars, given>>

(* What is not given rests in one initial state. *)
Init ==
  /\ CalendarInit /\ ParserInit /\ GateInit
  /\ given \in {"calendar", "text", "messages"}
  /\ given # "calendar" =>
       /\ records = CHOOSE r \in RecordSets : TRUE
       /\ alarms = CHOOSE a \in AlarmSets : TRUE

GiveCalendar ==
  given = "calendar" /\ CalendarNext /\ UNCHANGED <<parserVars, gateVars, given>>

GiveText ==
  given = "text" /\ ParserNext /\ UNCHANGED <<calendarVars, gateVars, given>>

GiveMessages ==
  given = "messages" /\ GateNext /\ UNCHANGED <<calendarVars, parserVars, given>>

Next == GiveCalendar \/ GiveText \/ GiveMessages

Spec == Init /\ [][Next]_vars

-----------------------------------------------------------------------------
(* Types of the three. *)
TypeOK ==
  /\ CalendarTypeOK /\ ParserTypeOK /\ GateTypeOK
  /\ given \in {"calendar", "text", "messages"}
=============================================================================
