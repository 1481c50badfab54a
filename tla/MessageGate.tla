----------------------------- MODULE MessageGate -----------------------------
(***************************************************************************)
(* The full gate of a protocol message: envelope, replay, parsing and body *)
(* (protocol_service.cpp, message_body_validator.cpp), next to the mirror  *)
(* of it that the application keeps (protocol_contract.dart).  A message   *)
(* is the kind of its type and the set of its defects, and has an id; a    *)
(* gate is the order in which it looks for defects.                        *)
(***************************************************************************)
EXTENDS Integers, FiniteSets, SequencesExt

CONSTANTS
  MessageIds,
  Capacity,      \* entries of the replay window
  MaxAccepted    \* bound: messages accepted

ASSUME GateConstants == Capacity \in Nat /\ MaxAccepted \in Nat

VARIABLES
  order,      \* ReplayWindow::order_
  set,        \* ReplayWindow::set_
  seen,       \* the replay set of the application's mirror
  accepted    \* history: ids of the messages the firmware accepted

gateVars == <<order, set, seen, accepted>>

(* is_known_request_type: the types without a body schema are one kind. *)
Kinds == {"schedule", "receipt", "error", "plain"}

(* validate_alarm: every defect of one alarm is a violation of its schema. *)
AlarmDefects ==
  {"missing_key", "unknown_key", "id", "label", "enabled", "localTime",
   "days", "timezone", "snoozeMinutes", "volume", "sound", "source",
   "sourceEventId"}

(* A row is the defects that one check finds, and the code it answers. *)
Schema(defects)   == <<defects, "schema_invalid">>
Semantic(defects) == <<defects, "payload_semantic_error">>

(* validate_protocol_envelope; "replayed" is found in the window. *)
EnvelopeChecks(kind) ==
  << <<{"protocol"}, "invalid_protocol">>,
     <<{"type"}, "unknown_type">>,
     <<{"messageId"}, "invalid_message_id">>,
     <<{"replayed"}, "duplicate_message_id">>,
     <<{"sentAt"}, "invalid_sent_at">>,
     <<IF kind = "schedule" THEN {"expectedRevision"} ELSE {},
       "expected_revision_required">>,
     <<{"size"}, "envelope_too_large">> >>

(* parse_json as the gate answers its failures, and the shape of the body. *)
ParseChecks ==
  << <<{"input"}, "envelope_too_large">>, Schema({"text", "limits"}),
     Schema({"shape"}) >>

ScheduleChecks ==
  << Schema({"alarms"}), Semantic({"count"}), Schema(AlarmDefects),
     Semantic({"same_id"}) >>
ReceiptChecks ==
  << Schema({"missing"}), Schema({"appliedRevision"}), Schema({"alarmCount"}),
     Semantic({"count"}), Schema({"nextAlarmUtc"}) >>
ErrorChecks ==
  << Schema({"missing"}), Schema({"unknown"}), Schema({"code"}),
     Schema({"summary"}), Schema({"field"}), Schema({"retryable"}),
     Schema({"currentRevision"}) >>

(* Mutant: a schedule is measured after its alarms are looked at. *)
BodyChecksCountLast(kind) ==
  IF kind = "schedule"
  THEN << Schema({"alarms"}), Schema(AlarmDefects), Semantic({"count"}),
          Semantic({"same_id"}) >>
  ELSE IF kind = "receipt" THEN ReceiptChecks
  ELSE IF kind = "error" THEN ErrorChecks ELSE << >>

(* validate_protocol_message_body *)
BodyChecks(kind) ==
  IF kind = "schedule" THEN ScheduleChecks
  ELSE IF kind = "receipt" THEN ReceiptChecks
  ELSE IF kind = "error" THEN ErrorChecks ELSE << >>

(* validateContractMessage: one pass over a decoded message. *)
AppChecks(kind) ==
  << <<{"protocol"}, "invalid_protocol">>,
     <<{"type"}, "unknown_type">>,
     <<{"messageId"}, "invalid_message_id">>,
     <<{"replayed"}, "duplicate_message_id">>,
     <<{"sentAt"}, "invalid_sent_at">>,
     <<IF kind = "schedule" THEN {"expectedRevision"} ELSE {},
       "expected_revision_required">>,
     <<{"size"}, "envelope_too_large">>,
     Schema({"shape"}) >>
  \o CASE kind = "schedule" ->
            << Schema({"alarms"}), Semantic({"count"}), Schema(AlarmDefects),
               Semantic({"same_id"}) >>
       [] kind = "receipt" ->
            << Schema({"missing", "appliedRevision", "alarmCount"}),
               Semantic({"count"}), Schema({"nextAlarmUtc"}) >>
       [] kind = "error" ->
            << Schema({"missing", "unknown", "code", "summary", "field",
                       "retryable", "currentRevision"}) >>
       [] OTHER -> << >>

(* The answer of a gate: the code of the first check that finds a defect.  *)
Answer(checks, defects) ==
  LET found == {i \in DOMAIN checks : checks[i][1] \cap defects # {}}
  IN  IF found = {} THEN "accepted" ELSE checks[Min(found)][2]

Found(message, replayed) ==
  message.defects \cup (IF replayed THEN {"replayed"} ELSE {})

(* validate_protocol_message, and its mirror. *)
FirmwareAnswer(message, replayed) ==
  Answer(EnvelopeChecks(message.kind) \o ParseChecks \o BodyChecks(message.kind),
         Found(message, replayed))
AppAnswer(message, replayed) ==
  Answer(AppChecks(message.kind), Found(message, replayed))

-----------------------------------------------------------------------------
(* The messages that may arrive: one or two defects of those that their    *)
(* kind can have, or none.                                                 *)
Defects(kind) ==
  UNION {checks[1] : checks \in
           ToSet(EnvelopeChecks(kind) \o ParseChecks \o BodyChecks(kind))}
    \ {"replayed"}
Messages ==
  UNION {{[kind |-> kind, defects |-> {a, b}] :
            a \in Defects(kind), b \in Defects(kind)}
         \cup {[kind |-> kind, defects |-> {}]} : kind \in Kinds}

GateInit == order = << >> /\ set = {} /\ seen = {} /\ accepted = << >>

(* Mutant: an id falls out of the queue and stays in the set. *)
NoOverflow(queue) == {}

(* The ids that fall out of a queue longer than the capacity. *)
Overflow(queue) ==
  IF Len(queue) > Capacity THEN {queue[i] : i \in 1 .. Len(queue) - Capacity}
  ELSE {}

(* ReplayWindow::remember *)
RememberId(id) ==
  IF Capacity = 0 \/ id \in set THEN UNCHANGED <<order, set>>
  ELSE LET queue == Append(order, id)
           extra == IF Len(queue) > Capacity THEN Len(queue) - Capacity ELSE 0
       IN  /\ order' = SubSeq(queue, extra + 1, Len(queue))
           /\ set' = (set \cup {id}) \ Overflow(queue)

(* A message passes both gates; each remembers it once it is accepted. *)
Receive(id, message) ==
  /\ IF FirmwareAnswer(message, id \in set) = "accepted"
     THEN /\ Len(accepted) < MaxAccepted
          /\ RememberId(id)
          /\ accepted' = Append(accepted, id)
     ELSE UNCHANGED <<order, set, accepted>>
  /\ seen' = IF AppAnswer(message, id \in seen) = "accepted"
             THEN seen \cup {id} ELSE seen

GateNext == \E id \in MessageIds, message \in Messages : Receive(id, message)

GateSpec == GateInit /\ [][GateNext]_gateVars

-----------------------------------------------------------------------------
GateTypeOK ==
  /\ order \in Seq(MessageIds) /\ Len(order) <= Capacity
  /\ set \subseteq MessageIds /\ seen \subseteq MessageIds
  /\ accepted \in Seq(MessageIds) /\ Len(accepted) <= MaxAccepted

(* A message is refused as a duplicate exactly if its id is that of one of *)
(* the last Capacity accepted messages: refused messages take no place in  *)
(* the window, and the queue and the set it is made of never part.         *)
DuplicateIsRecent ==
  LET recent == {accepted[i] : i \in {j \in DOMAIN accepted :
                                        j > Len(accepted) - Capacity}}
  IN  \A id \in MessageIds : id \in set <=> id \in recent

(* Whether the gates agree on all messages, by whether each has the id in  *)
(* its memory; texts that only the firmware's parser refuses are left out. *)
Agree ==
  [firmware \in BOOLEAN |-> [app \in BOOLEAN |-> \A message \in Messages :
     \/ message.defects \cap {"input", "text", "limits"} # {}
     \/ FirmwareAnswer(message, firmware) = AppAnswer(message, app)]]

(* Firmware and application give every message the same answer, whichever  *)
(* one or two defects it has, but for a text that only the firmware's      *)
(* parser refuses and for an id that only the application remembers: the   *)
(* firmware has forgotten it, as the application's set is not bounded, or  *)
(* had refused its text (protocol.md: fixtures are normative for both).    *)
SameAnswer ==
  \A id \in MessageIds :
    id \in seen \ set \/ Agree[(id \in set)][(id \in seen)]
=============================================================================
