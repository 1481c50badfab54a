----------------------------- MODULE InputsProofs -----------------------------
(***************************************************************************)
(* Theorems about what arrives at the device, for every set of messages,   *)
(* every table of zone records and every text the constants allow: the     *)
(* envelope gate of the firmware and of the companion, the calendar (zone  *)
(* records, rules of a window, plan) and the JSON parser, each with its    *)
(* inductive invariant, and at the end the module Inputs, which composes   *)
(* the three.                                                              *)
(*                                                                         *)
(* The gate's window is the end of the accepted ids. The rules of a window *)
(* are a segment of a chain whose transitions are in order and linked, and *)
(* tell the time of the record. The parser's stack describes the set of    *)
(* texts that would complete what has been read, and each token leaves     *)
(* those that start with it.                                               *)
(***************************************************************************)
EXTENDS Inputs, FiniteMinimum, SequenceTheorems

-----------------------------------------------------------------------------
(***************************************************************************)
(* The envelope gates: validate_protocol_message with its replay window,   *)
(* and validateContractMessage of the companion.                           *)
(***************************************************************************)

(* The checks of the firmware's gate are rows of defects and codes, none   *)
(* of which is an acceptance.                                              *)
Codes ==
  {"invalid_protocol", "unknown_type", "invalid_message_id",
   "duplicate_message_id", "invalid_sent_at", "expected_revision_required",
   "envelope_too_large", "schema_invalid", "payload_semantic_error"}
AllDefects ==
  AlarmDefects \cup
  {"protocol", "type", "messageId", "replayed", "sentAt", "expectedRevision",
   "size", "input", "text", "limits", "shape", "alarms", "count", "same_id",
   "missing", "unknown", "code", "summary", "field", "retryable",
   "currentRevision", "appliedRevision", "alarmCount", "nextAlarmUtc"}
Rows == (SUBSET AllDefects) \X Codes

(* A check written as Schema or Semantic is such a row.                    *)
LEMMA RowsOfSchema ==
  ASSUME NEW D \in SUBSET AllDefects
  PROVE  Schema(D) \in Rows /\ Semantic(D) \in Rows
  BY DEF Schema, Semantic, Rows, Codes

(* The envelope checks are seven rows; the fourth is the replay window's.  *)
LEMMA EnvelopeRows ==
  ASSUME NEW kind
  PROVE  /\ EnvelopeChecks(kind) \in Seq(Rows)
         /\ Len(EnvelopeChecks(kind)) = 7
         /\ EnvelopeChecks(kind)[4] = <<{"replayed"}, "duplicate_message_id">>
<1>1. /\ <<{"protocol"}, "invalid_protocol">> \in Rows
      /\ <<{"type"}, "unknown_type">> \in Rows
      /\ <<{"messageId"}, "invalid_message_id">> \in Rows
      /\ <<{"replayed"}, "duplicate_message_id">> \in Rows
      /\ <<{"sentAt"}, "invalid_sent_at">> \in Rows
      /\ <<IF kind = "schedule" THEN {"expectedRevision"} ELSE {},
           "expected_revision_required">> \in Rows
      /\ <<{"size"}, "envelope_too_large">> \in Rows
  BY DEF Rows, Codes, AllDefects
<1> HIDE DEF Rows
<1> QED
  BY <1>1 DEF EnvelopeChecks

(* The parse checks are rows.                                              *)
LEMMA ParseRows == ParseChecks \in Seq(Rows)
<1>1. <<{"input"}, "envelope_too_large">> \in Rows
  BY DEF Rows, Codes, AllDefects
<1>2. Schema({"text", "limits"}) \in Rows /\ Schema({"shape"}) \in Rows
  BY RowsOfSchema DEF AllDefects
<1> HIDE DEF Rows
<1> QED
  BY <1>1, <1>2 DEF ParseChecks

(* So are the body checks of every type.                                   *)
LEMMA BodyRows ==
  ASSUME NEW kind
  PROVE  BodyChecks(kind) \in Seq(Rows)
<1>1. ScheduleChecks \in Seq(Rows)
  <2>1. /\ Schema({"alarms"}) \in Rows /\ Semantic({"count"}) \in Rows
        /\ Schema(AlarmDefects) \in Rows /\ Semantic({"same_id"}) \in Rows
    BY RowsOfSchema DEF AllDefects
  <2> QED
    BY <2>1 DEF ScheduleChecks
<1>2. ReceiptChecks \in Seq(Rows)
  <2>1. /\ Schema({"missing"}) \in Rows /\ Schema({"appliedRevision"}) \in Rows
        /\ Schema({"alarmCount"}) \in Rows /\ Semantic({"count"}) \in Rows
        /\ Schema({"nextAlarmUtc"}) \in Rows
    BY RowsOfSchema DEF AllDefects
  <2> QED
    BY <2>1 DEF ReceiptChecks
<1>3. ErrorChecks \in Seq(Rows)
  <2>1. /\ Schema({"missing"}) \in Rows /\ Schema({"unknown"}) \in Rows
        /\ Schema({"code"}) \in Rows /\ Schema({"summary"}) \in Rows
        /\ Schema({"field"}) \in Rows /\ Schema({"retryable"}) \in Rows
        /\ Schema({"currentRevision"}) \in Rows
    BY RowsOfSchema DEF AllDefects
  <2> QED
    BY <2>1 DEF ErrorChecks
<1> QED
  BY <1>1, <1>2, <1>3, EmptySeq DEF BodyChecks

(* A sequence keeps its elements in front of another. *)
LEMMA FrontOfConcat ==
  ASSUME NEW S, NEW s \in Seq(S), NEW t \in Seq(S), NEW i \in 1 .. Len(s)
  PROVE  /\ s \o t \in Seq(S) /\ Len(s \o t) \in Nat
         /\ Len(s \o t) >= Len(s) /\ (s \o t)[i] = s[i]
<1>1. Len(s) \in Nat /\ Len(t) \in Nat
  BY LenProperties
<1> QED
  BY <1>1, ConcatProperties

(* A gate one of whose checks finds a defect refuses. *)
LEMMA FoundIsRefused ==
  ASSUME NEW checks \in Seq(Rows), NEW defects, NEW k \in 1 .. Len(checks),
         checks[k][1] \cap defects # {}
  PROVE  Answer(checks, defects) # "accepted"
<1> DEFINE found == {i \in DOMAIN checks : checks[i][1] \cap defects # {}}
<1>1. Len(checks) \in Nat /\ DOMAIN checks = 1 .. Len(checks)
  BY LenProperties
<1>2. k \in found
  BY <1>1
<1>3. found \in SUBSET (1 .. Len(checks))
  BY <1>1
<1>4. IsFiniteSet(1 .. Len(checks))
  BY <1>1, FS_Interval
<1> HIDE DEF found
<1>5. IsFiniteSet(found) /\ found \in SUBSET Int
  <2>1. IsFiniteSet(found)
    BY <1>3, <1>4, FS_Subset
  <2>2. 1 .. Len(checks) \subseteq Int
    BY <1>1
  <2> QED
    BY <1>3, <2>1, <2>2
<1>6. Min(found) \in 1 .. Len(checks)
  BY <1>2, <1>3, <1>5, MinIsMinimum
<1>7. checks[Min(found)] \in Rows
  BY <1>6, ElementOfSeq
<1>8. checks[Min(found)][2] # "accepted"
  BY <1>7 DEF Rows, Codes
<1>9. found # {}
  BY <1>2
<1>10. Answer(checks, defects) = checks[Min(found)][2]
  BY <1>9 DEF Answer, found
<1> QED
  BY <1>8, <1>10

(* An id found in the window is refused, whatever else the message has. *)
LEMMA ReplayedIsRefused ==
  ASSUME NEW message
  PROVE  FirmwareAnswer(message, TRUE) # "accepted"
<1> DEFINE envelope == EnvelopeChecks(message.kind)
           prefix   == envelope \o ParseChecks
           body     == BodyChecks(message.kind)
<1>1. /\ envelope \in Seq(Rows) /\ Len(envelope) = 7
      /\ envelope[4] = <<{"replayed"}, "duplicate_message_id">>
  BY EnvelopeRows
<1>2. body \in Seq(Rows)
  BY BodyRows
<1> HIDE DEF envelope, body
<1>3. /\ prefix \in Seq(Rows) /\ Len(prefix) \in Nat /\ Len(prefix) >= 7
      /\ prefix[4] = <<{"replayed"}, "duplicate_message_id">>
  <2>1. 4 \in 1 .. Len(envelope)
    BY <1>1
  <2> QED
    BY <1>1, <2>1, ParseRows, FrontOfConcat
<1> HIDE DEF prefix
<1>4. /\ prefix \o body \in Seq(Rows) /\ 4 \in 1 .. Len(prefix \o body)
      /\ (prefix \o body)[4] = <<{"replayed"}, "duplicate_message_id">>
  <2>1. 4 \in 1 .. Len(prefix)
    BY <1>3
  <2> QED
    BY <1>2, <1>3, <2>1, FrontOfConcat
<1>5. "replayed" \in Found(message, TRUE)
  BY DEF Found
<1>6. (prefix \o body)[4][1] \cap Found(message, TRUE) # {}
  <2>1. (prefix \o body)[4][1] = {"replayed"}
    BY <1>4
  <2> QED
    BY <1>5, <2>1
<1>7. Answer(prefix \o body, Found(message, TRUE)) # "accepted"
  BY <1>4, <1>6, FoundIsRefused
<1> QED
  BY <1>7 DEF FirmwareAnswer, prefix, envelope, body

-----------------------------------------------------------------------------
(* The queue is the end of what was accepted, as long as it may be.        *)
Recent ==
  /\ accepted \in Seq(MessageIds) /\ order \in Seq(MessageIds)
  /\ Len(order) = IF Len(accepted) < Capacity THEN Len(accepted) ELSE Capacity
  /\ \A i \in 1 .. Len(order) :
       order[i] = accepted[Len(accepted) - Len(order) + i]

(* The set is the queue, which holds no id twice. *)
Twins ==
  /\ set = {order[i] : i \in 1 .. Len(order)}
  /\ \A i, j \in 1 .. Len(order) : order[i] = order[j] => i = j

(* The inductive invariant of the firmware's window: its queue ends the    *)
(* accepted ids, and its set is the queue.                                 *)
GateIInv == Recent /\ Twins

(* It holds while the window is empty.                                     *)
LEMMA InitGateIInv == GateInit => GateIInv
  BY GateConstants DEF GateInit, GateIInv, Recent, Twins

(* A new id takes the last place of the queue, and the first one is lost   *)
(* if the queue is full.                                                   *)
LEMMA RememberKeeps ==
  ASSUME GateIInv, NEW id \in MessageIds, id \notin set, RememberId(id),
         accepted' = Append(accepted, id)
  PROVE  GateIInv'
<1>1. /\ Len(order) \in Nat /\ Len(accepted) \in Nat /\ Capacity \in Nat
      /\ Len(order) <= Capacity /\ Len(order) <= Len(accepted)
  BY GateConstants, LenProperties DEF GateIInv, Recent
<1>2. /\ accepted' \in Seq(MessageIds) /\ Len(accepted') = Len(accepted) + 1
      /\ accepted'[Len(accepted) + 1] = id
      /\ \A i \in 1 .. Len(accepted) : accepted'[i] = accepted[i]
  BY <1>1, AppendProperties DEF GateIInv, Recent
<1>3. CASE Capacity = 0
  <2>1. UNCHANGED <<order, set>> /\ Len(order) = 0
    BY <1>1, <1>3 DEF RememberId
  <2> QED
    BY <1>1, <1>2, <1>3, <2>1 DEF GateIInv, Recent, Twins
<1>4. CASE Capacity # 0
  <2> DEFINE queue == Append(order, id)
  <2>1. /\ queue \in Seq(MessageIds) /\ Len(queue) = Len(order) + 1
        /\ queue[Len(order) + 1] = id
        /\ \A i \in 1 .. Len(order) : queue[i] = order[i]
    BY <1>1, AppendProperties DEF GateIInv, Recent
  <2>2. \A i \in 1 .. Len(queue) :
          queue[i] = accepted'[Len(accepted') - Len(queue) + i]
    <3> TAKE i \in 1 .. Len(queue)
    <3>1. Len(accepted') - Len(queue) + i = Len(accepted) - Len(order) + i
      BY <1>1, <1>2, <2>1
    <3>2. CASE i = Len(order) + 1
      <4>1. Len(accepted) - Len(order) + i = Len(accepted) + 1
        BY <1>1, <3>2
      <4> QED
        BY <1>2, <2>1, <3>1, <3>2, <4>1
    <3>3. CASE i # Len(order) + 1
      <4>1. /\ i \in 1 .. Len(order)
            /\ Len(accepted) - Len(order) + i \in 1 .. Len(accepted)
        BY <1>1, <2>1, <3>3
      <4>2. order[i] = accepted[Len(accepted) - Len(order) + i]
        BY <4>1 DEF GateIInv, Recent
      <4> QED
        BY <1>2, <2>1, <3>1, <4>1, <4>2
    <3> QED
      BY <3>2, <3>3
  <2>3. \A i, j \in 1 .. Len(queue) : queue[i] = queue[j] => i = j
    BY <1>1, <2>1 DEF GateIInv, Twins
  <2>4. set \cup {id} = {queue[i] : i \in 1 .. Len(queue)}
    BY <1>1, <2>1 DEF GateIInv, Twins
  <2>5. /\ order' = SubSeq(queue, (IF Len(queue) > Capacity
                                     THEN Len(queue) - Capacity ELSE 0) + 1,
                           Len(queue))
        /\ set' = (set \cup {id}) \ Overflow(queue)
    BY <1>4 DEF RememberId, queue
  <2> HIDE DEF queue
  <2>6. CASE Len(order) < Capacity
    <3>1. order' = queue /\ set' = set \cup {id}
      <4>1. ~(Len(queue) > Capacity)
        BY <1>1, <2>1, <2>6
      <4>2. Overflow(queue) = {} /\ order' = SubSeq(queue, 1, Len(queue))
        BY <2>5, <4>1 DEF Overflow
      <4> QED
        BY <2>1, <2>5, <4>2, SubSeqFull
    <3>2. Len(accepted') <= Capacity
      BY <1>1, <1>2, <2>6 DEF GateIInv, Recent
    <3>3. Len(order) = Len(accepted)
      BY <1>1, <2>6 DEF GateIInv, Recent
    <3>4. Recent'
      BY <1>1, <1>2, <2>1, <2>2, <3>1, <3>2, <3>3, SMTT(30) DEF Recent
    <3>5. Twins'
      BY <2>3, <2>4, <3>1 DEF Twins
    <3> QED
      BY <3>4, <3>5 DEF GateIInv
  <2>7. CASE Len(order) = Capacity
    <3>1. order' = SubSeq(queue, 2, Len(queue)) /\ Overflow(queue) = {queue[1]}
      <4>1. Len(queue) > Capacity /\ Len(queue) - Capacity = 1
        BY <1>1, <2>1, <2>7
      <4> QED
        BY <2>5, <4>1 DEF Overflow
    <3>2. /\ order' \in Seq(MessageIds) /\ Len(order') = Capacity
          /\ \A i \in 1 .. Capacity : order'[i] = queue[i + 1]
      <4>1. \A i \in 2 .. Len(queue) : queue[i] \in MessageIds
        BY <1>1, <2>1, ElementOfSeq
      <4> QED
        BY <1>1, <1>4, <2>1, <2>7, <3>1, <4>1, SubSeqProperties
    <3>3. Recent'
      <4>1. Len(accepted') >= Capacity
        BY <1>1, <1>2, <2>7
      <4>2. \A i \in 1 .. Capacity :
              order'[i] = accepted'[Len(accepted') - Capacity + i]
        <5> TAKE i \in 1 .. Capacity
        <5>1. /\ i + 1 \in 1 .. Len(queue)
              /\ Len(accepted') - Len(queue) + (i + 1)
                   = Len(accepted') - Capacity + i
          BY <1>1, <1>2, <2>1, <2>7
        <5> QED
          BY <2>2, <3>2, <5>1
      <4>3. Len(order') = IF Len(accepted') < Capacity THEN Len(accepted')
                          ELSE Capacity
        BY <1>1, <1>2, <3>2, <4>1
      <4> QED
        BY <1>2, <3>2, <4>2, <4>3 DEF Recent
    <3>4. set' = {order'[i] : i \in 1 .. Len(order')}
      <4>1. set' = {queue[i] : i \in 1 .. Len(queue)} \ {queue[1]}
        BY <2>4, <2>5, <3>1
      <4>2. \A i \in 2 .. Len(queue) : queue[i] # queue[1]
        BY <1>1, <2>1, <2>3
      <4>3. set' = {queue[i] : i \in 2 .. Len(queue)}
        BY <1>1, <2>1, <4>1, <4>2
      <4>4. {queue[i] : i \in 2 .. Len(queue)} = {queue[i + 1] : i \in 1 .. Capacity}
        <5>1. \A i \in 2 .. Len(queue) :
                i - 1 \in 1 .. Capacity /\ queue[i] = queue[(i - 1) + 1]
          BY <1>1, <2>1, <2>7
        <5>2. \A i \in 1 .. Capacity : i + 1 \in 2 .. Len(queue)
          BY <1>1, <2>1, <2>7
        <5> QED
          BY <5>1, <5>2
      <4> QED
        BY <3>2, <4>3, <4>4
    <3>5. Twins'
      BY <1>1, <2>1, <2>3, <2>7, <3>2, <3>4 DEF Twins
    <3> QED
      BY <3>3, <3>5 DEF GateIInv
  <2> QED
    BY <1>1, <2>6, <2>7
<1> QED
  BY <1>3, <1>4

(* It survives a message, accepted or refused.                             *)
LEMMA NextGateIInv == GateIInv /\ [GateNext]_gateVars => GateIInv'
<1>1. ASSUME GateIInv, NEW id \in MessageIds, NEW message, Receive(id, message)
      PROVE  GateIInv'
  <2>1. CASE FirmwareAnswer(message, id \in set) = "accepted"
    <3>1. id \notin set
      BY <2>1, ReplayedIsRefused
    <3> QED
      BY <1>1, <2>1, <3>1, RememberKeeps DEF Receive
  <2>2. CASE FirmwareAnswer(message, id \in set) # "accepted"
    BY <1>1, <2>2, SMTT(30) DEF Receive, GateIInv, Recent, Twins
  <2> QED
    BY <2>1, <2>2
<1>2. GateIInv /\ UNCHANGED gateVars => GateIInv'
  BY DEF gateVars, GateIInv, Recent, Twins
<1> QED
  BY <1>1, <1>2 DEF GateNext

(* The window is what was accepted last. *)
LEMMA WindowIsRecent == GateIInv => DuplicateIsRecent
<1> SUFFICES ASSUME GateIInv, NEW id \in MessageIds
             PROVE  id \in set <=>
                    id \in {accepted[i] : i \in {j \in DOMAIN accepted :
                                              j > Len(accepted) - Capacity}}
  BY DEF DuplicateIsRecent
<1>1. /\ Len(order) \in Nat /\ Len(accepted) \in Nat /\ Capacity \in Nat
      /\ DOMAIN accepted = 1 .. Len(accepted)
      /\ Len(order) <= Len(accepted) /\ Len(order) <= Capacity
      /\ set = {order[i] : i \in 1 .. Len(order)}
      /\ \A i \in 1 .. Len(order) :
           order[i] = accepted[Len(accepted) - Len(order) + i]
  <2>1. /\ Len(order) \in Nat /\ Len(accepted) \in Nat /\ Capacity \in Nat
        /\ DOMAIN accepted = 1 .. Len(accepted)
    BY GateConstants, LenProperties DEF GateIInv, Recent
  <2>2. Len(order) = IF Len(accepted) < Capacity THEN Len(accepted) ELSE Capacity
    BY DEF GateIInv, Recent
  <2>3. Len(order) <= Len(accepted) /\ Len(order) <= Capacity
    BY <2>1, <2>2
  <2>4. set = {order[i] : i \in 1 .. Len(order)}
    BY DEF GateIInv, Twins
  <2>5. \A i \in 1 .. Len(order) :
          order[i] = accepted[Len(accepted) - Len(order) + i]
    BY DEF GateIInv, Recent
  <2> QED
    BY <2>1, <2>3, <2>4, <2>5
<1>2. ASSUME NEW i \in 1 .. Len(order)
      PROVE  /\ Len(accepted) - Len(order) + i \in 1 .. Len(accepted)
             /\ Len(accepted) - Len(order) + i > Len(accepted) - Capacity
  BY <1>1
<1>3. ASSUME NEW j \in 1 .. Len(accepted), j > Len(accepted) - Capacity
      PROVE  /\ j - Len(accepted) + Len(order) \in 1 .. Len(order)
             /\ order[j - Len(accepted) + Len(order)] = accepted[j]
  <2>1. j - Len(accepted) + Len(order) \in 1 .. Len(order)
    BY <1>1, <1>3 DEF GateIInv, Recent
  <2>2. Len(accepted) - Len(order) + (j - Len(accepted) + Len(order)) = j
    BY <1>1
  <2> QED
    BY <2>1, <2>2 DEF GateIInv, Recent
<1>4. ASSUME id \in set
      PROVE  \E j \in 1 .. Len(accepted) :
               j > Len(accepted) - Capacity /\ accepted[j] = id
  <2>1. PICK i \in 1 .. Len(order) : id = order[i]
    BY <1>1, <1>4
  <2> QED
    BY <1>1, <1>2, <2>1
<1>5. ASSUME NEW j \in 1 .. Len(accepted), j > Len(accepted) - Capacity,
             accepted[j] = id
      PROVE  id \in set
  BY <1>1, <1>3, <1>5
<1> QED
  BY <1>1, <1>4, <1>5

(* A message is refused as a duplicate exactly if its id is that of one of *)
(* the last Capacity accepted messages (ReplayWindow::remember).           *)
THEOREM WindowHoldsTheLast == GateSpec => []DuplicateIsRecent
  BY InitGateIInv, NextGateIInv, WindowIsRecent, PTL DEF GateSpec

-----------------------------------------------------------------------------
(* The answer of a gate is that of the first of its checks that finds a    *)
(* defect.                                                                 *)
Finds(row, defects) == row[1] \cap defects # {}

(* Row k is the first of the checks that finds one of the defects.         *)
First(checks, defects, k) ==
  /\ k \in 1 .. Len(checks) /\ Finds(checks[k], defects)
  /\ \A j \in 1 .. Len(checks) : j < k => ~Finds(checks[j], defects)

(* No row finds any.                                                       *)
Clear(checks, defects) ==
  \A k \in 1 .. Len(checks) : ~Finds(checks[k], defects)

(* A message is answered with the code of the first row that finds a       *)
(* defect,                                                                 *)
LEMMA FirstAnswers ==
  ASSUME NEW checks \in Seq(Rows), NEW defects, NEW k,
         First(checks, defects, k)
  PROVE  Answer(checks, defects) = checks[k][2]
<1> DEFINE found == {i \in DOMAIN checks : checks[i][1] \cap defects # {}}
<1>1. Len(checks) \in Nat /\ DOMAIN checks = 1 .. Len(checks)
  BY LenProperties
<1>2. k \in found /\ \A i \in found : k <= i
  BY <1>1 DEF First, Finds
<1>3. found \in SUBSET Int /\ IsFiniteSet(found)
  <2>1. found \subseteq 1 .. Len(checks) /\ 1 .. Len(checks) \subseteq Int
    BY <1>1
  <2>2. IsFiniteSet(1 .. Len(checks))
    BY <1>1, FS_Interval
  <2> HIDE DEF found
  <2> QED
    BY <2>1, <2>2, FS_Subset
<1>4. Answer(checks, defects) = checks[Min(found)][2]
  BY <1>2 DEF Answer
<1> HIDE DEF found
<1>5. Min(found) = k
  <2>1. Min(found) \in found /\ \A i \in found : Min(found) <= i
    BY <1>2, <1>3, MinIsMinimum
  <2>2. Min(found) <= k /\ k <= Min(found) /\ Min(found) \in Int /\ k \in Int
    BY <1>2, <1>3, <2>1
  <2> QED
    BY <2>2
<1> QED
  BY <1>4, <1>5

(* and accepted when none does;                                            *)
LEMMA ClearAccepts ==
  ASSUME NEW checks \in Seq(Rows), NEW defects, Clear(checks, defects)
  PROVE  Answer(checks, defects) = "accepted"
<1>1. DOMAIN checks = 1 .. Len(checks)
  BY LenProperties
<1> QED
  BY <1>1 DEF Answer, Clear, Finds

(* one of the two is always the case.                                      *)
LEMMA FirstOrClear ==
  ASSUME NEW checks \in Seq(Rows), NEW defects
  PROVE  Clear(checks, defects) \/ \E k : First(checks, defects, k)
<1> DEFINE found == {i \in 1 .. Len(checks) : Finds(checks[i], defects)}
<1> SUFFICES ASSUME found # {}
             PROVE  \E k : First(checks, defects, k)
  BY DEF Clear
<1>1. Len(checks) \in Nat
  BY LenProperties
<1>2. found \in SUBSET Int /\ IsFiniteSet(found)
  <2>1. found \subseteq 1 .. Len(checks) /\ 1 .. Len(checks) \subseteq Int
    BY <1>1
  <2>2. IsFiniteSet(1 .. Len(checks))
    BY <1>1, FS_Interval
  <2> HIDE DEF found
  <2> QED
    BY <2>1, <2>2, FS_Subset
<1>3. PICK k \in found : \A i \in found : k <= i
  BY <1>2, MinimumExists
<1>4. First(checks, defects, k)
  BY <1>1, <1>3 DEF First
<1> QED
  BY <1>4

(* Two orders of checks answer alike if a first find in one is a first     *)
(* find in the other, with the same code.                                  *)
LEMMA SameFirst ==
  ASSUME NEW s \in Seq(Rows), NEW t \in Seq(Rows), NEW defects,
         Clear(s, defects) => Clear(t, defects),
         \A k : First(s, defects, k) =>
                \E l : First(t, defects, l) /\ t[l][2] = s[k][2]
  PROVE  Answer(s, defects) = Answer(t, defects)
<1>1. CASE Clear(s, defects)
  BY <1>1, ClearAccepts
<1>2. CASE ~Clear(s, defects)
  <2>1. PICK k : First(s, defects, k)
    BY <1>2, FirstOrClear
  <2>2. PICK l : First(t, defects, l) /\ t[l][2] = s[k][2]
    BY <2>1
  <2> QED
    BY <2>1, <2>2, FirstAnswers
<1> QED
  BY <1>1, <1>2

(* The elements of two sequences, one after the other. *)
LEMMA PartsOfConcat ==
  ASSUME NEW S, NEW s \in Seq(S), NEW t \in Seq(S)
  PROVE  /\ Len(s) \in Nat /\ Len(t) \in Nat /\ s \o t \in Seq(S)
         /\ Len(s \o t) = Len(s) + Len(t)
         /\ \A i \in 1 .. Len(s) : (s \o t)[i] = s[i]
         /\ \A i \in 1 .. Len(t) : (s \o t)[Len(s) + i] = t[i]
<1>1. Len(s) \in Nat /\ Len(t) \in Nat
  BY LenProperties
<1>2. /\ s \o t \in Seq(S) /\ Len(s \o t) = Len(s) + Len(t)
      /\ \A i \in 1 .. Len(s) + Len(t) :
           (s \o t)[i] = IF i <= Len(s) THEN s[i] ELSE t[i - Len(s)]
  BY ConcatProperties
<1>3. \A i \in 1 .. Len(s) : (s \o t)[i] = s[i]
  BY <1>1, <1>2
<1>4. ASSUME NEW i \in 1 .. Len(t)
      PROVE  (s \o t)[Len(s) + i] = t[i]
  <2>1. /\ Len(s) + i \in 1 .. Len(s) + Len(t)
        /\ ~(Len(s) + i <= Len(s)) /\ (Len(s) + i) - Len(s) = i
    BY <1>1
  <2> QED
    BY <1>2, <2>1
<1> QED
  BY <1>1, <1>2, <1>3, <1>4

(* A gate of two parts answers as its second part where the first accepts. *)
LEMMA AnswerOfConcat ==
  ASSUME NEW s \in Seq(Rows), NEW t \in Seq(Rows), NEW defects
  PROVE  Answer(s \o t, defects) =
           IF Clear(s, defects) THEN Answer(t, defects) ELSE Answer(s, defects)
<1>1. /\ Len(s) \in Nat /\ Len(t) \in Nat /\ s \o t \in Seq(Rows)
      /\ Len(s \o t) = Len(s) + Len(t)
      /\ \A i \in 1 .. Len(s) : (s \o t)[i] = s[i]
      /\ \A i \in 1 .. Len(t) : (s \o t)[Len(s) + i] = t[i]
  BY PartsOfConcat
<1> DEFINE both == s \o t
<1>2. both = s \o t
  OBVIOUS
<1> HIDE DEF both
<1>3. CASE Clear(s, defects) /\ Clear(t, defects)
  <2>1. Clear(both, defects)
    <3>1. ASSUME NEW i \in 1 .. Len(both)
          PROVE  ~Finds(both[i], defects)
      <4>1. CASE i <= Len(s)
        BY <1>1, <1>2, <1>3, <4>1 DEF Clear
      <4>2. CASE ~(i <= Len(s))
        <5>1. i - Len(s) \in 1 .. Len(t) /\ Len(s) + (i - Len(s)) = i
          BY <1>1, <1>2, <4>2
        <5>2. both[i] = t[i - Len(s)]
          BY <1>1, <1>2, <5>1
        <5> QED
          BY <1>3, <5>1, <5>2 DEF Clear
      <4> QED
        BY <4>1, <4>2
    <3> QED
      BY <3>1 DEF Clear
  <2> QED
    BY <1>1, <1>2, <1>3, <2>1, ClearAccepts
<1>4. CASE Clear(s, defects) /\ ~Clear(t, defects)
  <2>1. PICK k : First(t, defects, k)
    BY <1>4, FirstOrClear
  <2>2. k \in 1 .. Len(t) /\ k \in Int /\ both[Len(s) + k] = t[k]
    BY <1>1, <1>2, <2>1 DEF First
  <2>3. First(both, defects, Len(s) + k)
    <3>1. Len(s) + k \in 1 .. Len(both) /\ Finds(both[Len(s) + k], defects)
      BY <1>1, <1>2, <2>1, <2>2 DEF First
    <3>2. ASSUME NEW i \in 1 .. Len(both), i < Len(s) + k
          PROVE  ~Finds(both[i], defects)
      <4>1. CASE i <= Len(s)
        BY <1>1, <1>2, <1>4, <4>1 DEF Clear
      <4>2. CASE ~(i <= Len(s))
        <5>1. /\ i - Len(s) \in 1 .. Len(t) /\ Len(s) + (i - Len(s)) = i
              /\ i - Len(s) < k
          BY <1>1, <1>2, <2>2, <3>2, <4>2
        <5>2. both[i] = t[i - Len(s)]
          BY <1>1, <1>2, <5>1
        <5> QED
          BY <2>1, <5>1, <5>2 DEF First
      <4> QED
        BY <4>1, <4>2
    <3> QED
      BY <3>1, <3>2 DEF First
  <2>4. Answer(t, defects) = t[k][2]
    BY <2>1, FirstAnswers
  <2>5. Answer(both, defects) = both[Len(s) + k][2]
    <3>1. both \in Seq(Rows)
      BY <1>1, <1>2
    <3> QED
      BY <2>3, <3>1, FirstAnswers
  <2> QED
    BY <1>2, <1>4, <2>2, <2>4, <2>5
<1>5. CASE ~Clear(s, defects)
  <2>1. PICK k : First(s, defects, k)
    BY <1>5, FirstOrClear
  <2>2. k \in 1 .. Len(s) /\ k \in Int
    BY <1>1, <2>1 DEF First
  <2>3. First(both, defects, k) /\ both[k] = s[k]
    BY <1>1, <1>2, <2>1, <2>2 DEF First
  <2>4. Answer(s, defects) = s[k][2]
    BY <2>1, FirstAnswers
  <2>5. Answer(both, defects) = both[k][2]
    <3>1. both \in Seq(Rows)
      BY <1>1, <1>2
    <3> QED
      BY <2>3, <3>1, FirstAnswers
  <2> QED
    BY <1>2, <1>5, <2>3, <2>4, <2>5
<1> QED
  BY <1>3, <1>4, <1>5

-----------------------------------------------------------------------------
(* Defects that only the text of a message has, which the application does *)
(* not see.                                                                *)
TextDefects == {"input", "text", "limits"}

(* The first eight checks of the application, in one row of each.          *)
AppEnvelope(kind) ==
  << <<{"protocol"}, "invalid_protocol">>,
     <<{"type"}, "unknown_type">>,
     <<{"messageId"}, "invalid_message_id">>,
     <<{"replayed"}, "duplicate_message_id">>,
     <<{"sentAt"}, "invalid_sent_at">>,
     <<IF kind = "schedule" THEN {"expectedRevision"} ELSE {},
       "expected_revision_required">>,
     <<{"size"}, "envelope_too_large">>,
     Schema({"shape"}) >>
(* The companion's body checks by message type, named so that they can be  *)
(* compared with the firmware's one by one.                                *)
AppReceiptChecks ==
  << Schema({"missing", "appliedRevision", "alarmCount"}),
     Semantic({"count"}), Schema({"nextAlarmUtc"}) >>
AppErrorChecks ==
  << Schema({"missing", "unknown", "code", "summary", "field",
             "retryable", "currentRevision"}) >>
AppBody(kind) ==
  IF kind = "schedule" THEN ScheduleChecks
  ELSE IF kind = "receipt" THEN AppReceiptChecks
  ELSE IF kind = "error" THEN AppErrorChecks ELSE << >>

(* The companion's checks are its envelope rows followed by these.         *)
LEMMA AppParts ==
  ASSUME NEW kind
  PROVE  /\ AppChecks(kind) = AppEnvelope(kind) \o AppBody(kind)
         /\ AppEnvelope(kind) \in Seq(Rows)
         /\ AppReceiptChecks \in Seq(Rows) /\ AppErrorChecks \in Seq(Rows)
         /\ AppBody(kind) \in Seq(Rows)
<1>1. AppChecks(kind) = AppEnvelope(kind) \o AppBody(kind)
  BY DEF AppChecks, AppEnvelope, AppBody, ScheduleChecks, AppReceiptChecks,
         AppErrorChecks
<1>2. AppEnvelope(kind) \in Seq(Rows)
  <2>1. /\ <<{"protocol"}, "invalid_protocol">> \in Rows
        /\ <<{"type"}, "unknown_type">> \in Rows
        /\ <<{"messageId"}, "invalid_message_id">> \in Rows
        /\ <<{"replayed"}, "duplicate_message_id">> \in Rows
        /\ <<{"sentAt"}, "invalid_sent_at">> \in Rows
        /\ <<IF kind = "schedule" THEN {"expectedRevision"} ELSE {},
             "expected_revision_required">> \in Rows
        /\ <<{"size"}, "envelope_too_large">> \in Rows
    BY DEF Rows, Codes, AllDefects
  <2>2. Schema({"shape"}) \in Rows
    BY RowsOfSchema DEF AllDefects
  <2> HIDE DEF Rows
  <2> QED
    BY <2>1, <2>2 DEF AppEnvelope
<1>3. AppReceiptChecks \in Seq(Rows)
  <2>1. /\ Schema({"missing", "appliedRevision", "alarmCount"}) \in Rows
        /\ Semantic({"count"}) \in Rows /\ Schema({"nextAlarmUtc"}) \in Rows
    BY RowsOfSchema DEF AllDefects
  <2> QED
    BY <2>1 DEF AppReceiptChecks
<1>4. AppErrorChecks \in Seq(Rows)
  <2>1. Schema({"missing", "unknown", "code", "summary", "field",
                "retryable", "currentRevision"}) \in Rows
    BY RowsOfSchema DEF AllDefects
  <2> QED
    BY <2>1 DEF AppErrorChecks
<1>5. ScheduleChecks \in Seq(Rows)
  BY BodyRows DEF BodyChecks
<1> QED
  BY <1>1, <1>2, <1>3, <1>4, <1>5, EmptySeq DEF AppBody

(* The parser's refusals apart, the envelopes and the shape are the same.  *)
LEMMA EnvelopesAgree ==
  ASSUME NEW kind, NEW defects, defects \cap TextDefects = {}
  PROVE  /\ Answer(EnvelopeChecks(kind) \o ParseChecks, defects)
              = Answer(AppEnvelope(kind), defects)
         /\ Clear(EnvelopeChecks(kind) \o ParseChecks, defects)
              <=> Clear(AppEnvelope(kind), defects)
<1> DEFINE s == EnvelopeChecks(kind) \o ParseChecks
           t == AppEnvelope(kind)
<1>1. s \in Seq(Rows) /\ t \in Seq(Rows)
  BY EnvelopeRows, ParseRows, AppParts, ConcatProperties
<1>2. Len(s) = 10 /\ Len(t) = 8
  <2>1. Len(EnvelopeChecks(kind)) = 7 /\ Len(ParseChecks) = 3
    BY EnvelopeRows DEF ParseChecks
  <2>2. Len(s) = Len(EnvelopeChecks(kind)) + Len(ParseChecks)
    BY EnvelopeRows, ParseRows, PartsOfConcat
  <2>3. Len(t) = 8
    BY DEF AppEnvelope
  <2> QED
    BY <2>1, <2>2, <2>3
<1>3. /\ s[1] = t[1] /\ s[2] = t[2] /\ s[3] = t[3] /\ s[4] = t[4]
      /\ s[5] = t[5] /\ s[6] = t[6] /\ s[7] = t[7] /\ s[10] = t[8]
      /\ s[8] = <<{"input"}, "envelope_too_large">>
      /\ s[9] = Schema({"text", "limits"})
  <2>1. /\ \A i \in 1 .. 7 : s[i] = EnvelopeChecks(kind)[i]
        /\ \A i \in 1 .. 3 : s[7 + i] = ParseChecks[i]
    <3>1. Len(EnvelopeChecks(kind)) = 7 /\ Len(ParseChecks) = 3
      BY EnvelopeRows DEF ParseChecks
    <3>2. /\ \A i \in 1 .. Len(EnvelopeChecks(kind)) : s[i] = EnvelopeChecks(kind)[i]
          /\ \A i \in 1 .. Len(ParseChecks) :
               s[Len(EnvelopeChecks(kind)) + i] = ParseChecks[i]
      BY EnvelopeRows, ParseRows, PartsOfConcat
    <3> QED
      BY <3>1, <3>2
  <2>2. /\ EnvelopeChecks(kind)[1] = t[1] /\ EnvelopeChecks(kind)[2] = t[2]
        /\ EnvelopeChecks(kind)[3] = t[3] /\ EnvelopeChecks(kind)[4] = t[4]
        /\ EnvelopeChecks(kind)[5] = t[5] /\ EnvelopeChecks(kind)[6] = t[6]
        /\ EnvelopeChecks(kind)[7] = t[7]
    BY DEF EnvelopeChecks, AppEnvelope
  <2>3. /\ ParseChecks[1] = <<{"input"}, "envelope_too_large">>
        /\ ParseChecks[2] = Schema({"text", "limits"}) /\ ParseChecks[3] = t[8]
    BY DEF ParseChecks, AppEnvelope
  <2> HIDE DEF s, t
  <2>4. /\ s[1] = t[1] /\ s[2] = t[2] /\ s[3] = t[3] /\ s[4] = t[4]
        /\ s[5] = t[5] /\ s[6] = t[6] /\ s[7] = t[7]
    BY <2>1, <2>2
  <2>5. /\ s[7 + 1] = ParseChecks[1] /\ s[7 + 2] = ParseChecks[2]
        /\ s[7 + 3] = ParseChecks[3]
    BY <2>1
  <2> QED
    BY <2>3, <2>4, <2>5
<1>4. ~Finds(s[8], defects) /\ ~Finds(s[9], defects)
  <2>1. "input" \notin defects /\ "text" \notin defects /\ "limits" \notin defects
    BY DEF TextDefects
  <2>2. s[8][1] = {"input"} /\ s[9][1] = {"text", "limits"}
    BY <1>3 DEF Schema
  <2> HIDE DEF s
  <2> QED
    BY <2>1, <2>2 DEF Finds
<1> HIDE DEF s, t
<1>5. Clear(s, defects) <=> Clear(t, defects)
  <2>1. Clear(s, defects) <=> /\ ~Finds(s[1], defects) /\ ~Finds(s[2], defects)
                              /\ ~Finds(s[3], defects) /\ ~Finds(s[4], defects)
                              /\ ~Finds(s[5], defects) /\ ~Finds(s[6], defects)
                              /\ ~Finds(s[7], defects) /\ ~Finds(s[10], defects)
    BY <1>2, <1>4 DEF Clear
  <2>2. Clear(t, defects) <=> /\ ~Finds(t[1], defects) /\ ~Finds(t[2], defects)
                              /\ ~Finds(t[3], defects) /\ ~Finds(t[4], defects)
                              /\ ~Finds(t[5], defects) /\ ~Finds(t[6], defects)
                              /\ ~Finds(t[7], defects) /\ ~Finds(t[8], defects)
    BY <1>2 DEF Clear
  <2> QED
    BY <1>3, <2>1, <2>2
<1>6. ASSUME NEW k, First(s, defects, k)
      PROVE  \E l : First(t, defects, l) /\ t[l][2] = s[k][2]
  <2>1. k \in 1 .. 10 /\ k # 8 /\ k # 9 /\ Finds(s[k], defects)
    BY <1>2, <1>4, <1>6 DEF First
  <2>2. \A j \in 1 .. 10 : j < k => ~Finds(s[j], defects)
    BY <1>2, <1>6 DEF First
  <2> DEFINE l == IF k = 10 THEN 8 ELSE k
  <2>3. l \in 1 .. 8 /\ t[l] = s[k]
    BY <1>3, <2>1
  <2>4. \A j \in 1 .. 8 : j < l => ~Finds(t[j], defects)
    <3> TAKE j \in 1 .. 8
    <3> SUFFICES ASSUME j < l PROVE ~Finds(t[j], defects)
      OBVIOUS
    <3>1. j \in 1 .. 7 /\ j < k
      BY <2>1
    <3>2. s[j] = t[j]
      BY <1>3, <3>1
    <3> QED
      BY <2>2, <3>1, <3>2
  <2>5. First(t, defects, l)
    BY <1>2, <2>1, <2>3, <2>4 DEF First
  <2> QED
    BY <2>3, <2>5
<1>7. Answer(s, defects) = Answer(t, defects)
  BY <1>1, <1>5, <1>6, SameFirst
<1> QED
  BY <1>5, <1>7 DEF s, t

(* A sequence of checks with one code answers it if one of them finds.     *)
LEMMA BodiesAgree ==
  ASSUME NEW kind, NEW defects
  PROVE  Answer(BodyChecks(kind), defects) = Answer(AppBody(kind), defects)
<1>1. CASE kind = "receipt"
  <2> DEFINE s == ReceiptChecks
             t == AppReceiptChecks
             F(i) == Finds(s[i], defects)
             G(i) == Finds(t[i], defects)
  <2>1. s \in Seq(Rows) /\ t \in Seq(Rows) /\ Len(s) = 5 /\ Len(t) = 3
    <3>1. s \in Seq(Rows)
      BY BodyRows DEF BodyChecks
    <3>2. Len(s) = 5 /\ Len(t) = 3
      BY DEF ReceiptChecks, AppReceiptChecks
    <3> QED
      BY <3>1, <3>2, AppParts
  <2>2. /\ s[1] = Schema({"missing"}) /\ s[2] = Schema({"appliedRevision"})
        /\ s[3] = Schema({"alarmCount"}) /\ s[4] = Semantic({"count"})
        /\ s[5] = Schema({"nextAlarmUtc"})
    BY DEF ReceiptChecks
  <2>3. /\ t[1] = Schema({"missing", "appliedRevision", "alarmCount"})
        /\ t[2] = Semantic({"count"}) /\ t[3] = Schema({"nextAlarmUtc"})
    BY DEF AppReceiptChecks
  <2>4. (F(1) \/ F(2) \/ F(3)) <=> G(1)
    BY <2>2, <2>3 DEF Finds, Schema
  <2>5. /\ F(4) <=> G(2)
        /\ F(5) <=> G(3)
    BY <2>2, <2>3
  <2>6. /\ s[1][2] = t[1][2] /\ s[2][2] = t[1][2] /\ s[3][2] = t[1][2]
        /\ s[4][2] = t[2][2] /\ s[5][2] = t[3][2]
    BY <2>2, <2>3 DEF Schema, Semantic
  <2> HIDE DEF s, t
  <2>7. Clear(s, defects) => Clear(t, defects)
    BY <2>1, <2>4, <2>5 DEF Clear
  <2>8. ASSUME NEW k, First(s, defects, k)
        PROVE  \E l : First(t, defects, l) /\ t[l][2] = s[k][2]
    <3>1. k \in 1 .. 5 /\ F(k) /\ \A j \in 1 .. 5 : j < k => ~F(j)
      BY <2>1, <2>8 DEF First
    <3>2. CASE k \in 1 .. 3
      <4>1. G(1)
        BY <2>4, <3>1, <3>2
      <4>2. First(t, defects, 1) /\ t[1][2] = s[k][2]
        BY <2>1, <2>6, <3>2, <4>1 DEF First
      <4> QED
        BY <4>2
    <3>3. CASE k = 4
      <4>1. ~G(1) /\ G(2)
        BY <2>4, <2>5, <3>1, <3>3
      <4>2. First(t, defects, 2) /\ t[2][2] = s[k][2]
        BY <2>1, <2>6, <3>3, <4>1 DEF First
      <4> QED
        BY <4>2
    <3>4. CASE k = 5
      <4>1. ~G(1) /\ ~G(2) /\ G(3)
        BY <2>4, <2>5, <3>1, <3>4
      <4>2. First(t, defects, 3) /\ t[3][2] = s[k][2]
        BY <2>1, <2>6, <3>4, <4>1 DEF First
      <4> QED
        BY <4>2
    <3> QED
      BY <3>1, <3>2, <3>3, <3>4
  <2>9. Answer(s, defects) = Answer(t, defects)
    BY <2>1, <2>7, <2>8, SameFirst
  <2> QED
    BY <1>1, <2>9 DEF BodyChecks, AppBody, s, t
<1>2. CASE kind = "error"
  <2> DEFINE s == ErrorChecks
             t == AppErrorChecks
             F(i) == Finds(s[i], defects)
  <2>1. s \in Seq(Rows) /\ t \in Seq(Rows) /\ Len(s) = 7 /\ Len(t) = 1
    <3>1. s \in Seq(Rows)
      BY BodyRows DEF BodyChecks
    <3>2. Len(s) = 7 /\ Len(t) = 1
      BY DEF ErrorChecks, AppErrorChecks
    <3> QED
      BY <3>1, <3>2, AppParts
  <2>2. /\ s[1] = Schema({"missing"}) /\ s[2] = Schema({"unknown"})
        /\ s[3] = Schema({"code"}) /\ s[4] = Schema({"summary"})
        /\ s[5] = Schema({"field"}) /\ s[6] = Schema({"retryable"})
        /\ s[7] = Schema({"currentRevision"})
    BY DEF ErrorChecks
  <2>3. t[1] = Schema({"missing", "unknown", "code", "summary", "field",
                       "retryable", "currentRevision"})
    BY DEF AppErrorChecks
  <2>4. (F(1) \/ F(2) \/ F(3) \/ F(4) \/ F(5) \/ F(6) \/ F(7))
          <=> Finds(t[1], defects)
    BY <2>2, <2>3 DEF Finds, Schema
  <2>5. /\ s[1][2] = t[1][2] /\ s[2][2] = t[1][2] /\ s[3][2] = t[1][2]
        /\ s[4][2] = t[1][2] /\ s[5][2] = t[1][2] /\ s[6][2] = t[1][2]
        /\ s[7][2] = t[1][2]
    BY <2>2, <2>3 DEF Schema
  <2> HIDE DEF s, t
  <2>6. Clear(s, defects) => Clear(t, defects)
    BY <2>1, <2>4 DEF Clear
  <2>7. ASSUME NEW k, First(s, defects, k)
        PROVE  \E l : First(t, defects, l) /\ t[l][2] = s[k][2]
    <3>1. k \in 1 .. 7 /\ F(k)
      BY <2>1, <2>7 DEF First
    <3>2. Finds(t[1], defects)
      BY <2>4, <3>1
    <3>3. First(t, defects, 1) /\ t[1][2] = s[k][2]
      BY <2>1, <2>5, <3>1, <3>2 DEF First
    <3> QED
      BY <3>3
  <2>8. Answer(s, defects) = Answer(t, defects)
    BY <2>1, <2>6, <2>7, SameFirst
  <2> QED
    BY <1>2, <2>8 DEF BodyChecks, AppBody, s, t
<1>3. CASE kind # "receipt" /\ kind # "error"
  BY <1>3 DEF BodyChecks, AppBody
<1> QED
  BY <1>1, <1>2, <1>3

(* Whatever its defects are, a message gets the same answer from both      *)
(* gates if both have its id in memory or neither has, unless the parser   *)
(* refuses its text.                                                       *)
LEMMA GatesAgree ==
  ASSUME NEW message, NEW replayed \in BOOLEAN,
         message.defects \cap TextDefects = {}
  PROVE  FirmwareAnswer(message, replayed) = AppAnswer(message, replayed)
<1> DEFINE kind     == message.kind
           defects  == Found(message, replayed)
           envelope == EnvelopeChecks(kind) \o ParseChecks
<1>1. defects \cap TextDefects = {}
  BY DEF Found, TextDefects
<1>2. /\ envelope \in Seq(Rows) /\ BodyChecks(kind) \in Seq(Rows)
      /\ AppEnvelope(kind) \in Seq(Rows) /\ AppBody(kind) \in Seq(Rows)
  BY EnvelopeRows, ParseRows, BodyRows, AppParts, ConcatProperties
<1> HIDE DEF defects, kind
<1>3. /\ Answer(envelope, defects) = Answer(AppEnvelope(kind), defects)
      /\ Clear(envelope, defects) <=> Clear(AppEnvelope(kind), defects)
  BY <1>1, EnvelopesAgree
<1>4. Answer(BodyChecks(kind), defects) = Answer(AppBody(kind), defects)
  BY BodiesAgree
<1> HIDE DEF envelope
<1>5. Answer(envelope \o BodyChecks(kind), defects) =
      Answer(AppEnvelope(kind) \o AppBody(kind), defects)
  <2>1. Answer(envelope \o BodyChecks(kind), defects) =
          IF Clear(envelope, defects) THEN Answer(BodyChecks(kind), defects)
          ELSE Answer(envelope, defects)
    BY <1>2, AnswerOfConcat
  <2>2. Answer(AppEnvelope(kind) \o AppBody(kind), defects) =
          IF Clear(AppEnvelope(kind), defects) THEN Answer(AppBody(kind), defects)
          ELSE Answer(AppEnvelope(kind), defects)
    BY <1>2, AnswerOfConcat
  <2> QED
    BY <1>3, <1>4, <2>1, <2>2
<1> QED
  BY <1>5, AppParts DEF FirmwareAnswer, AppAnswer, defects, kind, envelope

(* A text that the parser refuses is accepted by no firmware. *)
LEMMA UnparsedIsRefused ==
  ASSUME NEW message, NEW replayed \in BOOLEAN,
         message.defects \cap TextDefects # {}
  PROVE  FirmwareAnswer(message, replayed) # "accepted"
<1> DEFINE kind   == message.kind
           prefix == EnvelopeChecks(kind) \o ParseChecks
           body   == BodyChecks(kind)
<1>1. /\ EnvelopeChecks(kind) \in Seq(Rows) /\ Len(EnvelopeChecks(kind)) = 7
      /\ ParseChecks \in Seq(Rows) /\ body \in Seq(Rows)
  BY EnvelopeRows, ParseRows, BodyRows
<1>2. Len(ParseChecks) = 3 /\ ParseChecks[1][1] = {"input"}
      /\ ParseChecks[2][1] = {"text", "limits"}
  BY DEF ParseChecks, Schema
<1> HIDE DEF body
<1>3. /\ prefix \in Seq(Rows) /\ Len(prefix) = 10
      /\ prefix[8] = ParseChecks[1] /\ prefix[9] = ParseChecks[2]
  <2>1. /\ prefix \in Seq(Rows)
        /\ Len(prefix) = Len(EnvelopeChecks(kind)) + Len(ParseChecks)
        /\ \A i \in 1 .. Len(ParseChecks) :
             prefix[Len(EnvelopeChecks(kind)) + i] = ParseChecks[i]
    <3>1. EnvelopeChecks(kind) \in Seq(Rows) /\ ParseChecks \in Seq(Rows)
      BY <1>1
    <3> HIDE DEF kind
    <3> QED
      BY <3>1, PartsOfConcat
  <2> HIDE DEF prefix
  <2>2. prefix[7 + 1] = ParseChecks[1] /\ prefix[7 + 2] = ParseChecks[2]
    BY <1>1, <1>2, <2>1
  <2> QED
    BY <1>1, <1>2, <2>1, <2>2
<1> HIDE DEF prefix
<1>4. /\ prefix \o body \in Seq(Rows)
      /\ 8 \in 1 .. Len(prefix \o body) /\ (prefix \o body)[8] = prefix[8]
      /\ 9 \in 1 .. Len(prefix \o body) /\ (prefix \o body)[9] = prefix[9]
  <2>1. /\ Len(body) \in Nat /\ prefix \o body \in Seq(Rows)
        /\ Len(prefix \o body) = Len(prefix) + Len(body)
        /\ \A i \in 1 .. Len(prefix) : (prefix \o body)[i] = prefix[i]
    <3>1. prefix \in Seq(Rows) /\ body \in Seq(Rows)
      BY <1>1, <1>3
    <3> QED
      BY <3>1, PartsOfConcat
  <2> QED
    BY <1>3, <2>1
<1>5. \/ "input" \in Found(message, replayed)
      \/ "text" \in Found(message, replayed)
      \/ "limits" \in Found(message, replayed)
  BY DEF Found, TextDefects
<1>6. \/ (prefix \o body)[8][1] \cap Found(message, replayed) # {}
      \/ (prefix \o body)[9][1] \cap Found(message, replayed) # {}
  <2>1. /\ (prefix \o body)[8][1] = {"input"}
        /\ (prefix \o body)[9][1] = {"text", "limits"}
    BY <1>2, <1>3, <1>4
  <2> QED
    BY <1>5, <2>1
<1>7. Answer(prefix \o body, Found(message, replayed)) # "accepted"
  BY <1>4, <1>6, FoundIsRefused
<1> QED
  BY <1>7 DEF FirmwareAnswer, prefix, body, kind

-----------------------------------------------------------------------------
(* What the firmware remembers the application does, too. *)
Remembered == set \subseteq seen

(* A message the firmware accepts the companion accepts as well, so the id *)
(* is in both memories.                                                    *)
LEMMA NextRemembered == Remembered /\ [GateNext]_gateVars => Remembered'
<1>1. ASSUME Remembered, NEW id \in MessageIds, NEW message, Receive(id, message)
      PROVE  Remembered'
  <2>1. CASE FirmwareAnswer(message, id \in set) = "accepted"
    <3>1. id \notin set
      BY <2>1, ReplayedIsRefused
    <3>2. FirmwareAnswer(message, FALSE) = "accepted"
      <4>1. (id \in set) = FALSE
        BY <3>1
      <4> QED
        BY <2>1, <4>1
    <3>3. message.defects \cap TextDefects = {}
      BY <3>2, UnparsedIsRefused
    <3>4. AppAnswer(message, FALSE) = "accepted"
      BY <3>2, <3>3, GatesAgree
    <3>5. id \in seen'
      <4>1. CASE id \in seen
        BY <1>1, <4>1 DEF Receive
      <4>2. CASE id \notin seen
        <5>1. (id \in seen) = FALSE
          BY <4>2
        <5>2. AppAnswer(message, id \in seen) = "accepted"
          BY <3>4, <5>1
        <5> QED
          BY <1>1, <5>2 DEF Receive
      <4> QED
        BY <4>1, <4>2
    <3>6. seen \subseteq seen'
      BY <1>1 DEF Receive
    <3>7. RememberId(id)
      BY <1>1, <2>1 DEF Receive
    <3>8. set' \subseteq set \cup {id}
      <4>1. CASE Capacity = 0
        BY <3>7, <4>1 DEF RememberId
      <4>2. CASE Capacity # 0
        BY <3>1, <3>7, <4>2 DEF RememberId
      <4> QED
        BY <4>1, <4>2
    <3> QED
      BY <1>1, <3>5, <3>6, <3>8 DEF Remembered
  <2>2. CASE FirmwareAnswer(message, id \in set) # "accepted"
    BY <1>1, <2>2 DEF Receive, Remembered
  <2> QED
    BY <2>1, <2>2
<1>2. Remembered /\ UNCHANGED gateVars => Remembered'
  BY DEF gateVars, Remembered
<1> QED
  BY <1>1, <1>2 DEF GateNext

(* An id the two memories agree on is answered alike; one only the         *)
(* companion remembers is the exception SameAnswer names.                  *)
LEMMA RememberedAgrees == Remembered => SameAnswer
<1> SUFFICES ASSUME Remembered, NEW id \in MessageIds, id \notin seen \ set
             PROVE  Agree[(id \in set)][(id \in seen)]
  BY DEF SameAnswer
<1>1. \/ (id \in set) = TRUE /\ (id \in seen) = TRUE
      \/ (id \in set) = FALSE /\ (id \in seen) = FALSE
  BY DEF Remembered
<1>2. ASSUME NEW b \in BOOLEAN
      PROVE  Agree[b][b]
  <2>1. \A message \in Messages :
          \/ message.defects \cap {"input", "text", "limits"} # {}
          \/ FirmwareAnswer(message, b) = AppAnswer(message, b)
    BY GatesAgree DEF TextDefects
  <2> QED
    BY <2>1 DEF Agree
<1> QED
  BY <1>1, <1>2

(* Firmware and application give every message the same answer, whichever  *)
(* one or two defects it has and unless SameAnswer excepts it              *)
(* (validate_protocol_message, validateContractMessage).                   *)
THEOREM GatesAnswerAlike == GateSpec => []SameAnswer
<1>1. GateInit => Remembered
  BY DEF GateInit, Remembered
<1> QED
  BY <1>1, NextRemembered, RememberedAgrees, PTL DEF GateSpec

-----------------------------------------------------------------------------
(***************************************************************************)
(* The calendar: build_pinned_timezone_rules, the window cut from a        *)
(* record, resolve_next_occurrence and materialize_next_schedule_entries.  *)
(***************************************************************************)

(* The place of an index among others.                                     *)
Rank(indices, i) == Cardinality({j \in indices : j <= i})

(* In a finite set of integers ranks run from one to its size and grow     *)
(* with the numbers;                                                       *)
LEMMA RankGrows ==
  ASSUME NEW S \in SUBSET Int, IsFiniteSet(S), NEW i \in S, NEW j \in S
  PROVE  /\ Rank(S, i) \in 1 .. Cardinality(S)
         /\ i < j => Rank(S, i) < Rank(S, j)
<1> DEFINE B(x) == {y \in S : y <= x}
<1>1. \A x \in S : /\ IsFiniteSet(B(x)) /\ Cardinality(B(x)) \in Nat
                   /\ Cardinality(B(x)) <= Cardinality(S) /\ x \in B(x)
                   /\ Cardinality(B(x)) # 0
  <2> TAKE x \in S
  <2>1. B(x) \in SUBSET S /\ x \in B(x)
    OBVIOUS
  <2> HIDE DEF B
  <2>2. IsFiniteSet(B(x)) /\ Cardinality(B(x)) <= Cardinality(S)
    BY <2>1, FS_Subset
  <2>3. Cardinality(B(x)) \in Nat /\ Cardinality(B(x)) # 0
    BY <2>1, <2>2, FS_CardinalityType, FS_EmptySet
  <2> QED
    BY <2>1, <2>2, <2>3
<1>2. Cardinality(S) \in Nat
  BY FS_CardinalityType
<1>3. ASSUME i < j PROVE Cardinality(B(i)) < Cardinality(B(j))
  <2>1. B(i) \in SUBSET B(j) /\ j \notin B(i) /\ j \in B(j)
    <3>1. i \in Int /\ j \in Int /\ \A y \in S : y \in Int
      OBVIOUS
    <3>2. \A y \in S : y <= i => y <= j
      BY <1>3, <3>1
    <3>3. ~(j <= i) /\ j <= j
      BY <1>3, <3>1
    <3> QED
      BY <3>2, <3>3
  <2> HIDE DEF B
  <2>2. IsFiniteSet(B(j))
    BY <1>1
  <2>3. /\ Cardinality(B(i)) <= Cardinality(B(j))
        /\ Cardinality(B(j)) = Cardinality(B(i)) => B(j) = B(i)
    BY <2>1, <2>2, FS_Subset
  <2>4. Cardinality(B(i)) \in Nat /\ Cardinality(B(j)) \in Nat
    BY <1>1
  <2> QED
    BY <2>1, <2>3, <2>4
<1> HIDE DEF B
<1>4. Cardinality(B(i)) \in 1 .. Cardinality(S)
  BY <1>1, <1>2
<1> QED
  BY <1>3, <1>4 DEF Rank, B

(* Every place up to the number of the indices is taken. *)
LEMMA RankIsOnto ==
  ASSUME NEW S \in SUBSET Int, IsFiniteSet(S), NEW k \in 1 .. Cardinality(S)
  PROVE  \E i \in S : Rank(S, i) = k
<1> DEFINE n == Cardinality(S)
           f == [i \in S |-> Rank(S, i)]
<1>1. n \in Nat
  BY FS_CardinalityType
<1>2. IsFiniteSet(1 .. n) /\ Cardinality(1 .. n) = n
  BY <1>1, FS_Interval
<1>3. f \in Injection(S, 1 .. n)
  <2>1. \A i \in S : f[i] \in 1 .. n
    BY RankGrows
  <2>2. ASSUME NEW i \in S, NEW j \in S, f[i] = f[j]
        PROVE  i = j
    <3>1. ~(i < j) /\ ~(j < i)
      BY <2>1, <2>2, RankGrows
    <3> QED
      BY <3>1
  <2> QED
    BY <2>1, <2>2 DEF Injection, IsInjective
<1> HIDE DEF f, n
<1>4. f \in Surjection(S, 1 .. n)
  BY <1>2, <1>3, FS_Injection DEF n
<1>5. \E i \in S : f[i] = k
  BY <1>4 DEF Surjection, n
<1> QED
  BY <1>5 DEF f

(* the k-th number is the one of rank k,                                   *)
LEMMA NthHasRank ==
  ASSUME NEW S \in SUBSET Int, IsFiniteSet(S), NEW k \in 1 .. Cardinality(S)
  PROVE  Nth(S, k) \in S /\ Rank(S, Nth(S, k)) = k
<1>1. \E i \in S : Cardinality({j \in S : j <= i}) = k
  BY RankIsOnto DEF Rank
<1> QED
  BY <1>1 DEF Nth, Rank

(* An index is the one of its rank. *)
LEMMA NthOfRank ==
  ASSUME NEW S \in SUBSET Int, IsFiniteSet(S), NEW i \in S
  PROVE  Nth(S, Rank(S, i)) = i
<1> DEFINE k == Rank(S, i)
           j == Nth(S, k)
<1>1. k \in 1 .. Cardinality(S)
  BY RankGrows
<1>2. j \in S /\ Rank(S, j) = k
  BY <1>1, NthHasRank
<1>3. Cardinality(S) \in Nat
  BY FS_CardinalityType
<1>4. ~(i < j)
  <2>1. i < j => Rank(S, i) < Rank(S, j)
    BY <1>2, RankGrows
  <2> QED
    BY <1>1, <1>2, <1>3, <2>1
<1>5. ~(j < i)
  <2>1. j < i => Rank(S, j) < Rank(S, i)
    BY <1>2, RankGrows
  <2> QED
    BY <1>1, <1>2, <1>3, <2>1
<1>6. i \in Int /\ j \in Int
  BY <1>2
<1> HIDE DEF j
<1> QED
  BY <1>4, <1>5, <1>6 DEF j

(* and a later number is a larger one.                                     *)
LEMMA NthGrows ==
  ASSUME NEW S \in SUBSET Int, IsFiniteSet(S),
         NEW k \in 1 .. Cardinality(S), NEW l \in 1 .. Cardinality(S), k < l
  PROVE  Nth(S, k) < Nth(S, l)
<1> DEFINE i == Nth(S, k)
           j == Nth(S, l)
<1>1. i \in S /\ Rank(S, i) = k /\ j \in S /\ Rank(S, j) = l
  BY NthHasRank
<1>2. Cardinality(S) \in Nat /\ k \in Int /\ l \in Int
  BY FS_CardinalityType
<1> HIDE DEF i, j
<1>3. i # j
  BY <1>1, <1>2
<1>4. ~(j < i)
  <2>1. j < i => Rank(S, j) < Rank(S, i)
    BY <1>1, RankGrows
  <2> QED
    BY <1>1, <1>2, <2>1
<1>5. i \in Int /\ j \in Int
  BY <1>1
<1>6. i < j
  BY <1>3, <1>4, <1>5
<1> QED
  BY <1>6 DEF i, j

(* Of a segment of indices the k-th is the k-th after its beginning. *)
LEMMA NthOfSegment ==
  ASSUME NEW a \in Int, NEW b \in Int, a <= b, NEW k \in 1 .. b - a
  PROVE  Nth(a + 1 .. b, k) = a + k
<1> DEFINE S == a + 1 .. b
           i == a + k
<1>1. S \in SUBSET Int /\ IsFiniteSet(S) /\ i \in S
  BY FS_Interval
<1>2. {j \in S : j <= i} = a + 1 .. i
  BY <1>1
<1>3. Cardinality(a + 1 .. i) = k
  BY FS_Interval
<1>4. Rank(S, i) = k
  BY <1>2, <1>3 DEF Rank
<1> HIDE DEF S, i
<1>5. Nth(S, k) = i
  BY <1>1, <1>4, NthOfRank
<1> QED
  BY <1>5 DEF S, i

(* Max of FiniteSetsExt is the maximum of a set that has one. *)
LEMMA MaxOfSegment ==
  ASSUME NEW n \in Nat, n # 0
  PROVE  Max(1 .. n) = n
<1>1. n \in 1 .. n /\ \A y \in 1 .. n : y <= n
  OBVIOUS
<1>2. Max(1 .. n) \in 1 .. n /\ \A y \in 1 .. n : Max(1 .. n) >= y
  BY <1>1 DEF Max
<1> QED
  BY <1>1, <1>2

(* A finite set of integers that is not empty has a maximum, which Max of  *)
(* FiniteSetsExt chooses.                                                  *)
LEMMA MaxIsMaximum ==
  ASSUME NEW S \in SUBSET Int, IsFiniteSet(S), S # {}
  PROVE  Max(S) \in S /\ \A y \in S : y <= Max(S)
<1> DEFINE n == Cardinality(S)
           top == Nth(S, n)
<1>1. n \in Nat /\ n # 0
  BY FS_CardinalityType, FS_EmptySet
<1>2. n \in 1 .. n
  BY <1>1
<1>3. top \in S /\ Rank(S, top) = n
  BY <1>2, NthHasRank
<1> HIDE DEF top
<1>4. \A y \in S : y <= top
  <2> TAKE y \in S
  <2>1. top < y => Rank(S, top) < Rank(S, y)
    BY <1>3, RankGrows
  <2>2. Rank(S, y) \in 1 .. n
    BY RankGrows
  <2>3. ~(top < y)
    BY <1>1, <1>3, <2>1, <2>2
  <2>4. top \in Int /\ y \in Int
    BY <1>3
  <2> QED
    BY <2>3, <2>4
<1>5. \A y \in S : top >= y
  <2> TAKE y \in S
  <2>1. y <= top /\ y \in Int /\ top \in Int
    BY <1>3, <1>4
  <2> QED
    BY <2>1
<1>6. Max(S) \in S /\ \A y \in S : Max(S) >= y
  BY <1>3, <1>5 DEF Max
<1> DEFINE m == Max(S)
<1> HIDE DEF m
<1>7. m \in S /\ \A y \in S : m >= y
  BY <1>6 DEF m
<1>8. \A y \in S : y <= m
  <2> TAKE y \in S
  <2>1. m >= y /\ y \in Int /\ m \in Int
    BY <1>7
  <2> QED
    BY <2>1
<1> QED
  BY <1>7, <1>8 DEF m

-----------------------------------------------------------------------------
(* A chain whose transitions are in order and change the offset before.    *)
Transitions == [at : Int, before : Offsets, after : Offsets]
(* The offset in force just before the i-th transition.                    *)
Before(rules, i) ==
  IF i = 1 THEN rules.initial ELSE rules.transitions[i - 1].after
(* What every zone's rules satisfy, as parsed or as cut to a window:       *)
(* instants that increase, each transition starting from the offset the    *)
(* last one left, and none that changes nothing.                           *)
Linked(rules) ==
  LET chain == rules.transitions IN
  /\ rules.initial \in Offsets /\ chain \in Seq(Transitions)
  /\ \A i \in 1 .. Len(chain) :
       chain[i].before = Before(rules, i) /\ chain[i].after # Before(rules, i)
  /\ \A i, j \in 1 .. Len(chain) : i < j => chain[i].at < chain[j].at

(* The types of the parts of linked rules.                                 *)
LEMMA LinkedType ==
  ASSUME NEW rules, Linked(rules)
  PROVE  /\ Len(rules.transitions) \in Nat
         /\ DOMAIN rules.transitions = 1 .. Len(rules.transitions)
         /\ rules.initial \in Offsets
         /\ \A i \in 1 .. Len(rules.transitions) :
              /\ rules.transitions[i] \in Transitions
              /\ rules.transitions[i].at \in Int
              /\ rules.transitions[i].before \in Offsets
              /\ rules.transitions[i].after \in Offsets
<1>1. rules.transitions \in Seq(Transitions) /\ rules.initial \in Offsets
  BY DEF Linked
<1>2. /\ Len(rules.transitions) \in Nat
      /\ DOMAIN rules.transitions = 1 .. Len(rules.transitions)
  BY <1>1, LenProperties
<1>3. ASSUME NEW i \in 1 .. Len(rules.transitions)
      PROVE  /\ rules.transitions[i] \in Transitions
             /\ rules.transitions[i].at \in Int
             /\ rules.transitions[i].before \in Offsets
             /\ rules.transitions[i].after \in Offsets
  <2>1. rules.transitions[i] \in Transitions
    BY <1>1, ElementOfSeq
  <2> QED
    BY <2>1 DEF Transitions
<1> QED
  BY <1>1, <1>2, <1>3

(* What has passed at an instant is a beginning of the chain, and its last *)
(* transition tells the offset.                                            *)
Passed(rules, t, m) ==
  /\ m \in 0 .. Len(rules.transitions)
  /\ \A i \in 1 .. Len(rules.transitions) :
       rules.transitions[i].at <= t <=> i <= m

(* At any instant some number of transitions, perhaps none, has passed,    *)
LEMMA PassedExists ==
  ASSUME NEW rules, Linked(rules), NEW t \in Int
  PROVE  \E m : Passed(rules, t, m)
<1> DEFINE chain == rules.transitions
           n     == Len(chain)
           later == {i \in 1 .. n : t < chain[i].at}
<1>1. n \in Nat /\ \A i \in 1 .. n : chain[i].at \in Int
  BY LinkedType
<1>2. \A i, j \in 1 .. n : i < j => chain[i].at < chain[j].at
  BY DEF Linked
<1> HIDE DEF chain, n
<1>3. CASE later = {}
  <2>1. \A i \in 1 .. n : chain[i].at <= t
    BY <1>1, <1>3
  <2>2. Passed(rules, t, n)
    BY <1>1, <2>1 DEF Passed, chain, n
  <2> QED
    BY <2>2
<1>4. CASE later # {}
  <2>1. later \in SUBSET Int /\ IsFiniteSet(later)
    <3>1. later \in SUBSET (1 .. n) /\ 1 .. n \subseteq Int
      BY <1>1
    <3>2. IsFiniteSet(1 .. n)
      BY <1>1, FS_Interval
    <3> HIDE DEF later
    <3> QED
      BY <3>1, <3>2, FS_Subset
  <2>2. PICK k \in later : \A i \in later : k <= i
    BY <1>4, <2>1, MinimumExists
  <2>3. k \in 1 .. n /\ k - 1 \in 0 .. n /\ t < chain[k].at
    BY <1>1, <2>2
  <2>4. \A i \in 1 .. n : chain[i].at <= t <=> i <= k - 1
    <3> TAKE i \in 1 .. n
    <3>1. ASSUME i <= k - 1 PROVE chain[i].at <= t
      <4>1. i \notin later
        BY <1>1, <2>2, <2>3, <3>1
      <4> QED
        BY <1>1, <4>1
    <3>2. ASSUME ~(i <= k - 1) PROVE ~(chain[i].at <= t)
      <4>1. i = k \/ k < i
        BY <1>1, <2>3, <3>2
      <4>2. chain[k].at <= chain[i].at
        BY <1>1, <1>2, <2>3, <4>1
      <4> QED
        BY <1>1, <2>3, <4>2
    <3> QED
      BY <3>1, <3>2
  <2>5. Passed(rules, t, k - 1)
    BY <2>3, <2>4 DEF Passed, chain, n
  <2> QED
    BY <2>5
<1> QED
  BY <1>3, <1>4

(* and the offset then in force is the last passed one's.                  *)
LEMMA OffsetIsLast ==
  ASSUME NEW rules, Linked(rules), NEW t \in Int, NEW m, Passed(rules, t, m)
  PROVE  /\ OffsetAt(rules, t) =
              IF m = 0 THEN rules.initial ELSE rules.transitions[m].after
         /\ OffsetAt(rules, t) \in Offsets
<1>1. /\ Len(rules.transitions) \in Nat
      /\ DOMAIN rules.transitions = 1 .. Len(rules.transitions)
      /\ m \in 0 .. Len(rules.transitions)
  BY LinkedType DEF Passed
<1> DEFINE passed == {i \in DOMAIN rules.transitions : rules.transitions[i].at <= t}
<1>2. passed = 1 .. m
  BY <1>1 DEF Passed
<1>3. OffsetAt(rules, t) = IF passed = {} THEN rules.initial
                           ELSE rules.transitions[Max(passed)].after
  BY DEF OffsetAt
<1> HIDE DEF passed
<1>4. CASE m = 0
  <2>1. passed = {}
    BY <1>2, <1>4
  <2> QED
    BY <1>3, <1>4, <2>1, LinkedType
<1>5. CASE m # 0
  <2>1. m \in Nat /\ m \in 1 .. m /\ m \in 1 .. Len(rules.transitions)
    BY <1>1, <1>5
  <2>2. passed # {} /\ Max(passed) = m
    BY <1>2, <1>5, <2>1, MaxOfSegment
  <2> QED
    BY <1>3, <1>5, <2>1, <2>2, LinkedType
<1> QED
  BY <1>4, <1>5

-----------------------------------------------------------------------------
(* The transitions of w are those of rules that lie in a window.           *)
Within(w, rules, from, until) ==
  \A i \in 1 .. Len(w.transitions) :
    /\ from < w.transitions[i].at /\ w.transitions[i].at <= until
    /\ \E j \in 1 .. Len(rules.transitions) :
         w.transitions[i].at = rules.transitions[j].at

(* A window is a segment of the chain. *)
LEMMA WindowIsSegment ==
  ASSUME NEW rules, Linked(rules), NEW from \in Int, NEW until \in Int,
         NEW a, Passed(rules, from, a), NEW b, Passed(rules, until, b),
         from <= until
  PROVE  LET w == Windowed(rules, from, until) IN
         /\ a <= b /\ a \in 0 .. Len(rules.transitions) /\ b \in 0 .. Len(rules.transitions)
         /\ w.name = rules.name /\ w.version = rules.version
         /\ w.initial = OffsetAt(rules, from)
         /\ w.transitions = [k \in 1 .. b - a |-> rules.transitions[a + k]]
<1> DEFINE chain == rules.transitions
           n     == Len(chain)
           inside == {i \in DOMAIN chain : from < chain[i].at /\ chain[i].at <= until}
<1>1. /\ n \in Nat /\ DOMAIN chain = 1 .. n
      /\ \A i \in 1 .. n : chain[i].at \in Int
      /\ a \in 0 .. n /\ b \in 0 .. n
  BY LinkedType DEF Passed
<1>2. \A i \in 1 .. n : /\ chain[i].at <= from <=> i <= a
                        /\ chain[i].at <= until <=> i <= b
  BY DEF Passed
<1> HIDE DEF chain, n
<1>3. a <= b
  <2> SUFFICES ASSUME b < a PROVE FALSE
    BY <1>1
  <2>1. a \in 1 .. n /\ chain[a].at \in Int
    BY <1>1
  <2>2. chain[a].at <= from /\ ~(chain[a].at <= until)
    BY <1>1, <1>2, <2>1
  <2> QED
    BY <2>1, <2>2
<1>4. inside = a + 1 .. b
  <2>1. \A i \in 1 .. n : (from < chain[i].at /\ chain[i].at <= until)
                             <=> i \in a + 1 .. b
    BY <1>1, <1>2
  <2>2. a + 1 .. b \subseteq 1 .. n
    BY <1>1
  <2> QED
    BY <1>1, <2>1, <2>2
<1> HIDE DEF inside
<1>5. Cardinality(inside) = b - a
  <2>1. a + 1 \in Int /\ b \in Int
    BY <1>1
  <2>2. Cardinality(a + 1 .. b) = IF a + 1 > b THEN 0 ELSE b - (a + 1) + 1
    BY <2>1, FS_Interval
  <2> QED
    BY <1>1, <1>3, <1>4, <2>2
<1>6. ASSUME NEW k \in 1 .. b - a
      PROVE  chain[Nth(inside, k)] = chain[a + k]
  <2>1. a \in Int /\ b \in Int
    BY <1>1
  <2>2. Nth(a + 1 .. b, k) = a + k
    BY <1>3, <2>1, NthOfSegment
  <2> QED
    BY <1>4, <2>2
<1>7. Picked(chain, inside) = [k \in 1 .. b - a |-> chain[a + k]]
  BY <1>5, <1>6 DEF Picked
<1> QED
  BY <1>1, <1>3, <1>7 DEF Windowed, Rules, chain, n, inside

(* Cutting linked rules to a window leaves linked rules, and exactly the   *)
(* transitions inside it.                                                  *)
LEMMA WindowLinked ==
  ASSUME NEW rules, Linked(rules), NEW from \in Int, NEW until \in Int,
         from <= until
  PROVE  LET w == Windowed(rules, from, until) IN
         /\ Linked(w) /\ w.name = rules.name /\ w.version = rules.version
         /\ Within(w, rules, from, until)
<1>1. PICK a : Passed(rules, from, a)
  BY PassedExists
<1>2. PICK b : Passed(rules, until, b)
  BY PassedExists
<1> DEFINE w == Windowed(rules, from, until)
           c == rules.transitions
           n == Len(c)
           d == w.transitions
<1>3. /\ a <= b /\ a \in 0 .. n /\ b \in 0 .. n
      /\ w.name = rules.name /\ w.version = rules.version
      /\ w.initial = OffsetAt(rules, from)
      /\ d = [k \in 1 .. b - a |-> c[a + k]]
  BY <1>1, <1>2, WindowIsSegment
<1>4. /\ n \in Nat /\ \A i \in 1 .. n : c[i] \in Transitions /\ c[i].at \in Int
  BY LinkedType
<1>5. /\ \A i \in 1 .. n : c[i].before = Before(rules, i) /\ c[i].after # Before(rules, i)
      /\ \A i, j \in 1 .. n : i < j => c[i].at < c[j].at
  BY DEF Linked
<1>6. /\ w.initial = IF a = 0 THEN rules.initial ELSE c[a].after
      /\ w.initial \in Offsets
  BY <1>1, <1>3, OffsetIsLast
<1>7. \A i \in 1 .. n : /\ c[i].at <= from <=> i <= a
                        /\ c[i].at <= until <=> i <= b
  BY <1>1, <1>2 DEF Passed
<1>8. \A i \in 1 .. n : Before(rules, i) = IF i = 1 THEN rules.initial ELSE c[i - 1].after
  BY DEF Before
<1>9. \A i : Before(w, i) = IF i = 1 THEN w.initial ELSE d[i - 1].after
  BY DEF Before
<1> HIDE DEF w, c, n, d
<1>10. /\ b - a \in Nat /\ DOMAIN d = 1 .. b - a
       /\ \A k \in 1 .. b - a : a + k \in 1 .. n /\ d[k] = c[a + k]
  BY <1>3, <1>4
<1>11. d \in Seq(Transitions) /\ Len(d) = b - a
  <2>1. \A k \in 1 .. b - a : c[a + k] \in Transitions
    BY <1>4, <1>10
  <2> QED
    BY <1>3, <1>10, <2>1
<1>12. ASSUME NEW k \in 1 .. Len(d)
       PROVE  d[k].before = Before(w, k) /\ d[k].after # Before(w, k)
  <2>1. Before(w, k) = Before(rules, a + k)
    <3>1. CASE k = 1
      <4>1. Before(w, k) = w.initial
        BY <1>9, <3>1
      <4>2. a + k = a + 1 /\ (a + 1) - 1 = a /\ a + 1 \in 1 .. n
        BY <1>3, <1>10, <1>11, <3>1
      <4>3. Before(rules, a + 1) = IF a = 0 THEN rules.initial ELSE c[a].after
        BY <1>3, <1>8, <4>2
      <4> QED
        BY <1>6, <4>1, <4>2, <4>3
    <3>2. CASE k # 1
      <4>1. /\ k - 1 \in 1 .. b - a /\ a + (k - 1) = (a + k) - 1
            /\ a + k # 1 /\ a + k \in 1 .. n
        BY <1>3, <1>10, <1>11, <3>2
      <4>2. Before(w, k) = c[(a + k) - 1].after
        BY <1>9, <1>10, <3>2, <4>1
      <4> QED
        BY <1>8, <4>1, <4>2
    <3> QED
      BY <3>1, <3>2
  <2> QED
    BY <1>5, <1>10, <1>11, <2>1
<1>13. \A k, l \in 1 .. Len(d) : k < l => d[k].at < d[l].at
  <2> TAKE k, l \in 1 .. Len(d)
  <2> SUFFICES ASSUME k < l PROVE d[k].at < d[l].at
    OBVIOUS
  <2>1. a + k < a + l /\ a + k \in 1 .. n /\ a + l \in 1 .. n
    BY <1>3, <1>4, <1>10, <1>11
  <2> QED
    BY <1>5, <1>10, <1>11, <2>1
<1>14. Linked(w)
  BY <1>6, <1>11, <1>12, <1>13 DEF Linked, d
<1>15. ASSUME NEW k \in 1 .. Len(d)
       PROVE  /\ from < d[k].at /\ d[k].at <= until
              /\ \E j \in 1 .. n : d[k].at = c[j].at
  <2>1. a + k \in 1 .. n /\ ~(a + k <= a) /\ a + k <= b /\ d[k] = c[a + k]
    BY <1>3, <1>10, <1>11, SMTT(30)
  <2> QED
    BY <1>4, <1>7, <2>1
<1> QED
  BY <1>3, <1>14, <1>15 DEF Within, w, c, n, d

(* Inside a window its rules tell the offset of the whole chain. *)
LEMMA WindowTells ==
  ASSUME NEW rules, Linked(rules), NEW from \in Int, NEW until \in Int,
         NEW t \in from .. until
  PROVE  OffsetAt(Windowed(rules, from, until), t) = OffsetAt(rules, t)
<1>0. from <= until /\ t \in Int
  OBVIOUS
<1>1. PICK a : Passed(rules, from, a)
  BY PassedExists
<1>2. PICK b : Passed(rules, until, b)
  BY PassedExists
<1>3. PICK m : Passed(rules, t, m)
  BY <1>0, PassedExists
<1> DEFINE w == Windowed(rules, from, until)
           c == rules.transitions
           n == Len(c)
           d == w.transitions
<1>4. /\ a <= b /\ a \in 0 .. n /\ b \in 0 .. n
      /\ w.initial = OffsetAt(rules, from)
      /\ d = [k \in 1 .. b - a |-> c[a + k]]
  BY <1>0, <1>1, <1>2, WindowIsSegment
<1>5. n \in Nat /\ \A i \in 1 .. n : c[i] \in Transitions /\ c[i].at \in Int
  BY LinkedType
<1>6. w.initial = IF a = 0 THEN rules.initial ELSE c[a].after
  BY <1>1, <1>4, OffsetIsLast
<1>7. OffsetAt(rules, t) = IF m = 0 THEN rules.initial ELSE c[m].after
  BY <1>0, <1>3, OffsetIsLast
<1>8. /\ m \in 0 .. n
      /\ \A i \in 1 .. n : /\ c[i].at <= from <=> i <= a
                           /\ c[i].at <= until <=> i <= b
                           /\ c[i].at <= t <=> i <= m
  BY <1>1, <1>2, <1>3 DEF Passed
<1>9. Linked(w)
  BY <1>0, WindowLinked
<1>10. Len(d) \in Nat /\ DOMAIN d = 1 .. Len(d)
  BY <1>9, LinkedType
<1> HIDE DEF w, c, n, d
<1>11. a <= m /\ m <= b
  <2>1. ASSUME m < a PROVE FALSE
    <3>1. a \in 1 .. n /\ c[a].at \in Int /\ c[a].at <= from /\ ~(c[a].at <= t)
      BY <1>4, <1>5, <1>8, <2>1
    <3> QED
      BY <3>1
  <2>2. ASSUME b < m PROVE FALSE
    <3>1. m \in 1 .. n /\ c[m].at \in Int /\ c[m].at <= t /\ ~(c[m].at <= until)
      BY <1>4, <1>5, <1>8, <2>2
    <3> QED
      BY <3>1
  <2> QED
    BY <1>4, <1>8, <2>1, <2>2
<1>12. Len(d) = b - a /\ \A k \in 1 .. b - a : d[k] = c[a + k]
  <2>1. b - a \in Nat
    BY <1>4, <1>5
  <2>2. DOMAIN d = 1 .. b - a
    BY <1>4
  <2> QED
    BY <1>4, <1>10, <2>1, <2>2
<1>13. Passed(w, t, m - a)
  <2>1. m - a \in 0 .. Len(d)
    BY <1>4, <1>8, <1>11, <1>12
  <2>2. ASSUME NEW k \in 1 .. Len(d)
        PROVE  d[k].at <= t <=> k <= m - a
    <3>1. a + k \in 1 .. n /\ d[k] = c[a + k]
      BY <1>4, <1>5, <1>12
    <3>2. c[a + k].at <= t <=> a + k <= m
      BY <1>8, <3>1
    <3>3. a + k <= m <=> k <= m - a
      BY <1>4, <1>8
    <3> QED
      BY <3>1, <3>2, <3>3
  <2> QED
    BY <2>1, <2>2 DEF Passed, d
<1>14. OffsetAt(w, t) = IF m - a = 0 THEN w.initial ELSE d[m - a].after
  BY <1>0, <1>9, <1>13, OffsetIsLast DEF d
<1>15. OffsetAt(w, t) = OffsetAt(rules, t)
  <2>1. CASE m = a
    BY <1>4, <1>6, <1>7, <1>14, <2>1
  <2>2. CASE m # a
    <3>1. m - a \in 1 .. b - a /\ a + (m - a) = m /\ m # 0
      BY <1>4, <1>8, <1>11, <2>2
    <3>2. d[m - a] = c[m]
      BY <1>12, <3>1
    <3> QED
      BY <1>7, <1>14, <3>1, <3>2
  <2> QED
    BY <2>1, <2>2
<1> QED
  BY <1>15 DEF w

-----------------------------------------------------------------------------
(* What a record holds once it is read, and once it is parsed.             *)
Readable(record) ==
  /\ record.times \in Seq(Int) /\ record.types \in Seq(Nat)
  /\ record.offsets \in Seq(Int)
  /\ record.framing = "ok" => Len(record.types) = Len(record.times)

(* A record the adapter parses has increasing times and a known offset     *)
(* after each.                                                             *)
LEMMA ParsedRecord ==
  ASSUME NEW record, Readable(record), ParseStatus(record) = "ok"
  PROVE  /\ Len(record.times) \in Nat /\ DOMAIN record.times = 1 .. Len(record.times)
         /\ \A i \in 1 .. Len(record.times) : record.times[i] \in Int
         /\ \A i \in 2 .. Len(record.times) : record.times[i - 1] < record.times[i]
         /\ \A i \in 0 .. Len(record.times) : OffsetAfter(record, i) \in Offsets
<1> DEFINE times   == record.times
           types   == record.types
           offsets == record.offsets
           n       == Len(times)
<1>1. record.framing = "ok"
  BY DEF ParseStatus
<1>2. /\ n \in Nat /\ DOMAIN times = 1 .. n
      /\ Len(types) = n /\ DOMAIN types = 1 .. n
      /\ Len(offsets) \in Nat /\ DOMAIN offsets = 1 .. Len(offsets)
  BY <1>1, LenProperties DEF Readable
<1>3. \A i \in 1 .. n : times[i] \in Int
  BY ElementOfSeq DEF Readable
<1>4. /\ offsets # << >>
      /\ ~(\E i \in 2 .. n : times[i] <= times[i - 1])
      /\ ToSet(types) \subseteq DOMAIN offsets
      /\ ToSet(offsets) \subseteq Offsets
  BY <1>1 DEF ParseStatus
<1>5. Len(offsets) # 0
  BY <1>2, <1>4, EmptySeq DEF Readable
<1>6. \A k \in 1 .. Len(offsets) : offsets[k] \in Offsets
  BY <1>2, <1>4 DEF ToSet
<1>7. \A i \in 1 .. n : types[i] \in 1 .. Len(offsets)
  BY <1>2, <1>4 DEF ToSet
<1> HIDE DEF times, types, offsets, n
<1>8. ASSUME NEW i \in 2 .. n
      PROVE  times[i - 1] < times[i]
  <2>1. i \in 1 .. n /\ i - 1 \in 1 .. n
    BY <1>2
  <2>2. times[i] \in Int /\ times[i - 1] \in Int
    BY <1>3, <2>1
  <2> QED
    BY <1>4, <2>2
<1>9. ASSUME NEW i \in 0 .. n
      PROVE  OffsetAfter(record, i) \in Offsets
  <2>1. OffsetAfter(record, i) = offsets[IF i = 0 THEN 1 ELSE types[i]]
    BY DEF OffsetAfter, offsets, types
  <2>2. (IF i = 0 THEN 1 ELSE types[i]) \in 1 .. Len(offsets)
    BY <1>2, <1>5, <1>7
  <2> QED
    BY <1>6, <2>1, <2>2
<1> QED
  BY <1>2, <1>3, <1>8, <1>9 DEF times, n

(* Each transition is later than all before it. *)
LEMMA TimesGrow ==
  ASSUME NEW record, Readable(record), ParseStatus(record) = "ok",
         NEW i \in 1 .. Len(record.times), NEW j \in 1 .. Len(record.times),
         i < j
  PROVE  record.times[i] < record.times[j]
<1> DEFINE times == record.times
           n     == Len(times)
           late  == {k \in i + 1 .. n : ~(times[i] < times[k])}
<1>1. /\ n \in Nat /\ \A k \in 1 .. n : times[k] \in Int
      /\ \A k \in 2 .. n : times[k - 1] < times[k]
  BY ParsedRecord
<1> HIDE DEF times, n
<1>2. i \in 1 .. n /\ j \in i + 1 .. n
  BY <1>1 DEF n, times
<1>3. late = {}
  <2> SUFFICES ASSUME late # {} PROVE FALSE
    OBVIOUS
  <2>1. late \in SUBSET Int /\ IsFiniteSet(late)
    <3>1. late \in SUBSET (i + 1 .. n) /\ i + 1 .. n \subseteq Int
      BY <1>1, <1>2
    <3>2. IsFiniteSet(i + 1 .. n)
      BY <1>1, <1>2, FS_Interval
    <3> HIDE DEF late
    <3> QED
      BY <3>1, <3>2, FS_Subset
  <2>2. PICK k \in late : \A l \in late : k <= l
    BY <2>1, MinimumExists
  <2>3. /\ k \in 2 .. n /\ k \in 1 .. n /\ i + 1 <= k /\ k - 1 \in 1 .. n
        /\ times[k - 1] < times[k] /\ ~(times[i] < times[k])
    BY <1>1, <1>2, <2>2
  <2>4. times[k] \in Int /\ times[i] \in Int /\ times[k - 1] \in Int
    BY <1>1, <1>2, <2>3
  <2>5. CASE k = i + 1
    BY <2>3, <2>4, <2>5
  <2>6. CASE k # i + 1
    <3>1. k - 1 \in i + 1 .. n
      BY <1>1, <1>2, <2>3, <2>6
    <3>2. k - 1 \notin late
      BY <2>2, <2>3
    <3> QED
      BY <2>3, <2>4, <3>1, <3>2
  <2> QED
    BY <2>5, <2>6
<1> QED
  BY <1>2, <1>3 DEF times

(* Without a visible change the offset stays. *)
LEMMA OffsetStays ==
  ASSUME NEW record, Readable(record), ParseStatus(record) = "ok",
         NEW p \in 0 .. Len(record.times), NEW q \in 0 .. Len(record.times),
         p <= q, q # 0 => record.times[q] < Cutoff,
         \A i \in p + 1 .. q : ~Visible(record, i)
  PROVE  OffsetAfter(record, q) = OffsetAfter(record, p)
<1> DEFINE n == Len(record.times)
           o(i) == OffsetAfter(record, i)
           other == {i \in p .. q : o(i) # o(p)}
<1>1. /\ n \in Nat /\ \A k \in 1 .. n : record.times[k] \in Int
  BY ParsedRecord
<1>2. other = {}
  <2> SUFFICES ASSUME other # {} PROVE FALSE
    OBVIOUS
  <2>1. other \in SUBSET Int /\ IsFiniteSet(other)
    <3>1. other \in SUBSET (p .. q) /\ p .. q \subseteq Int
      BY <1>1
    <3>2. IsFiniteSet(p .. q)
      <4>1. p \in Int /\ q \in Int
        BY <1>1
      <4> HIDE DEF n, o, other
      <4> QED
        BY <4>1, FS_Interval
    <3> HIDE DEF other
    <3> QED
      BY <3>1, <3>2, FS_Subset
  <2>2. PICK k \in other : \A l \in other : k <= l
    BY <2>1, MinimumExists
  <2> HIDE DEF o
  <2>3. k \in p + 1 .. q /\ k - 1 \in p .. q /\ k \in 1 .. n
    BY <1>1, <2>2
  <2>4. o(k - 1) = o(p) /\ o(k) # o(p)
    <3>1. k - 1 \notin other
      BY <2>2, <2>3
    <3> QED
      BY <2>2, <2>3, <3>1
  <2>5. record.times[k] < Cutoff
    <3>1. q \in 1 .. n /\ record.times[q] \in Int /\ record.times[q] < Cutoff
      BY <1>1, <2>3
    <3>2. CASE k = q
      BY <3>1, <3>2
    <3>3. CASE k # q
      <4>1. k < q
        BY <2>3, <3>3
      <4>2. record.times[k] < record.times[q]
        BY <2>3, <3>1, <4>1, TimesGrow
      <4> QED
        BY <1>1, <2>3, <3>1, <4>2, TzifConstants
    <3> QED
      BY <3>2, <3>3
  <2>6. Visible(record, k)
    BY <2>4, <2>5 DEF Visible, o
  <2> QED
    BY <2>3, <2>6
<1> QED
  BY <1>1, <1>2

-----------------------------------------------------------------------------
(* The chain of a record, by the indices of its visible changes.           *)
LEMMA ChainShape ==
  ASSUME NEW record, Readable(record), ParseStatus(record) = "ok"
  PROVE  LET S == {i \in DOMAIN record.times : Visible(record, i)} IN
         /\ S \in SUBSET (1 .. Len(record.times)) /\ S \in SUBSET Int
         /\ IsFiniteSet(S) /\ Cardinality(S) \in Nat
         /\ Chain(record) =
              [k \in 1 .. Cardinality(S) |-> Change(record, Nth(S, k))]
<1> DEFINE S == {i \in DOMAIN record.times : Visible(record, i)}
           n == Len(record.times)
           seq == [i \in DOMAIN record.times |-> Change(record, i)]
<1>1. n \in Nat /\ DOMAIN record.times = 1 .. n
  BY ParsedRecord
<1>2. S \in SUBSET (1 .. n) /\ 1 .. n \subseteq Int /\ IsFiniteSet(1 .. n)
  BY <1>1, FS_Interval
<1>3. \A i \in S : seq[i] = Change(record, i)
  BY <1>1, <1>2
<1>4. Chain(record) = Picked(seq, S)
  BY DEF Chain
<1> HIDE DEF S, seq
<1>5. S \in SUBSET Int /\ IsFiniteSet(S) /\ Cardinality(S) \in Nat
  BY <1>2, FS_Subset, FS_CardinalityType
<1>6. \A k \in 1 .. Cardinality(S) : seq[Nth(S, k)] = Change(record, Nth(S, k))
  BY <1>3, <1>5, NthHasRank
<1>7. Picked(seq, S) = [k \in 1 .. Cardinality(S) |-> Change(record, Nth(S, k))]
  BY <1>6 DEF Picked
<1> QED
  BY <1>2, <1>4, <1>5, <1>7 DEF S

(* The chain the adapter builds from such a record is linked and ends      *)
(* before the cutoff.                                                      *)
LEMMA ChainLinked ==
  ASSUME NEW record, Readable(record), ParseStatus(record) = "ok",
         NEW name, NEW version
  PROVE  LET rules == ParseZone(name, version, record) IN
         /\ Linked(rules) /\ rules.name = name /\ rules.version = version
         /\ \A i \in 1 .. Len(rules.transitions) : rules.transitions[i].at < Cutoff
<1> DEFINE S == {i \in DOMAIN record.times : Visible(record, i)}
           n == Len(record.times)
           m == Cardinality(S)
           o(i) == OffsetAfter(record, i)
           rules == ParseZone(name, version, record)
           chain == rules.transitions
<1>1. /\ n \in Nat /\ DOMAIN record.times = 1 .. n
      /\ \A i \in 1 .. n : record.times[i] \in Int
      /\ \A i \in 0 .. n : o(i) \in Offsets
  BY ParsedRecord
<1>2. /\ S \in SUBSET (1 .. n) /\ S \in SUBSET Int /\ IsFiniteSet(S) /\ m \in Nat
      /\ Chain(record) = [k \in 1 .. m |-> Change(record, Nth(S, k))]
  BY ChainShape
<1>3. \A i \in 1 .. n : i \in S <=> Visible(record, i)
  BY <1>1
<1>4. /\ rules.name = name /\ rules.version = version
      /\ rules.initial = o(0) /\ chain = Chain(record)
  BY DEF ParseZone, Rules
<1> HIDE DEF S, n, m, chain, rules
<1>5. \A k \in 1 .. m : Nth(S, k) \in S /\ Nth(S, k) \in 1 .. n
  BY <1>2, NthHasRank DEF m
<1>6. ASSUME NEW i \in 1 .. n
      PROVE  i - 1 \in 0 .. n /\ i \in 0 .. n
  BY <1>1
<1>7. ASSUME NEW i \in S
      PROVE  /\ Change(record, i) \in Transitions
             /\ Change(record, i).at = record.times[i]
             /\ Change(record, i).before = o(i - 1)
             /\ Change(record, i).after = o(i)
             /\ record.times[i] < Cutoff /\ o(i) # o(i - 1)
  <2>1. i \in 1 .. n /\ Visible(record, i)
    BY <1>2, <1>3
  <2>2. record.times[i] \in Int /\ o(i - 1) \in Offsets /\ o(i) \in Offsets
    BY <1>1, <1>6, <2>1
  <2>3. record.times[i] < Cutoff /\ o(i) # o(i - 1)
    BY <2>1 DEF Visible
  <2>4. /\ Change(record, i).at = record.times[i]
        /\ Change(record, i).before = o(i - 1)
        /\ Change(record, i).after = o(i)
        /\ Change(record, i) = [at |-> record.times[i], before |-> o(i - 1),
                                after |-> o(i)]
    BY DEF Change, Transition
  <2>5. Change(record, i) \in Transitions
    BY <2>2, <2>4 DEF Transitions
  <2> QED
    BY <2>3, <2>4, <2>5
<1>8. /\ DOMAIN chain = 1 .. m /\ \A k \in 1 .. m : chain[k] = Change(record, Nth(S, k))
      /\ chain \in Seq(Transitions) /\ Len(chain) = m
  <2>1. chain = [k \in 1 .. m |-> Change(record, Nth(S, k))]
    BY <1>2, <1>4
  <2>2. \A k \in 1 .. m : Change(record, Nth(S, k)) \in Transitions
    BY <1>5, <1>7
  <2> QED
    BY <1>2, <2>1, <2>2
<1>9. ASSUME NEW k \in 1 .. m
      PROVE  /\ chain[k].at = record.times[Nth(S, k)]
             /\ chain[k].before = o(Nth(S, k) - 1)
             /\ chain[k].after = o(Nth(S, k))
             /\ chain[k].at < Cutoff /\ chain[k].after # chain[k].before
  <2>1. Nth(S, k) \in S /\ chain[k] = Change(record, Nth(S, k))
    BY <1>5, <1>8
  <2> QED
    BY <1>7, <2>1
<1>10. ASSUME NEW k \in 1 .. m, NEW l \in 1 .. m, k < l
       PROVE  Nth(S, k) < Nth(S, l) /\ chain[k].at < chain[l].at
  <2>1. Nth(S, k) < Nth(S, l)
    BY <1>2, <1>10, NthGrows DEF m
  <2>2. record.times[Nth(S, k)] < record.times[Nth(S, l)]
    BY <1>5, <2>1, TimesGrow DEF n
  <2> QED
    BY <1>9, <2>1, <2>2
<1>11. ASSUME NEW k \in 1 .. m
       PROVE  chain[k].before = Before(rules, k)
  <2> DEFINE q == Nth(S, k) - 1
             p == IF k = 1 THEN 0 ELSE Nth(S, k - 1)
  <2>1. Before(rules, k) = o(p)
    <3>1. CASE k = 1
      BY <1>4, <3>1 DEF Before
    <3>2. CASE k # 1
      <4>1. k - 1 \in 1 .. m
        BY <1>2, <3>2
      <4>2. Before(rules, k) = chain[k - 1].after
        BY <3>2 DEF Before, chain
      <4> QED
        BY <1>9, <3>2, <4>1, <4>2
    <3> QED
      BY <3>1, <3>2
  <2>2. /\ Nth(S, k) \in 1 .. n /\ q \in 0 .. n /\ p \in 0 .. n /\ p <= q
    <3>1. Nth(S, k) \in 1 .. n
      BY <1>5
    <3>2. CASE k = 1
      BY <1>1, <3>1, <3>2
    <3>3. CASE k # 1
      <4>1. k - 1 \in 1 .. m /\ k - 1 < k
        BY <1>2, <3>3
      <4>2. Nth(S, k - 1) \in 1 .. n /\ Nth(S, k - 1) < Nth(S, k)
        BY <1>5, <1>10, <4>1
      <4> QED
        BY <1>1, <3>1, <3>3, <4>2
    <3> QED
      BY <3>2, <3>3
  <2>3. \A i \in p + 1 .. q : ~Visible(record, i)
    <3> SUFFICES ASSUME NEW i \in p + 1 .. q, Visible(record, i) PROVE FALSE
      OBVIOUS
    <3>1. i \in 1 .. n /\ p < i /\ i < Nth(S, k)
      BY <1>1, <2>2
    <3>2. i \in S
      BY <1>3, <3>1
    <3> DEFINE l == Rank(S, i)
    <3>3. l \in 1 .. m /\ Nth(S, l) = i
      BY <1>2, <3>2, RankGrows, NthOfRank DEF m
    <3> HIDE DEF l
    <3>4. l < k
      <4>1. ~(l = k)
        BY <3>1, <3>3
      <4>2. ~(k < l)
        <5>1. k < l => Nth(S, k) < Nth(S, l)
          BY <1>10, <3>3
        <5> QED
          BY <2>2, <3>1, <3>3, <5>1
      <4> QED
        BY <1>2, <3>3, <4>1, <4>2
    <3>5. CASE k = 1
      BY <3>3, <3>4, <3>5
    <3>6. CASE k # 1
      <4>1. k - 1 \in 1 .. m /\ p = Nth(S, k - 1) /\ (l = k - 1 \/ l < k - 1)
        BY <1>2, <3>3, <3>4, <3>6
      <4>2. Nth(S, l) <= p
        <5>1. CASE l = k - 1
          BY <2>2, <4>1, <5>1
        <5>2. CASE l < k - 1
          <6>1. Nth(S, l) < Nth(S, k - 1)
            BY <1>10, <3>3, <4>1, <5>2
          <6> QED
            BY <1>5, <3>3, <4>1, <6>1
        <5> QED
          BY <4>1, <5>1, <5>2
      <4> HIDE DEF p
      <4> QED
        BY <2>2, <3>1, <3>3, <4>2
    <3> QED
      BY <3>5, <3>6
  <2>4. q # 0 => record.times[q] < Cutoff
    <3> SUFFICES ASSUME q # 0 PROVE record.times[q] < Cutoff
      OBVIOUS
    <3>1. q \in 1 .. n /\ q < Nth(S, k)
      BY <1>1, <2>2
    <3>2. record.times[q] < record.times[Nth(S, k)]
      BY <2>2, <3>1, TimesGrow DEF n
    <3>3. record.times[Nth(S, k)] < Cutoff
      BY <1>9
    <3>4. record.times[q] \in Int /\ record.times[Nth(S, k)] \in Int
      BY <1>1, <2>2, <3>1
    <3> QED
      BY <3>2, <3>3, <3>4, TzifConstants
  <2> HIDE DEF p, q
  <2>5. o(q) = o(p)
    BY <2>2, <2>3, <2>4, OffsetStays DEF n
  <2>6. chain[k].before = o(q)
    BY <1>9 DEF q
  <2> QED
    BY <2>1, <2>5, <2>6
<1>12. o(0) \in Offsets
  BY <1>1
<1>13. Linked(rules)
  <2>1. \A k \in 1 .. Len(chain) :
          chain[k].before = Before(rules, k) /\ chain[k].after # Before(rules, k)
    BY <1>8, <1>9, <1>11
  <2>2. \A k, l \in 1 .. Len(chain) : k < l => chain[k].at < chain[l].at
    BY <1>8, <1>10
  <2> QED
    BY <1>4, <1>8, <1>12, <2>1, <2>2 DEF Linked, chain
<1> QED
  BY <1>4, <1>8, <1>9, <1>13 DEF rules, chain

(* What a chain tells at an instant before the cutoff its record tells.    *)
LEMMA ChainTells ==
  ASSUME NEW record, Readable(record), ParseStatus(record) = "ok",
         NEW name, NEW version, NEW t \in Int, t < Cutoff
  PROVE  t + OffsetAt(ParseZone(name, version, record), t) = LocalAt(record, t)
<1> DEFINE S == {i \in DOMAIN record.times : Visible(record, i)}
           n == Len(record.times)
           m == Cardinality(S)
           o(i) == OffsetAfter(record, i)
           rules == ParseZone(name, version, record)
           chain == rules.transitions
           passed == {i \in DOMAIN record.times : record.times[i] <= t}
           c == Cardinality(passed)
<1>1. /\ n \in Nat /\ DOMAIN record.times = 1 .. n
      /\ \A i \in 1 .. n : record.times[i] \in Int
  BY ParsedRecord
<1>2. /\ S \in SUBSET (1 .. n) /\ S \in SUBSET Int /\ IsFiniteSet(S) /\ m \in Nat
      /\ Chain(record) = [k \in 1 .. m |-> Change(record, Nth(S, k))]
  BY ChainShape
<1>3. \A i \in 1 .. n : i \in S <=> Visible(record, i)
  BY <1>1
<1>4. rules.initial = o(0) /\ chain = Chain(record)
  BY DEF ParseZone, Rules
<1>5. Linked(rules)
  BY ChainLinked
<1>6. PICK b : Passed(rules, t, b)
  BY <1>5, PassedExists
<1>7. OffsetAt(rules, t) = IF b = 0 THEN o(0) ELSE chain[b].after
  BY <1>4, <1>5, <1>6, OffsetIsLast
<1>8. LocalAt(record, t) = t + o(c)
  BY DEF LocalAt
<1>9. \A i \in 1 .. n : i \in passed <=> record.times[i] <= t
  BY <1>1
<1>10. passed \in SUBSET (1 .. n)
  BY <1>1
<1> HIDE DEF S, n, m, chain, rules, passed, c
<1>11. c \in 0 .. n /\ passed = 1 .. c
  <2>1. IsFiniteSet(1 .. n) /\ 1 .. n \subseteq Int /\ Cardinality(1 .. n) = n
    BY <1>1, FS_Interval
  <2>2. passed \in SUBSET Int /\ IsFiniteSet(passed) /\ c \in Nat /\ c <= n
    BY <1>10, <2>1, FS_Subset, FS_CardinalityType DEF c
  <2>3. ASSUME NEW i \in passed, NEW j \in 1 .. i
        PROVE  j \in passed
    <3>1. i \in 1 .. n /\ j \in 1 .. n /\ record.times[i] <= t
      BY <1>1, <1>9, <1>10
    <3>2. CASE j = i
      BY <3>2
    <3>3. CASE j # i
      <4>1. j < i
        BY <1>1, <3>1, <3>3
      <4>2. record.times[j] < record.times[i]
        BY <3>1, <4>1, TimesGrow DEF n
      <4>3. record.times[j] <= t
        BY <1>1, <3>1, <4>2
      <4> QED
        BY <1>9, <3>1, <4>3
    <3> QED
      BY <3>2, <3>3
  <2>4. ASSUME NEW i \in passed PROVE i <= c
    <3>1. i \in 1 .. n /\ i \in Int
      BY <1>1, <1>10
    <3>2. 1 .. i \in SUBSET passed
      BY <2>3
    <3>3. Cardinality(1 .. i) = i
      BY <3>1, FS_Interval
    <3>4. Cardinality(1 .. i) <= Cardinality(passed)
      BY <2>2, <3>2, FS_Subset
    <3> QED
      BY <3>3, <3>4 DEF c
  <2>5. passed \in SUBSET (1 .. c)
    BY <1>1, <1>10, <2>2, <2>4
  <2>6. Cardinality(1 .. c) = c /\ IsFiniteSet(1 .. c)
    BY <2>2, FS_Interval
  <2>7. passed = 1 .. c
    BY <2>5, <2>6, FS_Subset DEF c
  <2> QED
    BY <1>1, <2>2, <2>7
<1>12. Len(chain) = m /\ b \in 0 .. m
       /\ \A k \in 1 .. m : chain[k].at <= t <=> k <= b
  <2>1. DOMAIN chain = 1 .. m /\ Len(chain) \in Nat /\ DOMAIN chain = 1 .. Len(chain)
    BY <1>2, <1>4, <1>5, LinkedType DEF chain
  <2>2. Len(chain) = m
    BY <1>2, <2>1
  <2> QED
    BY <1>6, <2>2 DEF Passed, chain
<1>13. ASSUME NEW k \in 1 .. m
       PROVE  /\ Nth(S, k) \in S /\ Nth(S, k) \in 1 .. n
              /\ chain[k].at = record.times[Nth(S, k)]
              /\ chain[k].after = o(Nth(S, k))
  <2>1. chain[k] = Change(record, Nth(S, k))
    BY <1>2, <1>4
  <2>2. Nth(S, k) \in S
    BY <1>2, NthHasRank DEF m
  <2>3. Nth(S, k) \in 1 .. n
    BY <1>2, <2>2
  <2>4. /\ chain[k].at = record.times[Nth(S, k)]
        /\ chain[k].after = o(Nth(S, k))
    BY <2>1 DEF Change, Transition
  <2> QED
    BY <2>2, <2>3, <2>4
<1> DEFINE p == IF b = 0 THEN 0 ELSE Nth(S, b)
<1>14. p \in 0 .. n /\ p <= c /\ OffsetAt(rules, t) = o(p)
  <2>1. CASE b = 0
    BY <1>1, <1>7, <1>11, <2>1
  <2>2. CASE b # 0
    <3>1. b \in 1 .. m /\ b <= b
      BY <1>2, <1>12, <2>2
    <3>2. Nth(S, b) \in 1 .. n /\ record.times[Nth(S, b)] <= t
      BY <1>12, <1>13, <3>1
    <3>3. Nth(S, b) \in 1 .. c
      BY <1>9, <1>11, <3>2
    <3> QED
      BY <1>1, <1>7, <1>11, <1>13, <2>2, <3>1, <3>2, <3>3
  <2> QED
    BY <2>1, <2>2
<1>15. \A i \in p + 1 .. c : ~Visible(record, i)
  <2> SUFFICES ASSUME NEW i \in p + 1 .. c, Visible(record, i) PROVE FALSE
    OBVIOUS
  <2>1. i \in 1 .. c /\ i \in 1 .. n /\ p < i
    BY <1>1, <1>11, <1>14
  <2>2. i \in S /\ record.times[i] <= t
    BY <1>3, <1>9, <1>11, <2>1
  <2> DEFINE l == Rank(S, i)
  <2>3. l \in 1 .. m /\ Nth(S, l) = i
    BY <1>2, <2>2, RankGrows, NthOfRank DEF m
  <2> HIDE DEF l
  <2>4. l <= b
    <3>1. chain[l].at <= t
      BY <1>13, <2>2, <2>3
    <3> QED
      BY <1>12, <2>3, <3>1
  <2>5. b \in 1 .. m /\ p = Nth(S, b)
    BY <1>2, <1>12, <2>3, <2>4
  <2>6. Nth(S, l) <= Nth(S, b)
    <3>1. CASE l = b
      BY <2>1, <2>3, <3>1
    <3>2. CASE l # b
      <4>1. l < b
        BY <1>2, <2>3, <2>4, <2>5, <3>2
      <4>2. Nth(S, l) < Nth(S, b)
        BY <1>2, <2>3, <2>5, <4>1, NthGrows DEF m
      <4> QED
        BY <1>13, <2>3, <2>5, <4>2
    <3> QED
      BY <3>1, <3>2
  <2> HIDE DEF p
  <2> QED
    BY <1>14, <2>1, <2>3, <2>5, <2>6
<1>16. c # 0 => record.times[c] < Cutoff
  <2> SUFFICES ASSUME c # 0 PROVE record.times[c] < Cutoff
    OBVIOUS
  <2>1. c \in 1 .. c /\ c \in 1 .. n
    BY <1>11
  <2>2. record.times[c] <= t /\ record.times[c] \in Int
    BY <1>1, <1>9, <1>11, <2>1
  <2> QED
    BY <2>2, TzifConstants
<1> HIDE DEF p
<1>17. o(c) = o(p)
  BY <1>11, <1>14, <1>15, <1>16, OffsetStays DEF n
<1> QED
  BY <1>8, <1>14, <1>17 DEF rules

-----------------------------------------------------------------------------
(* The rules of a window are a valid chain for the resolver. *)
LEMMA WindowValid ==
  ASSUME NEW record, Readable(record), ParseStatus(record) = "ok",
         NEW name, NEW version, NEW from \in Int, NEW until \in Int,
         -DayLength <= from, from <= until
  PROVE  LET w == Windowed(ParseZone(name, version, record), from, until) IN
         /\ Linked(w) /\ ValidChain(w) /\ w.name = name /\ w.version = version
<1> DEFINE rules == ParseZone(name, version, record)
           w == Windowed(rules, from, until)
           d == w.transitions
<1>1. /\ Linked(rules) /\ rules.name = name /\ rules.version = version
      /\ \A i \in 1 .. Len(rules.transitions) : rules.transitions[i].at < Cutoff
  BY ChainLinked
<1> HIDE DEF rules
<1>2. /\ Linked(w) /\ w.name = name /\ w.version = version
      /\ \A i \in 1 .. Len(d) :
           /\ from < d[i].at /\ d[i].at <= until
           /\ \E j \in 1 .. Len(rules.transitions) : d[i].at = rules.transitions[j].at
  <2> HIDE DEF w
  <2>1. /\ Linked(Windowed(rules, from, until))
        /\ Windowed(rules, from, until).name = rules.name
        /\ Windowed(rules, from, until).version = rules.version
        /\ Within(Windowed(rules, from, until), rules, from, until)
    BY <1>1, WindowLinked
  <2>2. w = Windowed(rules, from, until)
    BY DEF w
  <2> QED
    BY <1>1, <2>1, <2>2, Zenon DEF Within
<1> HIDE DEF w
<1>3. /\ Len(d) \in Nat /\ DOMAIN d = 1 .. Len(d) /\ w.initial \in Offsets
      /\ \A i \in 1 .. Len(d) :
           d[i].at \in Int /\ d[i].before \in Offsets /\ d[i].after \in Offsets
  BY <1>2, LinkedType
<1>4. ASSUME NEW i \in 1 .. Len(d)
      PROVE  /\ i > 1 => d[i - 1].at < d[i].at
             /\ d[i].before = IF i = 1 THEN w.initial ELSE d[i - 1].after
             /\ d[i].after # d[i].before
  <2>1. i > 1 => i - 1 \in 1 .. Len(d) /\ i - 1 < i
    BY <1>3
  <2>2. \A k, l \in 1 .. Len(d) : k < l => d[k].at < d[l].at
    BY <1>2 DEF Linked
  <2>3. d[i].before = Before(w, i) /\ d[i].after # Before(w, i)
    BY <1>2 DEF Linked
  <2>4. Before(w, i) = IF i = 1 THEN w.initial ELSE d[i - 1].after
    BY DEF Before
  <2> HIDE DEF d
  <2>5. i > 1 => d[i - 1].at < d[i].at
    BY <2>1, <2>2
  <2> QED
    BY <2>3, <2>4, <2>5
<1>5. ASSUME NEW i \in 1 .. Len(d)
      PROVE  /\ Representable(d[i].at + d[i].before)
             /\ Representable(d[i].at + d[i].after)
  <2>1. /\ d[i].at \in Int /\ d[i].before \in Offsets /\ d[i].after \in Offsets
        /\ from < d[i].at /\ d[i].at < Cutoff
    BY <1>1, <1>2, <1>3
  <2> DEFINE x == d[i].at
             y == d[i].before
             z == d[i].after
  <2> HIDE DEF x, y, z
  <2>2. /\ x \in Int /\ y \in Int /\ z \in Int /\ -DayLength < x /\ x < Cutoff
        /\ -DayLength <= y /\ y <= DayLength /\ -DayLength <= z /\ z <= DayLength
        /\ DayLength \in Int
    BY <2>1, ResolverConstants DEF x, y, z, Offsets
  <2>3. /\ x + y \in -MaxInstant - 1 .. MaxInstant
        /\ x + z \in -MaxInstant - 1 .. MaxInstant
    BY <2>2, ResolverConstants, TzifConstants, RecordsAreRead, SMTT(30)
  <2> QED
    BY <2>3 DEF Representable, x, y, z
<1>6. ValidChain(w)
  BY <1>3, <1>4, <1>5 DEF ValidChain
<1> QED
  BY <1>2, <1>6 DEF w, rules

(* Before the window ends and the pinned data does, its rules show the     *)
(* local time of the records.                                              *)
LEMMA WindowShowsTime ==
  ASSUME NEW record, Readable(record), ParseStatus(record) = "ok",
         NEW name, NEW version, NEW from \in Int, NEW until \in Int,
         NEW t \in from .. until, t < Cutoff
  PROVE  t + OffsetAt(Windowed(ParseZone(name, version, record), from, until), t)
           = LocalAt(record, t)
<1>1. t \in Int
  OBVIOUS
<1>2. Linked(ParseZone(name, version, record))
  BY ChainLinked
<1>3. OffsetAt(Windowed(ParseZone(name, version, record), from, until), t)
        = OffsetAt(ParseZone(name, version, record), t)
  BY <1>2, WindowTells
<1>4. t + OffsetAt(ParseZone(name, version, record), t) = LocalAt(record, t)
  BY <1>1, ChainTells
<1> QED
  BY <1>3, <1>4

-----------------------------------------------------------------------------
(* A resolved occurrence has a date and an instant. *)
LEMMA MappingIsInt ==
  ASSUME NEW rules, Linked(rules), NEW local \in Int,
         MapLocal(rules, local) # None
  PROVE  MapLocal(rules, local).utc \in Int
<1> DEFINE gaps == {i \in DOMAIN rules.transitions :
                      Skips(rules.transitions[i], local)}
           gap  == rules.transitions[Min(gaps)]
           n    == Len(rules.transitions)
<1>1. /\ n \in Nat /\ DOMAIN rules.transitions = 1 .. n /\ rules.initial \in Offsets
      /\ \A i \in 1 .. n : /\ rules.transitions[i].at \in Int
                           /\ rules.transitions[i].after \in Offsets
  BY LinkedType
<1>2. CASE gaps # {}
  <2>1. MapLocal(rules, local).utc = gap.at
    BY <1>2 DEF MapLocal
  <2>2. gaps \in SUBSET (1 .. n) /\ 1 .. n \subseteq Int /\ IsFiniteSet(1 .. n)
    BY <1>1, FS_Interval
  <2> HIDE DEF gaps
  <2>3. Min(gaps) \in gaps
    <3>1. gaps \in SUBSET Int /\ IsFiniteSet(gaps)
      BY <2>2, FS_Subset
    <3> QED
      BY <1>2, <3>1, MinIsMinimum
  <2> QED
    BY <1>1, <2>1, <2>2, <2>3
<1>3. CASE gaps = {}
  <2> DEFINE passes == Passes(rules, local)
  <2>1. passes # {} /\ MapLocal(rules, local).utc = Min(passes)
    BY <1>3 DEF MapLocal, FirstPass
  <2>2. passes \in SUBSET (local - DayLength .. local + DayLength)
    <3>1. \A t \in ToSet(rules.transitions) : t.after \in Offsets
      BY <1>1 DEF ToSet
    <3>2. \A o \in Offsets : local - o \in local - DayLength .. local + DayLength
      BY ResolverConstants DEF Offsets
    <3> QED
      BY <1>1, <3>1, <3>2 DEF Passes
  <2> HIDE DEF passes
  <2>3. /\ local - DayLength \in Int /\ local + DayLength \in Int
        /\ local - DayLength .. local + DayLength \subseteq Int
    BY ResolverConstants
  <2>4. passes \in SUBSET Int /\ IsFiniteSet(passes)
    <3>1. IsFiniteSet(local - DayLength .. local + DayLength)
      BY <2>3, FS_Interval
    <3> QED
      BY <2>2, <2>3, <3>1, FS_Subset
  <2>5. Min(passes) \in passes
    BY <2>1, <2>4, MinIsMinimum
  <2> QED
    BY <2>1, <2>4, <2>5
<1> QED
  BY <1>2, <1>3

(* A resolved occurrence carries an instant and a date.                    *)
LEMMA ResolvedIsInt ==
  ASSUME NEW schedule, NEW rules, Linked(rules), NEW after \in Int,
         Resolve(schedule, rules, after).status = "resolved"
  PROVE  /\ Resolve(schedule, rules, after).scheduled \in Int
         /\ Resolve(schedule, rules, after).date \in Int
<1> DEFINE anchor == after + OffsetAt(rules, after)
           first  == DayOf(anchor)
           W(day) == StartOf(day) + schedule.time
           M(day) == MapLocal(rules, W(day))
           out(day) == ~Representable(StartOf(day)) \/ ~Representable(W(day))
           stops == {day \in first .. first + 2 * WeekLength :
                       /\ Weekday(day) \in schedule.weekdays
                       /\ out(day) \/ RingsOn(day, M(day), after)}
           day == Min(stops)
<1>1. /\ ValidSchedule(schedule)
      /\ Resolve(schedule, rules, after) = SearchDays(schedule, rules, after, first)
  BY DEF Resolve, Unresolved
<1>2. /\ stops # {} /\ ~out(day)
      /\ SearchDays(schedule, rules, after, first).date = day
      /\ SearchDays(schedule, rules, after, first).scheduled = M(day).utc
  BY <1>1 DEF SearchDays, Unresolved
<1>3. anchor \in Int
  <2>1. PICK m : Passed(rules, after, m)
    BY PassedExists
  <2>2. OffsetAt(rules, after) \in Offsets
    BY <2>1, OffsetIsLast
  <2> QED
    BY <2>2, ResolverConstants DEF Offsets
<1> HIDE DEF anchor
<1>4. first \in Int /\ first + 2 * WeekLength \in Int
  BY <1>3, ResolverConstants DEF DayOf
<1> HIDE DEF first
<1>5. stops \in SUBSET Int /\ IsFiniteSet(stops)
  <2>1. IsFiniteSet(first .. first + 2 * WeekLength)
    BY <1>4, FS_Interval
  <2>2. stops \in SUBSET (first .. first + 2 * WeekLength)
    OBVIOUS
  <2>3. first .. first + 2 * WeekLength \subseteq Int
    BY <1>4
  <2> HIDE DEF stops
  <2> QED
    BY <2>1, <2>2, <2>3, FS_Subset
<1>6. day \in stops /\ day \in Int
  <2> HIDE DEF stops
  <2> QED
    BY <1>2, <1>5, MinIsMinimum
<1>7. RingsOn(day, M(day), after)
  <2> DEFINE x == day
  <2>1. x \in stops
    BY <1>6
  <2>2. ~out(x)
    BY <1>2
  <2> HIDE DEF x
  <2>3. RingsOn(x, M(x), after)
    BY <2>1, <2>2
  <2> QED
    BY <2>3 DEF x
<1> HIDE DEF stops, day
<1>8. M(day) # None /\ W(day) \in Int
  <2>1. M(day) # None
    BY <1>7 DEF RingsOn
  <2>2. schedule.time \in Int
    BY <1>1, ResolverConstants DEF ValidSchedule
  <2>3. W(day) \in Int
    BY <1>6, <2>2, ResolverConstants DEF StartOf
  <2> QED
    BY <2>1, <2>3
<1>9. M(day).utc \in Int
  BY <1>8, MappingIsInt
<1> QED
  BY <1>1, <1>2, <1>6, <1>9

-----------------------------------------------------------------------------
(* What a device is given is readable. *)
LEMMA GivenIsReadable ==
  ASSUME NEW given_ \in RecordSets, NEW z \in Zones
  PROVE  Readable(given_[z]) /\ DOMAIN given_ = Zones
  BY RecordsAreRead, CalendarConstants DEF Readable

(* The rules of a window: those of all zones that parse, or none. *)
WindowOf(recs, z, from) ==
  Windowed(ParseZone(z, Version, recs[z]), from, from + Span)
(* The zones whose record parses.                                          *)
ParsedOf(recs) == {z \in Zones : ParseStatus(recs[z]) = "ok"}

(* The rules that are built are one window per zone that parsed, or        *)
(* nothing at all when a limit is exceeded.                                *)
LEMMA BuiltZones ==
  ASSUME NEW recs, DOMAIN recs = Zones, NEW from
  PROVE  LET b == BuildRules(recs, Version, from, from + Span) IN
         \/ b = [zones |-> {}, exceeded |-> TRUE]
         \/ b = [zones |-> {WindowOf(recs, z, from) : z \in ParsedOf(recs)},
                 exceeded |-> FALSE]
<1>1. {WindowOf(recs, z, from) : z \in ParsedOf(recs)}
        = {Windowed(ParseZone(z, Version, recs[z]), from, from + Span) :
             z \in {z \in DOMAIN recs : ParseStatus(recs[z]) = "ok"}}
  BY DEF WindowOf, ParsedOf
<1> QED
  BY <1>1, Zenon DEF BuildRules

(* Every rules of a window are of a parsed zone, valid and named after it. *)
LEMMA BuiltValid ==
  ASSUME NEW recs \in RecordSets, NEW from \in Int, -DayLength <= from,
         NEW rules \in BuildRules(recs, Version, from, from + Span).zones
  PROVE  /\ BuildRules(recs, Version, from, from + Span).exceeded = FALSE
         /\ Linked(rules) /\ ValidChain(rules) /\ rules.version = Version
         /\ rules.name \in ParsedOf(recs)
         /\ rules = WindowOf(recs, rules.name, from)
<1> DEFINE b == BuildRules(recs, Version, from, from + Span)
           zones == {WindowOf(recs, z, from) : z \in ParsedOf(recs)}
<1>1. \/ b = [zones |-> {}, exceeded |-> TRUE]
      \/ b = [zones |-> zones, exceeded |-> FALSE]
  <2>1. DOMAIN recs = Zones
    BY CalendarConstants
  <2> QED
    BY <2>1, BuiltZones
<1>2. rules \in b.zones
  OBVIOUS
<1> HIDE DEF b, zones
<1>3. b = [zones |-> zones, exceeded |-> FALSE]
  BY <1>1, <1>2
<1>4. b.exceeded = FALSE /\ rules \in zones
  BY <1>2, <1>3
<1>5. PICK z \in ParsedOf(recs) : rules = WindowOf(recs, z, from)
  BY <1>4 DEF zones
<1>6. z \in Zones /\ Readable(recs[z]) /\ ParseStatus(recs[z]) = "ok"
  BY <1>5, GivenIsReadable DEF ParsedOf
<1>7. from + Span \in Int /\ from <= from + Span
  BY CalendarConstants
<1>8. /\ Linked(rules) /\ ValidChain(rules) /\ rules.name = z
      /\ rules.version = Version
  BY <1>5, <1>6, <1>7, WindowValid DEF WindowOf
<1> QED
  BY <1>4, <1>5, <1>8 DEF b

-----------------------------------------------------------------------------
(* A materialization. *)
Failed(defs, zones, after) ==
  {id \in DOMAIN defs :
     Materialized(defs[id], zones, after).status \notin {"resolved", "disabled"}}

(* A plan carries one entry for every definition, or fails as the last     *)
(* failing definition did and carries none.                                *)
LEMMA MaterializeShape ==
  ASSUME NEW defs, NEW zones, NEW after, Len(defs) \in Nat,
         DOMAIN defs = 1 .. Len(defs),
         NEW m, m = Materialize(defs, zones, after),
         NEW failed, failed = Failed(defs, zones, after)
  PROVE  /\ m.status = IF failed = {} THEN "materialized"
                       ELSE FailureStatus(
                              Materialized(defs[Max(failed)], zones, after).status)
         /\ Len(m.alarms) = IF failed = {} THEN Len(defs) ELSE 0
         /\ \A k \in DOMAIN m.alarms : \E id :
              m.alarms[k] = [id |-> id,
                             entry |-> Materialized(defs[id], zones, after)]
<1> DEFINE f == Failed(defs, zones, after)
           entry(id) == Materialized(defs[id], zones, after)
           at(id) == IF id \in f THEN 0 ELSE entry(id).scheduled
           place(id) == Cardinality({other \in DOMAIN defs :
                          \/ at(other) < at(id)
                          \/ at(other) = at(id) /\ other <= id})
           who(k) == CHOOSE id \in DOMAIN defs : place(id) = k
           all == [k \in DOMAIN defs |->
                     LET id == CHOOSE id \in DOMAIN defs : place(id) = k
                     IN  [id |-> id, entry |-> entry(id)]]
<1>1. /\ m.status = IF f = {} THEN "materialized"
                    ELSE FailureStatus(entry(Max(f)).status)
      /\ m.alarms = WholeOrNothing(f, all)
  BY DEF Materialize, Failed
<1>2. \A k \in DOMAIN defs : all[k] = [id |-> who(k), entry |-> entry(who(k))]
  OBVIOUS
<1>3. all = [k \in 1 .. Len(defs) |-> all[k]]
  OBVIOUS
<1> HIDE DEF all, f, who, place, at
<1>0. failed = f
  BY DEF f
<1>4. Len(all) = Len(defs) /\ DOMAIN all = DOMAIN defs
  <2>1. DOMAIN all = 1 .. Len(defs)
    BY <1>3
  <2>2. Len([k \in 1 .. Len(defs) |-> all[k]]) = Len(defs)
    OBVIOUS
  <2> QED
    BY <1>3, <2>1, <2>2
<1>5. Len(m.alarms) = IF failed = {} THEN Len(defs) ELSE 0
  BY <1>0, <1>1, <1>4 DEF WholeOrNothing
<1>6. ASSUME NEW k \in DOMAIN m.alarms
      PROVE  \E id : m.alarms[k] = [id |-> id, entry |-> entry(id)]
  <2>1. m.alarms = all \/ m.alarms = << >>
    BY <1>1 DEF WholeOrNothing
  <2>2. m.alarms = all
    BY <1>6, <2>1
  <2>3. all[k] = [id |-> who(k), entry |-> entry(who(k))]
    BY <1>2, <1>4, <1>6, <2>2
  <2> QED
    BY <2>2, <2>3
<1> QED
  BY <1>0, <1>1, <1>5, <1>6

(* One alarm is resolved by the rules of its zone, or has a status of a    *)
(* failure that valid rules can have.                                      *)
LEMMA EntryOfValid ==
  ASSUME NEW alarm, NEW zones, NEW after \in Int,
         \A rules \in zones : Linked(rules) /\ ValidChain(rules)
  PROVE  LET e == Materialized(alarm, zones, after) IN
         /\ e.status = "resolved" => e.scheduled \in Int /\ e.date \in Int
         /\ e.status \in {"invalid_input", "disabled", "missing_timezone_rules",
                          "invalid_schedule", "out_of_range", "no_occurrence",
                          "resolved"}
         /\ e.status = "invalid_input" <=> alarm.revision = 0
         /\ e.status = "disabled" <=> alarm.revision # 0 /\ ~alarm.enabled
         /\ e.status = "missing_timezone_rules" <=>
              /\ alarm.revision # 0 /\ alarm.enabled
              /\ Matching(zones, alarm.schedule) = {}
<1> DEFINE e == Materialized(alarm, zones, after)
           matching == Matching(zones, alarm.schedule)
           rules == CHOOSE r \in matching : TRUE
           found == Resolve(alarm.schedule, rules, after)
<1>1. CASE alarm.revision = 0
  BY <1>1 DEF Materialized, Unresolved
<1>2. CASE alarm.revision # 0 /\ ~alarm.enabled
  <2>1. e = [status |-> "disabled", scheduled |-> 0]
    BY <1>2 DEF Materialized
  <2> QED
    BY <1>2, <2>1
<1>3. CASE alarm.revision # 0 /\ alarm.enabled /\ matching = {}
  <2>1. e = [status |-> "missing_timezone_rules"]
    BY <1>3 DEF Materialized, Unresolved
  <2> QED
    BY <1>3, <2>1
<1>4. CASE alarm.revision # 0 /\ alarm.enabled /\ matching # {}
  <2>1. e = found
    BY <1>4 DEF Materialized
  <2>2. rules \in matching
    BY <1>4
  <2>3. rules \in zones /\ Named(alarm.schedule, rules)
    BY <2>2 DEF Matching
  <2> HIDE DEF rules
  <2>4. Linked(rules) /\ ValidChain(rules)
    BY <2>3
  <2>5. found.status = "resolved" => found.scheduled \in Int /\ found.date \in Int
    BY <2>4, ResolvedIsInt
  <2>6. found.status \in {"invalid_schedule", "out_of_range", "no_occurrence",
                          "resolved"}
    <3>1. \/ found = Unresolved("invalid_schedule")
          \/ found = Unresolved("out_of_range")
          \/ found = SearchDays(alarm.schedule, rules, after,
                                DayOf(after + OffsetAt(rules, after)))
      BY <2>3, <2>4 DEF Resolve
    <3>2. \A first :
            SearchDays(alarm.schedule, rules, after, first).status \in
              {"no_occurrence", "out_of_range", "resolved"}
      BY DEF SearchDays, Unresolved
    <3> QED
      BY <3>1, <3>2 DEF Unresolved
  <2> HIDE DEF found, matching, e
  <2> QED
    BY <1>4, <2>1, <2>5, <2>6 DEF matching, e
<1> QED
  BY <1>1, <1>2, <1>3, <1>4

-----------------------------------------------------------------------------
(* The rules in use are those of a window that starts at an instant of     *)
(* this run or a day earlier, and the plan was made with them.             *)
CalendarIInv ==
  /\ records \in RecordSets /\ alarms \in AlarmSets /\ now \in 0 .. MaxNow
  /\ built # None =>
       \E from \in -DayLength .. MaxNow :
         built = [rules |-> BuildRules(records, Version, from, from + Span),
                  until |-> from + Span]
  /\ plan # None =>
       /\ built # None
       /\ \E after \in 0 .. now :
            plan = [after |-> after,
                    result |-> Materialize(alarms, built.rules.zones, after)]
  /\ rang \in [DOMAIN alarms -> [date : Int, at : Int] \cup {None}]

(* The calendar's invariant holds before any plan is made,                 *)
LEMMA InitCalendar == CalendarInit => CalendarIInv
  BY CalendarConstants DEF CalendarInit, CalendarIInv

(* Of the rules in use all are of parsed zones, and valid. *)
LEMMA BuiltInUse ==
  ASSUME CalendarIInv, built # None, NEW rules \in built.rules.zones
  PROVE  /\ built.rules.exceeded = FALSE
         /\ Linked(rules) /\ ValidChain(rules) /\ rules.version = Version
         /\ rules.name \in Parsed
         /\ built.until - Span \in Int /\ built.until \in Int
         /\ rules = WindowOf(records, rules.name, built.until - Span)
<1>1. PICK from \in -DayLength .. MaxNow :
        built = [rules |-> BuildRules(records, Version, from, from + Span),
                 until |-> from + Span]
  BY DEF CalendarIInv
<1>2. from \in Int /\ -DayLength <= from /\ records \in RecordSets
  BY ResolverConstants, CalendarConstants DEF CalendarIInv
<1>3. /\ built.rules = BuildRules(records, Version, from, from + Span)
      /\ built.until = from + Span
  BY <1>1
<1>4. built.until - Span = from /\ built.until \in Int
  BY <1>2, <1>3, CalendarConstants
<1>5. rules \in BuildRules(records, Version, from, from + Span).zones
  BY <1>3
<1>6. /\ BuildRules(records, Version, from, from + Span).exceeded = FALSE
      /\ Linked(rules) /\ ValidChain(rules) /\ rules.version = Version
      /\ rules.name \in ParsedOf(records)
      /\ rules = WindowOf(records, rules.name, from)
  BY <1>2, <1>5, BuiltValid
<1> QED
  BY <1>2, <1>3, <1>4, <1>6 DEF ParsedOf, Parsed

(* and survives every step: the plan is made from the rules of the same    *)
(* window in the same step.                                                *)
LEMMA NextCalendar == CalendarIInv /\ [CalendarNext]_calendarVars => CalendarIInv'
<1> SUFFICES ASSUME CalendarIInv, [CalendarNext]_calendarVars
             PROVE  CalendarIInv'
  OBVIOUS
<1>0. MaxNow \in Nat /\ Span \in Nat /\ DayLength \in Nat /\ now \in 0 .. MaxNow
  BY CalendarConstants, ResolverConstants DEF CalendarIInv
<1>1. ASSUME NEW from \in {now - DayLength, now}, Build(from)
      PROVE  CalendarIInv'
  <2>1. from \in -DayLength .. MaxNow
    BY <1>0
  <2>2. /\ built' = [rules |-> BuildRules(records, Version, from, from + Span),
                     until |-> from + Span]
        /\ plan' = None /\ UNCHANGED <<records, alarms, now, rang>>
    BY <1>1 DEF Build
  <2> QED
    BY <2>1, <2>2 DEF CalendarIInv
<1>2. ASSUME Plan PROVE CalendarIInv'
  <2>1. /\ built # None
        /\ plan' = [after |-> now,
                    result |-> Materialize(alarms, built.rules.zones, now)]
        /\ UNCHANGED <<records, alarms, built, now, rang>>
    BY <1>2 DEF Plan
  <2>2. now \in 0 .. now
    BY <1>0
  <2> QED
    BY <2>1, <2>2 DEF CalendarIInv
<1>3. ASSUME Pass PROVE CalendarIInv'
  <2>1. /\ now < MaxNow /\ now' = now + 1
        /\ UNCHANGED <<records, alarms, built, plan, rang>>
    BY <1>3 DEF Pass
  <2>2. now' \in 0 .. MaxNow /\ \A after \in 0 .. now : after \in 0 .. now'
    BY <1>0, <2>1
  <2> QED
    BY <2>1, <2>2 DEF CalendarIInv
<1>4. ASSUME plan # None, NEW k \in DOMAIN plan.result.alarms, Ring(k)
      PROVE  CalendarIInv'
  <2> DEFINE e == plan.result.alarms[k]
             zones == built.rules.zones
  <2>1. /\ e.entry.status = "resolved" /\ plan' = None
        /\ rang' = [rang EXCEPT ![e.id] =
                      [date |-> e.entry.date, at |-> e.entry.scheduled]]
        /\ UNCHANGED <<records, alarms, built, now>>
    BY <1>4 DEF Ring
  <2>2. PICK after \in 0 .. now :
          plan = [after |-> after, result |-> Materialize(alarms, zones, after)]
    BY <1>4 DEF CalendarIInv
  <2>3. plan.result = Materialize(alarms, zones, after)
    BY <2>2
  <2>4. Len(alarms) \in Nat /\ DOMAIN alarms = 1 .. Len(alarms)
    BY CalendarConstants DEF CalendarIInv
  <2>e. e = plan.result.alarms[k] /\ k \in DOMAIN plan.result.alarms
    BY <1>4
  <2> HIDE DEF e, zones
  <2>5. PICK id : e = [id |-> id, entry |-> Materialized(alarms[id], zones, after)]
    BY <2>e, <2>3, <2>4, MaterializeShape
  <2> USE DEF zones
  <2>6. \A rules \in zones : Linked(rules) /\ ValidChain(rules)
    BY <1>4, BuiltInUse DEF CalendarIInv
  <2>7. after \in Int
    BY <1>0
  <2>8. e.entry = Materialized(alarms[id], zones, after)
    BY <2>5
  <2>10a. e.entry.status = "resolved" /\ rang' = [rang EXCEPT ![e.id] =
                      [date |-> e.entry.date, at |-> e.entry.scheduled]]
    BY <2>1 DEF e
  <2> HIDE DEF zones
  <2>9. e.entry.scheduled \in Int /\ e.entry.date \in Int
    BY <2>1, <2>6, <2>7, <2>8, EntryOfValid
  <2>10. [date |-> e.entry.date, at |-> e.entry.scheduled] \in [date : Int, at : Int]
    BY <2>9
  <2>11. rang' \in [DOMAIN alarms' -> [date : Int, at : Int] \cup {None}]
    BY <2>1, <2>10 DEF CalendarIInv
  <2> QED
    BY <2>1, <2>11 DEF CalendarIInv
<1>5. ASSUME UNCHANGED calendarVars PROVE CalendarIInv'
  BY <1>5 DEF CalendarIInv, calendarVars
<1> QED
  BY <1>1, <1>2, <1>3, <1>4, <1>5 DEF CalendarNext

(* What it says of the calendar's variables is their type.                 *)
LEMMA CalendarTyped == CalendarIInv => CalendarTypeOK
<1> SUFFICES ASSUME CalendarIInv PROVE CalendarTypeOK
  OBVIOUS
<1>1. built # None => \A rules \in built.rules.zones : ValidChain(rules)
  BY BuiltInUse
<1>2. plan # None => plan.after \in 0 .. now
  <2> SUFFICES ASSUME plan # None PROVE plan.after \in 0 .. now
    OBVIOUS
  <2>1. PICK after \in 0 .. now :
          plan = [after |-> after,
                  result |-> Materialize(alarms, built.rules.zones, after)]
    BY DEF CalendarIInv
  <2> QED
    BY <2>1
<1> QED
  BY <1>1, <1>2 DEF CalendarIInv, CalendarTypeOK

(* The rules in use show the local time of the records they were built     *)
(* from, at every instant of their window before the cutoff.               *)
WindowTellsTime ==
  built # None =>
    \A rules \in built.rules.zones, t \in built.until - Span .. built.until :
      t < Cutoff => t + OffsetAt(rules, t) = LocalAt(records[rules.name], t)

(* The invariant says that a window tells the time of its records,         *)
LEMMA CalendarTellsTime == CalendarIInv => WindowTellsTime
<1> SUFFICES ASSUME CalendarIInv, built # None, NEW rules \in built.rules.zones,
                    NEW t \in built.until - Span .. built.until, t < Cutoff
             PROVE  t + OffsetAt(rules, t) = LocalAt(records[rules.name], t)
  BY DEF WindowTellsTime
<1> DEFINE from == built.until - Span
           z == rules.name
<1>1. /\ z \in Parsed /\ from \in Int /\ built.until \in Int
      /\ rules = WindowOf(records, z, from)
  BY BuiltInUse
<1>2. z \in Zones /\ ParseStatus(records[z]) = "ok" /\ Readable(records[z])
  BY <1>1, GivenIsReadable DEF Parsed, CalendarIInv
<1>3. from + Span = built.until
  BY <1>1, CalendarConstants
<1>4. rules = Windowed(ParseZone(z, Version, records[z]), from, built.until)
  BY <1>1, <1>3 DEF WindowOf
<1> HIDE DEF from, z
<1>5. t \in from .. built.until
  BY DEF from
<1> QED
  BY <1>1, <1>2, <1>4, <1>5, WindowShowsTime DEF z

(* A plan holds every alarm or none; it is made only if every enabled      *)
(* alarm has its zone, in the pinned version, and it then fails only for   *)
(* an alarm whose schedule has no occurrence in reach.                     *)
PlanHasReason ==
  plan # None =>
    LET provided == IF built.rules.exceeded THEN {} ELSE Parsed
        ready == \A id \in DOMAIN alarms :
                   /\ alarms[id].revision # 0
                   /\ alarms[id].enabled =>
                        /\ alarms[id].schedule.zone \in provided
                        /\ alarms[id].schedule.version = Version
        status == plan.result.status
    IN  /\ status = "materialized" => ready
        /\ ready => status \in {"materialized", "invalid_schedule", "out_of_range"}
        /\ Len(plan.result.alarms) =
             IF status = "materialized" THEN Len(alarms) ELSE 0

(* and that a failed plan has the reason it states.                        *)
LEMMA CalendarPlans == CalendarIInv => PlanHasReason
<1> SUFFICES ASSUME CalendarIInv, plan # None
             PROVE  PlanHasReason
  BY DEF PlanHasReason
<1> DEFINE zones == built.rules.zones
           provided == IF built.rules.exceeded THEN {} ELSE Parsed
           fit(id) == /\ alarms[id].revision # 0
                      /\ alarms[id].enabled =>
                           /\ alarms[id].schedule.zone \in provided
                           /\ alarms[id].schedule.version = Version
           status == plan.result.status
<1>1. PICK after \in 0 .. now :
        plan = [after |-> after, result |-> Materialize(alarms, zones, after)]
  BY DEF CalendarIInv
<1>2. plan.result = Materialize(alarms, zones, after)
  BY <1>1
<1>3. Len(alarms) \in Nat /\ DOMAIN alarms = 1 .. Len(alarms)
  BY CalendarConstants DEF CalendarIInv
<1> DEFINE failed == Failed(alarms, zones, after)
           entry(id) == Materialized(alarms[id], zones, after)
<1>4. /\ status = IF failed = {} THEN "materialized"
                  ELSE FailureStatus(entry(Max(failed)).status)
      /\ Len(plan.result.alarms) = IF failed = {} THEN Len(alarms) ELSE 0
  <2> DEFINE m == plan.result
  <2>1. failed = Failed(alarms, zones, after) /\ m = Materialize(alarms, zones, after)
    BY <1>2
  <2> HIDE DEF zones, failed, m
  <2>2. /\ m.status = IF failed = {} THEN "materialized"
                      ELSE FailureStatus(
                             Materialized(alarms[Max(failed)], zones, after).status)
        /\ Len(m.alarms) = IF failed = {} THEN Len(alarms) ELSE 0
    BY <1>3, <2>1, MaterializeShape
  <2> QED
    BY <2>2 DEF m
<1>5. after \in Int /\ \A rules \in zones : Linked(rules) /\ ValidChain(rules)
  <2>1. now \in Int /\ after \in 0 .. now
    BY CalendarConstants DEF CalendarIInv
  <2>2. built # None
    BY DEF CalendarIInv
  <2>3. after \in Int
    BY <2>1
  <2> QED
    BY <2>2, <2>3, BuiltInUse
<1> HIDE DEF zones
<1>6. \A id :
        /\ entry(id).status \in
             {"invalid_input", "disabled", "missing_timezone_rules",
              "invalid_schedule", "out_of_range", "no_occurrence", "resolved"}
        /\ entry(id).status = "invalid_input" <=> alarms[id].revision = 0
        /\ entry(id).status = "missing_timezone_rules" <=>
             /\ alarms[id].revision # 0 /\ alarms[id].enabled
             /\ Matching(zones, alarms[id].schedule) = {}
  BY <1>5, EntryOfValid
<1>7. \A id : Matching(zones, alarms[id].schedule) # {} <=>
                /\ alarms[id].schedule.zone \in provided
                /\ alarms[id].schedule.version = Version
  <2> TAKE id
  <2>1. ASSUME NEW rules \in Matching(zones, alarms[id].schedule)
        PROVE  /\ alarms[id].schedule.zone \in provided
               /\ alarms[id].schedule.version = Version
    <3>1. rules \in zones /\ Named(alarms[id].schedule, rules)
      BY DEF Matching
    <3>2. /\ built.rules.exceeded = FALSE /\ rules.version = Version
          /\ rules.name \in Parsed
      BY <3>1, BuiltInUse DEF zones, CalendarIInv
    <3> QED
      BY <3>1, <3>2 DEF Named
  <2>2. ASSUME alarms[id].schedule.zone \in provided,
               alarms[id].schedule.version = Version
        PROVE  Matching(zones, alarms[id].schedule) # {}
    <3> DEFINE z == alarms[id].schedule.zone
    <3>1. built # None
      BY DEF CalendarIInv
    <3>2. PICK from \in -DayLength .. MaxNow :
            built = [rules |-> BuildRules(records, Version, from, from + Span),
                     until |-> from + Span]
      BY <3>1 DEF CalendarIInv
    <3>3. built.rules = BuildRules(records, Version, from, from + Span)
      BY <3>2
    <3>4. /\ from \in Int /\ -DayLength <= from /\ from + Span \in Int
          /\ from <= from + Span
      BY CalendarConstants, ResolverConstants
    <3>5. z \in Parsed /\ ~built.rules.exceeded
      BY <2>2
    <3>6. DOMAIN records = Zones
      BY CalendarConstants DEF CalendarIInv
    <3>7. zones = {WindowOf(records, y, from) : y \in ParsedOf(records)}
      <4>1. \/ built.rules = [zones |-> {}, exceeded |-> TRUE]
            \/ built.rules = [zones |-> {WindowOf(records, y, from) :
                                           y \in ParsedOf(records)},
                              exceeded |-> FALSE]
        BY <3>3, <3>6, BuiltZones
      <4> QED
        BY <3>5, <4>1 DEF zones
    <3>8. z \in ParsedOf(records)
      BY <3>5 DEF Parsed, ParsedOf
    <3>9. WindowOf(records, z, from) \in zones
      BY <3>7, <3>8
    <3>10. z \in Zones /\ ParseStatus(records[z]) = "ok" /\ Readable(records[z])
      BY <3>8, GivenIsReadable DEF ParsedOf, CalendarIInv
    <3>11. /\ WindowOf(records, z, from).name = z
           /\ WindowOf(records, z, from).version = Version
      BY <3>4, <3>10, WindowValid DEF WindowOf
    <3> QED
      BY <2>2, <3>9, <3>11 DEF Matching, Named
  <2> QED
    BY <2>1, <2>2
<1>8. failed = {} => \A id \in DOMAIN alarms : fit(id)
  <2> SUFFICES ASSUME failed = {}, NEW id \in DOMAIN alarms PROVE fit(id)
    OBVIOUS
  <2>1. entry(id).status \in {"resolved", "disabled"}
    BY DEF Failed
  <2>2. /\ entry(id).status # "invalid_input"
        /\ entry(id).status # "missing_timezone_rules"
    BY <2>1
  <2>3. alarms[id].revision # 0
    BY <1>6, <2>2
  <2>4. alarms[id].enabled => Matching(zones, alarms[id].schedule) # {}
    BY <1>6, <2>2, <2>3
  <2> HIDE DEF provided
  <2> QED
    BY <1>7, <2>3, <2>4
<1>9. ASSUME failed # {}
      PROVE  /\ status # "materialized"
             /\ (\A id \in DOMAIN alarms : fit(id))
                  => status \in {"invalid_schedule", "out_of_range"}
  <2> DEFINE worst == Max(failed)
  <2>1. worst \in failed
    <3>1. IsFiniteSet(failed) /\ failed \in SUBSET Int
      <4>1. failed \in SUBSET (1 .. Len(alarms)) /\ 1 .. Len(alarms) \subseteq Int
        BY <1>3 DEF Failed
      <4>2. IsFiniteSet(1 .. Len(alarms))
        BY <1>3, FS_Interval
      <4> HIDE DEF failed
      <4> QED
        BY <4>1, <4>2, FS_Subset
    <3> HIDE DEF failed
    <3> QED
      BY <1>9, <3>1, MaxIsMaximum
  <2>2. /\ worst \in DOMAIN alarms
        /\ entry(worst).status \notin {"resolved", "disabled"}
    BY <2>1 DEF Failed
  <2>3. status = FailureStatus(entry(worst).status)
    BY <1>4, <1>9
  <2> HIDE DEF worst, failed, status
  <2>4. entry(worst).status \in
          {"invalid_input", "missing_timezone_rules", "invalid_schedule",
           "out_of_range", "no_occurrence"}
    BY <1>6, <2>2
  <2>5. fit(worst) => /\ entry(worst).status # "invalid_input"
                      /\ entry(worst).status # "missing_timezone_rules"
    <3> HIDE DEF provided
    <3> QED
      BY <1>6, <1>7
  <2> HIDE DEF fit
  <2> QED
    BY <2>2, <2>3, <2>4, <2>5 DEF FailureStatus
<1> HIDE DEF failed, fit, status
<1>10. /\ status = "materialized" <=> failed = {}
       /\ status = "materialized" => \A id \in DOMAIN alarms : fit(id)
       /\ (\A id \in DOMAIN alarms : fit(id))
            => status \in {"materialized", "invalid_schedule", "out_of_range"}
  BY <1>4, <1>8, <1>9
<1>11. Len(plan.result.alarms) =
         IF status = "materialized" THEN Len(alarms) ELSE 0
  BY <1>4, <1>10
<1> QED
  BY <1>10, <1>11 DEF PlanHasReason, fit, status

-----------------------------------------------------------------------------
(***************************************************************************)
(* The parser: parse_json against the grammar it reads. First the phrases  *)
(* of the grammar and what may follow them, then what each token does,     *)
(* then the invariant that relates the two.                                *)
(***************************************************************************)

(* Texts as lists: a token and the rest.                                   *)
Texts == Seq(Tokens)
(* A text that starts with a token.                                        *)
Then(t, rest) == <<t>> \o rest

(* A token before a text. *)
LEMMA ThenParts ==
  ASSUME NEW t \in Tokens, NEW a \in Texts
  PROVE  /\ Then(t, a) \in Texts /\ Len(a) \in Nat
         /\ Len(Then(t, a)) = 1 + Len(a)
         /\ Then(t, a)[1] = t
         /\ \A i \in 1 .. Len(a) : Then(t, a)[1 + i] = a[i]
         /\ Then(t, a) # << >>
<1>1. <<t>> \in Texts /\ Len(<<t>>) = 1 /\ <<t>>[1] = t
  BY DEF Texts
<1>2. Len(a) \in Nat
  BY LenProperties DEF Texts
<1>3. /\ <<t>> \o a \in Texts /\ Len(<<t>> \o a) = 1 + Len(a)
      /\ \A i \in 1 .. 1 + Len(a) :
           (<<t>> \o a)[i] = IF i <= 1 THEN <<t>>[i] ELSE a[i - 1]
  BY <1>1, ConcatProperties DEF Texts
<1>4. (<<t>> \o a)[1] = t
  BY <1>1, <1>2, <1>3
<1>5. \A i \in 1 .. Len(a) : (<<t>> \o a)[1 + i] = a[i]
  <2> TAKE i \in 1 .. Len(a)
  <2>1. 1 + i \in 1 .. 1 + Len(a) /\ ~(1 + i <= 1) /\ (1 + i) - 1 = i
    BY <1>2
  <2> QED
    BY <1>3, <2>1
<1>6. <<t>> \o a # << >>
  <2>1. Len(<<t>> \o a) # 0
    BY <1>2, <1>3
  <2> QED
    BY <2>1
<1> QED
  BY <1>2, <1>3, <1>4, <1>5, <1>6 DEF Then

(* Two texts are one when their first tokens and their rests are.          *)
LEMMA ThenInjective ==
  ASSUME NEW t \in Tokens, NEW u \in Tokens, NEW a \in Texts, NEW b \in Texts,
         Then(t, a) = Then(u, b)
  PROVE  t = u /\ a = b
<1>1. /\ Len(Then(t, a)) = 1 + Len(a) /\ Then(t, a)[1] = t /\ Len(a) \in Nat
      /\ \A i \in 1 .. Len(a) : Then(t, a)[1 + i] = a[i]
  BY ThenParts
<1>2. /\ Len(Then(u, b)) = 1 + Len(b) /\ Then(u, b)[1] = u /\ Len(b) \in Nat
      /\ \A i \in 1 .. Len(b) : Then(u, b)[1 + i] = b[i]
  BY ThenParts
<1>3. Len(a) = Len(b) /\ t = u
  BY <1>1, <1>2
<1>4. \A i \in 1 .. Len(a) : a[i] = b[i]
  BY <1>1, <1>2, <1>3
<1>5. a = b
  BY <1>3, <1>4, SeqEqual DEF Texts
<1> QED
  BY <1>3, <1>5

(* A text that is not empty is a token before a text.                      *)
LEMMA ThenExists ==
  ASSUME NEW a \in Texts, a # << >>
  PROVE  \E t \in Tokens, b \in Texts : a = Then(t, b) /\ Len(a) = 1 + Len(b)
<1>1. Len(a) \in Nat \ {0} /\ \A i \in 1 .. Len(a) : a[i] \in Tokens
  <2>1. Len(a) \in Nat \ {0}
    BY EmptySeq DEF Texts
  <2>2. \A i \in 1 .. Len(a) : a[i] \in Tokens
    BY ElementOfSeq DEF Texts
  <2> QED
    BY <2>1, <2>2
<1> DEFINE b == SubSeq(a, 2, Len(a))
<1>2. /\ b \in Texts
      /\ Len(b) = IF 2 <= Len(a) THEN Len(a) - 2 + 1 ELSE 0
      /\ \A i \in 1 .. Len(a) - 2 + 1 : b[i] = a[2 + i - 1]
  <2>1. \A i \in 2 .. Len(a) : a[i] \in Tokens
    BY <1>1
  <2>2. 2 \in Int /\ Len(a) \in Int
    BY <1>1
  <2>3. /\ SubSeq(a, 2, Len(a)) \in Seq(Tokens)
        /\ Len(SubSeq(a, 2, Len(a))) = IF 2 <= Len(a) THEN Len(a) - 2 + 1 ELSE 0
        /\ \A i \in 1 .. Len(a) - 2 + 1 : SubSeq(a, 2, Len(a))[i] = a[2 + i - 1]
    BY <2>1, <2>2, SubSeqProperties
  <2> QED
    BY <2>3 DEF Texts
<1> HIDE DEF b
<1>3. Len(b) = Len(a) - 1
  <2>1. Len(a) \in Nat \ {0} /\ Len(b) = IF 2 <= Len(a) THEN Len(a) - 2 + 1 ELSE 0
    BY <1>1, <1>2
  <2>2. CASE 2 <= Len(a)
    BY <2>1, <2>2
  <2>3. CASE ~(2 <= Len(a))
    <3>1. Len(a) = 1 /\ Len(b) = 0
      BY <2>1, <2>3
    <3> QED
      BY <3>1
  <2> QED
    BY <2>2, <2>3
<1>4. a[1] \in Tokens
  BY <1>1
<1>5. /\ Then(a[1], b) \in Texts /\ Len(Then(a[1], b)) = 1 + Len(b)
      /\ Then(a[1], b)[1] = a[1]
      /\ \A i \in 1 .. Len(b) : Then(a[1], b)[1 + i] = b[i]
  BY <1>2, <1>4, ThenParts
<1>6. Len(Then(a[1], b)) = Len(a)
  BY <1>1, <1>3, <1>5
<1>7. \A i \in 1 .. Len(a) : a[i] = Then(a[1], b)[i]
  <2> TAKE i \in 1 .. Len(a)
  <2>1. CASE i = 1
    BY <1>5, <2>1
  <2>2. CASE i # 1
    <3>1. i - 1 \in 1 .. Len(b) /\ 1 + (i - 1) = i /\ i - 1 \in 1 .. Len(a) - 2 + 1
          /\ 2 + (i - 1) - 1 = i
      BY <1>1, <1>3, <2>2
    <3>2. Then(a[1], b)[1 + (i - 1)] = b[i - 1] /\ b[i - 1] = a[2 + (i - 1) - 1]
      BY <1>2, <1>5, <3>1
    <3> QED
      BY <3>1, <3>2
  <2> QED
    BY <2>1, <2>2
<1>8. a = Then(a[1], b)
  BY <1>5, <1>6, <1>7, SeqEqual DEF Texts
<1>9. Len(a) = 1 + Len(b)
  BY <1>1, <1>3
<1> QED
  BY <1>2, <1>4, <1>8, <1>9

(* Concatenation of texts.                                                 *)
LEMMA ConcatTexts ==
  ASSUME NEW a \in Texts, NEW b \in Texts
  PROVE  /\ a \o b \in Texts /\ Len(a \o b) = Len(a) + Len(b)
         /\ Len(a) \in Nat /\ Len(b) \in Nat
         /\ a \o << >> = a /\ << >> \o a = a
         /\ a \o b = << >> => b = << >>
<1>1. a \o b \in Texts /\ Len(a \o b) = Len(a) + Len(b)
  BY ConcatProperties DEF Texts
<1>2. Len(a) \in Nat /\ Len(b) \in Nat
  BY LenProperties DEF Texts
<1>3. a \o << >> = a /\ << >> \o a = a
  BY ConcatEmptySeq DEF Texts
<1>4. a \o b = << >> => b = << >>
  BY ConcatEqualIffEmpty DEF Texts
<1> QED
  BY <1>1, <1>2, <1>3, <1>4

(* Concatenation is associative,                                           *)
LEMMA ConcatThree ==
  ASSUME NEW a \in Texts, NEW b \in Texts, NEW c \in Texts
  PROVE  (a \o b) \o c = a \o (b \o c)
BY ConcatAssociative DEF Texts

(* also with a token in front.                                             *)
LEMMA ThenConcat ==
  ASSUME NEW t \in Tokens, NEW a \in Texts, NEW b \in Texts
  PROVE  Then(t, a) \o b = Then(t, a \o b)
<1>1. <<t>> \in Texts
  BY DEF Texts
<1> QED
  BY <1>1, ConcatThree DEF Then

(* The empty text.                                                         *)
LEMMA EmptyText == << >> \in Texts /\ Len(<< >>) = 0
BY EmptySeq DEF Texts

(* One token more, read at the end or put before the rest.                 *)
LEMMA AppendIsThen ==
  ASSUME NEW a \in Texts, NEW t \in Tokens, NEW b \in Texts
  PROVE  /\ Append(a, t) \in Texts /\ Len(Append(a, t)) = Len(a) + 1
         /\ Append(a, t) \o b = a \o Then(t, b)
         /\ Append(a, t) = a \o Then(t, << >>)
<1>1. <<t>> \in Texts
  BY DEF Texts
<1>2. Append(a, t) = a \o <<t>> /\ Append(a, t) \in Texts
      /\ Len(Append(a, t)) = Len(a) + 1
  <2>1. Append(a, t) \in Seq(Tokens) /\ Len(Append(a, t)) = Len(a) + 1
        /\ Append(a, t) = a \o <<t>>
    BY AppendProperties, AppendIsConcat DEF Texts
  <2> QED
    BY <2>1 DEF Texts
<1>3. (a \o <<t>>) \o b = a \o (<<t>> \o b)
  BY <1>1, ConcatThree
<1>4. <<t>> \o << >> = <<t>>
  BY <1>1, ConcatTexts
<1> QED
  BY <1>2, <1>3, <1>4 DEF Then

-----------------------------------------------------------------------------
(* The grammar, which is defined by itself, at shorter lengths.            *)

(* The phrases of one length depend on the shorter ones alone.             *)
LEMMA PhrasesOfShorter ==
  ASSUME NEW n \in Nat, NEW g, NEW h, \A m \in 0 .. n - 1 : g[m] = h[m]
  PROVE  Phrases(g, n) = Phrases(h, n)
<1>1. n < 2 \/ g[n - 2] = h[n - 2]
  <2> SUFFICES ASSUME ~(n < 2) PROVE g[n - 2] = h[n - 2]
    OBVIOUS
  <2>1. n - 2 \in 0 .. n - 1
    OBVIOUS
  <2> QED
    BY <2>1
<1>2. \A k \in 1 .. n - 2 : g[k] = h[k] /\ g[n - 1 - k] = h[n - 1 - k]
  <2> TAKE k \in 1 .. n - 2
  <2>1. k \in 0 .. n - 1 /\ n - 1 - k \in 0 .. n - 1
    OBVIOUS
  <2> QED
    BY <2>1
<1>3. \A k \in 3 .. n - 2 : g[k] = h[k] /\ g[n - 1 - k] = h[n - 1 - k]
  <2> TAKE k \in 3 .. n - 2
  <2>1. k \in 1 .. n - 2
    OBVIOUS
  <2> QED
    BY <1>2, <2>1
<1> DEFINE values(f) ==
             (IF n = 1 THEN {<<s>> : s \in Strings \cup Scalars} ELSE {})
             \cup (IF n < 2 THEN {} ELSE
                     {<<"[">> \o x \o <<"]">> : x \in f[n - 2].lists}
                     \cup {<<"{">> \o m.text \o <<"}">> : m \in f[n - 2].members})
           more(f, k) == UNION {Listed(v, f[n - 1 - k].lists) : v \in f[k].values}
           longer(f) == UNION {more(f, k) : k \in 1 .. n - 2}
           single(f) == IF n < 3 THEN {} ELSE
                        UNION {{Member(k, v) : v \in f[n - 2].values} : k \in Strings}
           with(f, k) == UNION {Joined(a, f[n - 1 - k].members) : a \in f[k].singles}
           joined(f) == UNION {with(f, k) : k \in 3 .. n - 2}
<1>4. values(g) = values(h)
  BY <1>1
<1>5. single(g) = single(h)
  <2>1. CASE n < 3
    BY <2>1
  <2>2. CASE ~(n < 3)
    <3>1. g[n - 2].values = h[n - 2].values
      BY <1>1, <2>2
    <3> QED
      BY <2>2, <3>1
  <2> QED
    BY <2>1, <2>2
<1>6. longer(g) = longer(h)
  <2>1. \A k \in 1 .. n - 2 : more(g, k) = more(h, k)
    <3> TAKE k \in 1 .. n - 2
    <3>1. g[k] = h[k] /\ g[n - 1 - k] = h[n - 1 - k]
      BY <1>2
    <3> QED
      BY <3>1
  <2> HIDE DEF more
  <2>2. {more(g, k) : k \in 1 .. n - 2} = {more(h, k) : k \in 1 .. n - 2}
    BY <2>1
  <2> QED
    BY <2>2
<1>7. joined(g) = joined(h)
  <2>1. \A k \in 3 .. n - 2 : with(g, k) = with(h, k)
    <3> TAKE k \in 3 .. n - 2
    <3>1. g[k] = h[k] /\ g[n - 1 - k] = h[n - 1 - k]
      BY <1>3
    <3> QED
      BY <3>1
  <2> HIDE DEF with
  <2>2. {with(g, k) : k \in 3 .. n - 2} = {with(h, k) : k \in 3 .. n - 2}
    BY <2>1
  <2> QED
    BY <2>2
<1>8. \A f : Phrases(f, n) =
        [values |-> values(f), singles |-> single(f),
         lists |-> IF n = 0 THEN {<< >>} ELSE values(f) \cup longer(f),
         members |-> IF n = 0 THEN {[keys |-> {}, text |-> << >>]}
                     ELSE single(f) \cup joined(f)]
  BY Zenon DEF Phrases
<1> HIDE DEF values, longer, single, joined
<1> QED
  BY <1>4, <1>5, <1>6, <1>7, <1>8

(* A set of lengths that is not empty has a shortest one.                  *)
LEMMA Shortest ==
  ASSUME NEW n \in Nat, NEW S \in SUBSET (0 .. n), S # {}
  PROVE  \E k \in 0 .. n : k \in S /\ \A m \in 0 .. k - 1 : m \notin S
<1>1. IsFiniteSet(S) /\ S \in SUBSET Int
  <2>1. IsFiniteSet(0 .. n) /\ 0 .. n \subseteq Int
    BY FS_Interval
  <2> QED
    BY <2>1, FS_Subset
<1>2. PICK k \in S : \A m \in S : k <= m
  BY <1>1, MinimumExists
<1>3. k \in 0 .. n
  OBVIOUS
<1> QED
  BY <1>2, <1>3

(* A grammar of every length exists.                                       *)
LEMMA GrammarExists ==
  ASSUME NEW n \in Nat
  PROVE  \E g : g = [m \in 0 .. n |-> Phrases(g, m)]
<1> DEFINE Has(k) == \E g : g = [m \in 0 .. k |-> Phrases(g, m)]
           S == {k \in 0 .. n : ~Has(k)}
<1> SUFFICES ASSUME S # {} PROVE FALSE
  BY n \in 0 .. n
<1>1. S \in SUBSET (0 .. n)
  OBVIOUS
<1> HIDE DEF S
<1>2. PICK k \in 0 .. n : k \in S /\ \A m \in 0 .. k - 1 : m \notin S
  BY <1>1, Shortest
<1>3. \E g : \A m \in 0 .. k - 1 : g[m] = Phrases(g, m)
  <2>1. CASE k = 0
    BY <2>1
  <2>2. CASE k # 0
    <3>1. k - 1 \in 0 .. k - 1 /\ k - 1 \in 0 .. n
      BY <1>2, <2>2
    <3>2. Has(k - 1)
      BY <1>2, <3>1 DEF S
    <3>3. PICK g : g = [m \in 0 .. k - 1 |-> Phrases(g, m)]
      BY <3>2
    <3>4. \A m \in 0 .. k - 1 : g[m] = Phrases(g, m)
      BY <3>3
    <3> QED
      BY <3>4
  <2> QED
    BY <2>1, <2>2
<1>4. PICK g : \A m \in 0 .. k - 1 : g[m] = Phrases(g, m)
  BY <1>3
<1> DEFINE h == [m \in 0 .. k |-> Phrases(g, m)]
<1>5. \A m \in 0 .. k - 1 : h[m] = g[m]
  <2> TAKE m \in 0 .. k - 1
  <2>1. m \in 0 .. k
    BY <1>2
  <2> QED
    BY <1>4, <2>1
<1>6. \A m \in 0 .. k : Phrases(g, m) = Phrases(h, m)
  <2> TAKE m \in 0 .. k
  <2>1. m \in Nat /\ \A j \in 0 .. m - 1 : j \in 0 .. k - 1
    BY <1>2
  <2> HIDE DEF h
  <2>2. \A j \in 0 .. m - 1 : g[j] = h[j]
    BY <1>5, <2>1
  <2> QED
    BY <2>1, <2>2, PhrasesOfShorter
<1>7. h = [m \in 0 .. k |-> Phrases(h, m)]
  <2> DEFINE e == [m \in 0 .. k |-> Phrases(h, m)]
  <2> HIDE DEF h
  <2>1. e = [m \in 0 .. k |-> Phrases(g, m)]
    BY <1>6
  <2> HIDE DEF e
  <2>2. h = e
    BY <2>1 DEF h
  <2> QED
    BY <2>2 DEF e
<1>8. Has(k)
  <2> HIDE DEF h
  <2> QED
    BY <1>7
<1> QED
  BY <1>2, <1>8 DEF S

(* The phrases of every length are built from the shorter ones, as Phrases *)
(* says. A smallest length for which they were not would be one whose      *)
(* shorter phrases are.                                                    *)
LEMMA GrammarIsPhrases ==
  \A n \in 0 .. MaxText : Grammar[n] = Phrases(Grammar, n)
<1>1. MaxText \in Nat
  BY ParserConstants
<1>2. PICK g : g = [n \in 0 .. MaxText |-> Phrases(g, n)]
  BY <1>1, GrammarExists
<1>3. Grammar = CHOOSE f : f = [n \in 0 .. MaxText |-> Phrases(f, n)]
  BY Zenon DEF Grammar
<1>4. Grammar = [n \in 0 .. MaxText |-> Phrases(Grammar, n)]
  BY <1>2, <1>3, Zenon
<1> QED
  BY <1>4

-----------------------------------------------------------------------------
(* The phrases of one length, by their forms.                              *)
LEMMA PhraseForms ==
  ASSUME NEW n \in 0 .. MaxText
  PROVE  /\ \A v : v \in Grammar[n].values <=>
              \/ n = 1 /\ \E s \in Strings \cup Scalars : v = <<s>>
              \/ /\ ~(n < 2)
                 /\ \E x \in Grammar[n - 2].lists : v = <<"[">> \o x \o <<"]">>
              \/ /\ ~(n < 2)
                 /\ \E m \in Grammar[n - 2].members :
                      v = <<"{">> \o m.text \o <<"}">>
         /\ \A x : x \in Grammar[n].lists <=>
              \/ n = 0 /\ x = << >>
              \/ n # 0 /\ x \in Grammar[n].values
              \/ n # 0 /\ \E k \in 1 .. n - 2 :
                            \E v \in Grammar[k].values :
                              \E y \in Grammar[n - 1 - k].lists :
                                x = v \o <<",">> \o y
         /\ \A m : m \in Grammar[n].singles <=>
              ~(n < 3) /\ \E k \in Strings :
                            \E v \in Grammar[n - 2].values : m = Member(k, v)
         /\ \A m : m \in Grammar[n].members <=>
              \/ n = 0 /\ m = [keys |-> {}, text |-> << >>]
              \/ n # 0 /\ m \in Grammar[n].singles
              \/ n # 0 /\ \E k \in 3 .. n - 2 :
                            \E a \in Grammar[k].singles :
                              m \in Joined(a, Grammar[n - 1 - k].members)
<1> DEFINE G == Grammar
           values ==
             (IF n = 1 THEN {<<s>> : s \in Strings \cup Scalars} ELSE {})
             \cup (IF n < 2 THEN {} ELSE
                     {<<"[">> \o x \o <<"]">> : x \in G[n - 2].lists}
                     \cup {<<"{">> \o m.text \o <<"}">> : m \in G[n - 2].members})
           more(k) == UNION {Listed(v, G[n - 1 - k].lists) : v \in G[k].values}
           longer == UNION {more(k) : k \in 1 .. n - 2}
           single == IF n < 3 THEN {} ELSE
                       UNION {{Member(k, v) : v \in G[n - 2].values} : k \in Strings}
           with(k) == UNION {Joined(a, G[n - 1 - k].members) : a \in G[k].singles}
           joined == UNION {with(k) : k \in 3 .. n - 2}
<1>1. G[n] = [values |-> values, singles |-> single,
              lists |-> IF n = 0 THEN {<< >>} ELSE values \cup longer,
              members |-> IF n = 0 THEN {[keys |-> {}, text |-> << >>]}
                          ELSE single \cup joined]
  <2>1. G[n] = Phrases(G, n)
    BY GrammarIsPhrases
  <2> HIDE DEF G
  <2> QED
    BY <2>1, Zenon DEF Phrases
<1> HIDE DEF G
<1>2. \A v : v \in values <=>
        \/ n = 1 /\ \E s \in Strings \cup Scalars : v = <<s>>
        \/ /\ ~(n < 2)
           /\ \E x \in G[n - 2].lists : v = <<"[">> \o x \o <<"]">>
        \/ /\ ~(n < 2)
           /\ \E m \in G[n - 2].members : v = <<"{">> \o m.text \o <<"}">>
  OBVIOUS
<1>3. \A x : x \in longer <=>
        \E k \in 1 .. n - 2 : \E v \in G[k].values :
          \E y \in G[n - 1 - k].lists : x = v \o <<",">> \o y
  <2>1. ASSUME NEW x
        PROVE  x \in longer <=> \E k \in 1 .. n - 2 : x \in more(k)
    <3> HIDE DEF more
    <3> QED
      OBVIOUS
  <2>2. ASSUME NEW x, NEW k
        PROVE  x \in more(k) <=> \E v \in G[k].values : x \in Listed(v, G[n - 1 - k].lists)
    OBVIOUS
  <2>3. \A x, v, L : x \in Listed(v, L) <=> \E y \in L : x = v \o <<",">> \o y
    BY DEF Listed
  <2> HIDE DEF more, longer
  <2> QED
    <3> DEFINE both(v, y) == v \o <<",">> \o y
    <3>1. \A x, v, L : x \in Listed(v, L) <=> \E y \in L : x = both(v, y)
      BY <2>3, Zenon
    <3> HIDE DEF both
    <3>2. ASSUME NEW x
          PROVE  x \in longer <=> \E k \in 1 .. n - 2 : \E v \in G[k].values :
                   \E y \in G[n - 1 - k].lists : x = both(v, y)
      BY <2>1, <2>2, <3>1
    <3> USE DEF both
    <3> QED
      BY <3>2, Zenon
<1>4. \A m : m \in single <=>
        ~(n < 3) /\ \E k \in Strings : \E v \in G[n - 2].values : m = Member(k, v)
  OBVIOUS
<1>5. \A m : m \in joined <=>
        \E k \in 3 .. n - 2 : \E a \in G[k].singles :
          m \in Joined(a, G[n - 1 - k].members)
  OBVIOUS
<1> HIDE DEF values, longer, single, joined
<1>6. /\ G[n].values = values /\ G[n].singles = single
      /\ \A x : x \in G[n].lists <=>
           (n = 0 /\ x = << >>) \/ (n # 0 /\ x \in values) \/ (n # 0 /\ x \in longer)
      /\ \A m : m \in G[n].members <=>
           \/ n = 0 /\ m = [keys |-> {}, text |-> << >>]
           \/ n # 0 /\ m \in single
           \/ n # 0 /\ m \in joined
  <2>1. CASE n = 0
    BY <1>1, <2>1
  <2>2. CASE n # 0
    BY <1>1, <2>2
  <2> QED
    BY <2>1, <2>2
<1>7. /\ \A v : v \in G[n].values <=>
           \/ n = 1 /\ \E s \in Strings \cup Scalars : v = <<s>>
           \/ /\ ~(n < 2)
              /\ \E x \in G[n - 2].lists : v = <<"[">> \o x \o <<"]">>
           \/ /\ ~(n < 2)
              /\ \E m \in G[n - 2].members : v = <<"{">> \o m.text \o <<"}">>
      /\ \A m : m \in G[n].singles <=>
           ~(n < 3) /\ \E k \in Strings : \E v \in G[n - 2].values : m = Member(k, v)
  BY <1>2, <1>4, <1>6, Zenon
<1>8. \A x : x \in G[n].lists <=>
        \/ n = 0 /\ x = << >>
        \/ n # 0 /\ x \in G[n].values
        \/ n # 0 /\ \E k \in 1 .. n - 2 : \E v \in G[k].values :
                      \E y \in G[n - 1 - k].lists : x = v \o <<",">> \o y
  <2> TAKE x
  <2>1. x \in G[n].lists <=>
          (n = 0 /\ x = << >>) \/ (n # 0 /\ x \in values) \/ (n # 0 /\ x \in longer)
    BY <1>6, Zenon
  <2> QED
    BY <1>3, <1>6, <2>1, Zenon
<1>9. \A m : m \in G[n].members <=>
        \/ n = 0 /\ m = [keys |-> {}, text |-> << >>]
        \/ n # 0 /\ m \in G[n].singles
        \/ n # 0 /\ \E k \in 3 .. n - 2 : \E a \in G[k].singles :
                      m \in Joined(a, G[n - 1 - k].members)
  BY <1>5, <1>6
<1> QED
  BY <1>7, <1>8, <1>9, Zenon DEF G

(* The phrases of a length.                                                *)
Vs(n) == Grammar[n].values
(* Its lists, its single members and its members.                          *)
Ls(n) == Grammar[n].lists
Ss(n) == Grammar[n].singles
Ms(n) == Grammar[n].members

(* Marks by name. *)
LB == "["
RB == "]"
LC == "{"
RC == "}"
Comma == ","
Colon == ":"

(* A text of one token.                                                    *)
One(t) == Then(t, << >>)

(* The phrases of a length, by the lengths of their parts.                 *)
LEMMA Forms ==
  ASSUME NEW n \in 0 .. MaxText
  PROVE  /\ \A v : v \in Vs(n) <=>
              \/ n = 1 /\ \E s \in Strings \cup Scalars : v = <<s>>
              \/ ~(n < 2) /\ \E x \in Ls(n - 2) : v = <<LB>> \o x \o <<RB>>
              \/ ~(n < 2) /\ \E m \in Ms(n - 2) : v = <<LC>> \o m.text \o <<RC>>
         /\ \A x : x \in Ls(n) <=>
              \/ n = 0 /\ x = << >>
              \/ n # 0 /\ x \in Vs(n)
              \/ n # 0 /\ \E k \in 1 .. n - 2 : \E v \in Vs(k) :
                            \E y \in Ls(n - 1 - k) : x = v \o <<Comma>> \o y
         /\ \A m : m \in Ss(n) <=>
              ~(n < 3) /\ \E k \in Strings : \E v \in Vs(n - 2) : m = Member(k, v)
         /\ \A m : m \in Ms(n) <=>
              \/ n = 0 /\ m = [keys |-> {}, text |-> << >>]
              \/ n # 0 /\ m \in Ss(n)
              \/ n # 0 /\ \E k \in 3 .. n - 2 : \E a \in Ss(k) :
                            m \in Joined(a, Ms(n - 1 - k))
BY PhraseForms, Zenon DEF Vs, Ls, Ss, Ms, LB, RB, LC, RC, Comma, Colon

(* A member by its key, its value and the members after it.                *)
LEMMA MarksAreTokens ==
  /\ Strings \subseteq Tokens /\ Scalars \subseteq Tokens
  /\ LB \in Tokens /\ RB \in Tokens /\ LC \in Tokens /\ RC \in Tokens
  /\ Comma \in Tokens /\ Colon \in Tokens /\ End \in Tokens
BY Zenon DEF Tokens, Marks, LB, RB, LC, RC, Comma, Colon

(* The text of one token.                                                  *)
LEMMA OneParts ==
  ASSUME NEW t \in Tokens
  PROVE  One(t) = <<t>> /\ One(t) \in Texts /\ Len(One(t)) = 1
<1>1. <<t>> \in Texts
  BY DEF Texts
<1>2. <<t>> \o << >> = <<t>>
  BY <1>1, ConcatTexts
<1>3. << >> \in Texts /\ Len(<< >>) = 0
  BY EmptyText
<1>4. Then(t, << >>) \in Texts /\ Len(Then(t, << >>)) = 1 + Len(<< >>)
  BY <1>3, ThenParts
<1> QED
  BY <1>2, <1>3, <1>4 DEF Then, One

(* A bracketed text,                                                       *)
LEMMA Bracketed ==
  ASSUME NEW a \in Texts, NEW t \in Tokens, NEW u \in Tokens
  PROVE  /\ <<t>> \o a \o <<u>> = Then(t, a \o One(u))
         /\ a \o One(u) \in Texts
         /\ Then(t, a \o One(u)) \in Texts
         /\ Len(Then(t, a \o One(u))) = Len(a) + 2
<1>1. <<t>> \in Texts /\ One(u) = <<u>> /\ One(u) \in Texts /\ Len(One(u)) = 1
  BY OneParts DEF Texts
<1>3. (<<t>> \o a) \o One(u) = <<t>> \o (a \o One(u))
  BY <1>1, ConcatThree
<1> DEFINE w == a \o One(u)
<1>4. w \in Texts /\ Len(w) = Len(a) + 1 /\ Len(a) \in Nat
  BY <1>1, ConcatTexts
<1> HIDE DEF w
<1>5. Then(t, w) \in Texts /\ Len(Then(t, w)) = 1 + Len(w)
  BY <1>4, ThenParts
<1>6. Len(Then(t, w)) = Len(a) + 2
  BY <1>4, <1>5
<1> QED
  BY <1>1, <1>3, <1>4, <1>5, <1>6 DEF Then, w

(* two texts with a separator between them,                                *)
LEMMA Separated ==
  ASSUME NEW a \in Texts, NEW b \in Texts, NEW t \in Tokens
  PROVE  /\ a \o <<t>> \o b = a \o Then(t, b)
         /\ Then(t, b) \in Texts
         /\ a \o Then(t, b) \in Texts
         /\ Len(a \o Then(t, b)) = Len(a) + Len(b) + 1
<1>1. <<t>> \in Texts
  BY DEF Texts
<1>2. (a \o <<t>>) \o b = a \o (<<t>> \o b)
  BY <1>1, ConcatThree
<1> DEFINE w == Then(t, b)
<1>3. w \in Texts /\ Len(w) = 1 + Len(b)
  BY ThenParts
<1> HIDE DEF w
<1>4. a \o w \in Texts /\ Len(a \o w) = Len(a) + Len(w) /\ Len(a) \in Nat
      /\ Len(b) \in Nat
  BY <1>3, ConcatTexts
<1>5. Len(a \o w) = Len(a) + Len(b) + 1
  BY <1>3, <1>4
<1> QED
  BY <1>2, <1>3, <1>4, <1>5 DEF Then, w

(* and a text behind a key and its colon, each with its length.            *)
LEMMA KeyBefore ==
  ASSUME NEW a \in Texts, NEW t \in Tokens, NEW u \in Tokens
  PROVE  /\ <<t, u>> \o a = Then(t, Then(u, a))
         /\ Then(u, a) \in Texts
         /\ Then(t, Then(u, a)) \in Texts
         /\ Len(Then(t, Then(u, a))) = Len(a) + 2
<1>1. <<t>> \in Texts /\ <<u>> \in Texts
  BY DEF Texts
<1>2. (<<t>> \o <<u>>) \o a = <<t>> \o (<<u>> \o a)
  BY <1>1, ConcatThree
<1>3. <<t>> \o <<u>> = <<t, u>>
  <2>1. /\ <<t>> \in Seq(Tokens) /\ <<u>> \in Seq(Tokens) /\ <<t, u>> \in Seq(Tokens)
        /\ Len(<<t>>) = 1 /\ Len(<<u>>) = 1 /\ Len(<<t, u>>) = 2
        /\ <<t>>[1] = t /\ <<u>>[1] = u /\ <<t, u>>[1] = t /\ <<t, u>>[2] = u
    OBVIOUS
  <2> DEFINE a1 == <<t>>
             a2 == <<u>>
             a3 == <<t, u>>
  <2> HIDE DEF a1, a2, a3
  <2>2. /\ a1 \in Seq(Tokens) /\ a2 \in Seq(Tokens) /\ a3 \in Seq(Tokens)
        /\ Len(a1) = 1 /\ Len(a2) = 1 /\ Len(a3) = 2
        /\ a1[1] = t /\ a2[1] = u /\ a3[1] = t /\ a3[2] = u
    BY <2>1 DEF a1, a2, a3
  <2>3. /\ a1 \o a2 \in Seq(Tokens) /\ Len(a1 \o a2) = 1 + 1
        /\ \A i \in 1 .. 1 + 1 : (a1 \o a2)[i] = IF i <= 1 THEN a1[i] ELSE a2[i - 1]
    <3>1. \A s1, s2 \in Seq(Tokens) :
            /\ s1 \o s2 \in Seq(Tokens) /\ Len(s1 \o s2) = Len(s1) + Len(s2)
            /\ \A i \in 1 .. Len(s1) + Len(s2) :
                 (s1 \o s2)[i] = IF i <= Len(s1) THEN s1[i] ELSE s2[i - Len(s1)]
      BY ConcatProperties
    <3>2. /\ a1 \o a2 \in Seq(Tokens) /\ Len(a1 \o a2) = Len(a1) + Len(a2)
          /\ \A i \in 1 .. Len(a1) + Len(a2) :
               (a1 \o a2)[i] = IF i <= Len(a1) THEN a1[i] ELSE a2[i - Len(a1)]
      BY <2>2, <3>1
    <3>3. Len(a1) = 1 /\ Len(a2) = 1
      BY <2>2
    <3> QED
      BY <3>2, <3>3
  <2>4. (a1 \o a2)[1] = t /\ (a1 \o a2)[2] = u
    BY <2>2, <2>3
  <2>5. \A i \in 1 .. Len(a3) : (a1 \o a2)[i] = a3[i]
    <3> TAKE i \in 1 .. Len(a3)
    <3>1. i = 1 \/ i = 2
      BY <2>2
    <3> QED
      BY <2>2, <2>4, <3>1
  <2>6. a1 \o a2 = a3
    BY <2>2, <2>3, <2>5, SeqEqual
  <2> QED
    BY <2>6 DEF a1, a2, a3
<1> DEFINE w == Then(u, a)
<1>4. w \in Texts /\ Len(w) = 1 + Len(a) /\ Len(a) \in Nat
  BY ThenParts
<1>5. Then(t, w) \in Texts /\ Len(Then(t, w)) = 1 + Len(w)
  <2> HIDE DEF w
  <2> QED
    BY <1>4, ThenParts
<1>6. Len(Then(t, w)) = Len(a) + 2
  <2> HIDE DEF w
  <2> QED
    BY <1>4, <1>5
<1> QED
  BY <1>2, <1>3, <1>4, <1>5, <1>6 DEF Then

(* Every phrase is a text of its length.                                   *)
IsMember(m) ==
  m = [keys |-> m.keys, text |-> m.text] /\ m.keys \subseteq Strings /\ m.text \in Texts
(* Every phrase of a length is a text of that length.                      *)
Sized(n) ==
  /\ \A v \in Vs(n) : v \in Texts /\ Len(v) = n /\ n # 0
  /\ \A x \in Ls(n) : x \in Texts /\ Len(x) = n
  /\ \A m \in Ss(n) : IsMember(m) /\ Len(m.text) = n /\ n # 0
  /\ \A m \in Ms(n) : IsMember(m) /\ Len(m.text) = n

(* By the least length that would break it: the phrases it is built from   *)
(* are shorter.                                                            *)
LEMMA PhrasesAreSized == \A n \in 0 .. MaxText : Sized(n)
<1> DEFINE S == {n \in 0 .. MaxText : ~Sized(n)}
<1> SUFFICES ASSUME S # {} PROVE FALSE
  OBVIOUS
<1>0. MaxText \in Nat /\ S \in SUBSET (0 .. MaxText)
  BY ParserConstants
<1> HIDE DEF S
<1>1. PICK n \in 0 .. MaxText : n \in S /\ \A m \in 0 .. n - 1 : m \notin S
  BY <1>0, Shortest
<1>n. n \in Nat
  BY <1>0, <1>1
<1>2. \A m \in 0 .. n - 1 : Sized(m)
  <2> TAKE m \in 0 .. n - 1
  <2>1. m \in 0 .. MaxText /\ m \notin S
    BY <1>0, <1>1
  <2> QED
    BY <2>1 DEF S
<1>3. \A v \in Vs(n) : v \in Texts /\ Len(v) = n /\ n # 0
  <2> TAKE v \in Vs(n)
  <2>1. CASE n = 1 /\ \E s \in Strings \cup Scalars : v = <<s>>
    <3>1. PICK s \in Strings \cup Scalars : v = <<s>>
      BY <2>1
    <3>2. s \in Tokens
      BY MarksAreTokens
    <3>3. <<s>> \in Seq(Tokens) /\ Len(<<s>>) = 1
      BY <3>2
    <3> QED
      BY <2>1, <3>1, <3>3 DEF Texts
  <2>2. ASSUME ~(n < 2), NEW x \in Ls(n - 2),
               v = <<LB>> \o x \o <<RB>>
        PROVE  v \in Texts /\ Len(v) = n /\ n # 0
    <3>1. n - 2 \in 0 .. n - 1
      BY <1>n, <2>2
    <3>2. x \in Texts /\ Len(x) = n - 2
      BY <1>2, <3>1 DEF Sized
    <3>3. LB \in Tokens /\ RB \in Tokens
      BY MarksAreTokens
    <3>4. v = Then(LB, x \o One(RB)) /\ v \in Texts /\ Len(v) = Len(x) + 2
      BY <2>2, <3>2, <3>3, Bracketed, ZenonT(60)
    <3>0. ~(n < 2)
      BY <2>2, Zenon
    <3>5. v \in Texts /\ Len(v) = Len(x) + 2
      BY <3>4, Zenon
    <3> QED
      BY <1>n, <3>0, <3>2, <3>5
  <2>3. ASSUME ~(n < 2), NEW m \in Ms(n - 2),
               v = <<LC>> \o m.text \o <<RC>>
        PROVE  v \in Texts /\ Len(v) = n /\ n # 0
    <3> DEFINE x == m.text
    <3>1. n - 2 \in 0 .. n - 1
      BY <1>n, <2>3
    <3>2. x \in Texts /\ Len(x) = n - 2
      BY <1>2, <3>1 DEF Sized, IsMember
    <3>3. LC \in Tokens /\ RC \in Tokens
      BY MarksAreTokens
    <3>a. v = <<LC>> \o x \o <<RC>>
      BY <2>3
    <3> HIDE DEF x
    <3>4. v = Then(LC, x \o One(RC)) /\ v \in Texts /\ Len(v) = Len(x) + 2
      BY <3>a, <3>2, <3>3, Bracketed, ZenonT(60)
    <3>0. ~(n < 2)
      BY <2>3, Zenon
    <3>5. v \in Texts /\ Len(v) = Len(x) + 2
      BY <3>4, Zenon
    <3> QED
      BY <1>n, <3>0, <3>2, <3>5
  <2> QED
    BY <1>1, <2>1, <2>2, <2>3, Forms
<1>4. \A x \in Ls(n) : x \in Texts /\ Len(x) = n
  <2> TAKE x \in Ls(n)
  <2>1. CASE n = 0 /\ x = << >>
    BY <2>1, EmptyText
  <2>2. CASE n # 0 /\ x \in Vs(n)
    BY <2>2, <1>3
  <2>3. ASSUME NEW k \in 1 .. n - 2, NEW v \in Vs(k),
               NEW y \in Ls(n - 1 - k), x = v \o <<Comma>> \o y
        PROVE  x \in Texts /\ Len(x) = n
    <3>1. k \in 0 .. n - 1 /\ n - 1 - k \in 0 .. n - 1
      BY <1>n
    <3>2. v \in Texts /\ Len(v) = k /\ y \in Texts /\ Len(y) = n - 1 - k
      BY <1>2, <3>1 DEF Sized
    <3>3. Comma \in Tokens
      BY MarksAreTokens
    <3>4. x \in Texts /\ Len(x) = Len(v) + Len(y) + 1
      BY <2>3, <3>2, <3>3, Separated, ZenonT(60)
    <3> QED
      BY <1>n, <3>2, <3>4
  <2>4. \/ n = 0 /\ x = << >>
        \/ n # 0 /\ x \in Vs(n)
        \/ n # 0 /\ \E k \in 1 .. n - 2 : \E v \in Vs(k) :
                      \E y \in Ls(n - 1 - k) : x = v \o <<Comma>> \o y
    BY Forms, Zenon
  <2> QED
    BY <2>1, <2>2, <2>3, <2>4, Zenon
<1>5. \A m \in Ss(n) : IsMember(m) /\ Len(m.text) = n /\ n # 0
  <2> TAKE m \in Ss(n)
  <2>1. ~(n < 3) /\ \E k \in Strings : \E v \in Vs(n - 2) : m = Member(k, v)
    BY <1>1, Forms
  <2>2. PICK k \in Strings, v \in Vs(n - 2) : m = Member(k, v)
    BY <2>1
  <2>3. n - 2 \in 0 .. n - 1
    BY <1>n, <2>1
  <2>4. v \in Texts /\ Len(v) = n - 2
    BY <1>2, <2>3 DEF Sized
  <2>5. k \in Tokens /\ Colon \in Tokens
    BY MarksAreTokens
  <2>6. m = [keys |-> {k}, text |-> <<k, Colon>> \o v]
    BY <2>2, Zenon DEF Member, Colon
  <2>7. /\ <<k, Colon>> \o v = Then(k, Then(Colon, v))
        /\ Then(k, Then(Colon, v)) \in Texts
        /\ Len(Then(k, Then(Colon, v))) = Len(v) + 2
    BY <2>4, <2>5, KeyBefore
  <2>10. m.keys = {k} /\ m.text = Then(k, Then(Colon, v)) /\
         m = [keys |-> m.keys, text |-> m.text]
    BY <2>6, <2>7
  <2>11. Len(m.text) = n /\ n # 0
    BY <1>n, <2>1, <2>4, <2>7, <2>10
  <2> QED
    BY <2>7, <2>10, <2>11 DEF IsMember
<1>6. \A m \in Ms(n) : IsMember(m) /\ Len(m.text) = n
  <2> TAKE m \in Ms(n)
  <2>1. CASE n = 0 /\ m = [keys |-> {}, text |-> << >>]
    <3>1. m.keys = {} /\ m.text = << >> /\ m = [keys |-> m.keys, text |-> m.text]
      BY <2>1
    <3> QED
      BY <2>1, <3>1, EmptyText DEF IsMember
  <2>2. CASE n # 0 /\ m \in Ss(n)
    BY <2>2, <1>5
  <2>3. ASSUME NEW k \in 3 .. n - 2, NEW a \in Ss(k),
               m \in Joined(a, Ms(n - 1 - k))
        PROVE  IsMember(m) /\ Len(m.text) = n
    <3>1. k \in 0 .. n - 1 /\ n - 1 - k \in 0 .. n - 1
      BY <1>n
    <3>2. PICK b \in Ms(n - 1 - k) :
            m = [keys |-> a.keys \cup b.keys, text |-> a.text \o <<Comma>> \o b.text]
      BY <2>3, Zenon DEF Joined, Comma
    <3>3. /\ a.text \in Texts /\ Len(a.text) = k /\ a.keys \subseteq Strings
          /\ b.text \in Texts /\ Len(b.text) = n - 1 - k /\ b.keys \subseteq Strings
      BY <1>2, <3>1 DEF Sized, IsMember
    <3>4. Comma \in Tokens
      BY MarksAreTokens
    <3> DEFINE v == a.text
               y == b.text
    <3>5. m.text = v \o <<Comma>> \o y /\ m.keys = a.keys \cup b.keys /\
          m = [keys |-> m.keys, text |-> m.text]
      BY <3>2
    <3>6. v \in Texts /\ y \in Texts /\ Len(v) = k /\ Len(y) = n - 1 - k
      BY <3>3
    <3>x. m.text = (v \o <<Comma>>) \o y
      BY <3>5
    <3> HIDE DEF v, y
    <3>y. /\ (v \o <<Comma>>) \o y = v \o Then(Comma, y)
          /\ v \o Then(Comma, y) \in Texts
          /\ Len(v \o Then(Comma, y)) = Len(v) + Len(y) + 1
      BY <3>4, <3>6, Separated
    <3>9. m.text \in Texts /\ Len(m.text) = Len(v) + Len(y) + 1
      BY <3>x, <3>y, Zenon
    <3>10. Len(m.text) = n
      BY <1>n, <3>6, <3>9
    <3> QED
      BY <3>3, <3>5, <3>9, <3>10 DEF IsMember
  <2> QED
    BY <1>1, <2>1, <2>2, <2>3, Forms
<1>7. Sized(n)
  BY <1>3, <1>4, <1>5, <1>6 DEF Sized
<1> QED
  BY <1>1, <1>7 DEF S

-----------------------------------------------------------------------------
(* The phrases of every length, by their forms.                            *)
Values  == UNION {Vs(n) : n \in 0 .. MaxText}
(* Lists and members that are not empty, and the member texts they are     *)
(* made of.                                                                *)
Lists   == UNION {Ls(n) : n \in 1 .. MaxText}
Members == UNION {Ms(n) : n \in 1 .. MaxText}
Nothing == [keys |-> {}, text |-> << >>]
Pair(k, v) == [keys |-> {k}, text |-> Then(k, Then(Colon, v))]
Pairs(k, v, m) ==
  [keys |-> {k} \cup m.keys, text |-> Then(k, Then(Colon, v \o Then(Comma, m.text)))]

(* Every phrase is a text among the phrases of its own length.             *)
LEMMA AreTexts ==
  /\ \A v \in Values : v \in Texts /\ Len(v) \in 1 .. MaxText /\ v \in Vs(Len(v))
  /\ \A x \in Lists : x \in Texts /\ Len(x) \in 1 .. MaxText /\ x \in Ls(Len(x))
  /\ \A m \in Members : /\ IsMember(m) /\ Len(m.text) \in 1 .. MaxText
                        /\ m \in Ms(Len(m.text))
<1>0. MaxText \in Nat
  BY ParserConstants
<1>1. ASSUME NEW v \in Values
      PROVE  v \in Texts /\ Len(v) \in 1 .. MaxText /\ v \in Vs(Len(v))
  <2>1. PICK n \in 0 .. MaxText : v \in Vs(n)
    BY DEF Values
  <2>2. v \in Texts /\ Len(v) = n /\ n # 0
    BY <2>1, PhrasesAreSized DEF Sized
  <2> QED
    BY <1>0, <2>1, <2>2
<1>2. ASSUME NEW x \in Lists
      PROVE  x \in Texts /\ Len(x) \in 1 .. MaxText /\ x \in Ls(Len(x))
  <2>1. PICK n \in 1 .. MaxText : x \in Ls(n)
    BY DEF Lists
  <2>0. n \in 0 .. MaxText
    BY <1>0
  <2>2. x \in Texts /\ Len(x) = n
    BY <2>0, <2>1, PhrasesAreSized DEF Sized
  <2> QED
    BY <2>1, <2>2
<1>3. ASSUME NEW m \in Members
      PROVE  IsMember(m) /\ Len(m.text) \in 1 .. MaxText /\ m \in Ms(Len(m.text))
  <2>1. PICK n \in 1 .. MaxText : m \in Ms(n)
    BY DEF Members
  <2>0. n \in 0 .. MaxText
    BY <1>0
  <2>2. IsMember(m) /\ Len(m.text) = n
    BY <2>0, <2>1, PhrasesAreSized DEF Sized
  <2> QED
    BY <2>1, <2>2
<1> QED
  BY <1>1, <1>2, <1>3

(* What stands between brackets. *)
LEMMA Inside ==
  /\ \A x : (\E n \in 0 .. MaxText : x \in Ls(n)) <=> x = << >> \/ x \in Lists
  /\ \A m : (\E n \in 0 .. MaxText : m \in Ms(n)) <=> m = Nothing \/ m \in Members
  /\ \A x : x \in Ls(0) <=> x = << >>
  /\ \A m : m \in Ms(0) <=> m = Nothing
<1>0. MaxText \in Nat /\ 0 \in 0 .. MaxText
  BY ParserConstants
<1>1. \A x : x \in Ls(0) <=> x = << >>
  <2> TAKE x
  <2> QED
    BY <1>0, Forms
<1>2. \A m : m \in Ms(0) <=> m = Nothing
  <2> TAKE m
  <2> QED
    BY <1>0, Forms DEF Nothing
<1>3. \A n \in 0 .. MaxText : n = 0 \/ n \in 1 .. MaxText
  BY <1>0
<1>4. \A n \in 1 .. MaxText : n \in 0 .. MaxText
  BY <1>0
<1>5. ASSUME NEW x
      PROVE  (\E n \in 0 .. MaxText : x \in Ls(n)) <=> x = << >> \/ x \in Lists
  <2>1. x \in Lists <=> \E n \in 1 .. MaxText : x \in Ls(n)
    BY DEF Lists
  <2> QED
    BY <1>0, <1>1, <1>3, <1>4, <2>1, Zenon
<1>6. ASSUME NEW m
      PROVE  (\E n \in 0 .. MaxText : m \in Ms(n)) <=> m = Nothing \/ m \in Members
  <2>1. m \in Members <=> \E n \in 1 .. MaxText : m \in Ms(n)
    BY DEF Members
  <2> QED
    BY <1>0, <1>2, <1>3, <1>4, <2>1, Zenon
<1> QED
  BY <1>1, <1>2, <1>5, <1>6

(* A value of a token, and a value in brackets. *)
LEMMA ValueOfToken ==
  ASSUME NEW s \in Strings \cup Scalars, 1 <= MaxText
  PROVE  One(s) \in Values
<1>1. MaxText \in Nat /\ 1 \in 0 .. MaxText
  BY ParserConstants
<1>2. s \in Tokens
  BY MarksAreTokens
<1>3. <<s>> \in Vs(1)
  BY <1>1, Forms
<1> QED
  BY <1>1, <1>2, <1>3, OneParts DEF Values

(* A list in brackets, or nothing in brackets, is a value,                 *)
LEMMA ValueOfList ==
  ASSUME NEW x, x = << >> \/ x \in Lists, Len(x) + 2 <= MaxText
  PROVE  x \in Texts /\ Then(LB, x \o One(RB)) \in Values
<1>0. MaxText \in Nat
  BY ParserConstants
<1>1. PICK n \in 0 .. MaxText : x \in Ls(n)
  BY Inside
<1>2. x \in Texts /\ Len(x) = n
  BY <1>1, PhrasesAreSized DEF Sized
<1>3. n + 2 \in 0 .. MaxText /\ ~(n + 2 < 2) /\ (n + 2) - 2 = n
  BY <1>0, <1>2
<1>4. <<LB>> \o x \o <<RB>> = Then(LB, x \o One(RB))
  BY <1>2, MarksAreTokens, Bracketed
<1>5. <<LB>> \o x \o <<RB>> \in Vs(n + 2)
  <2>1. \E y \in Ls((n + 2) - 2) : <<LB>> \o x \o <<RB>> = <<LB>> \o y \o <<RB>>
    BY <1>1, <1>3
  <2> QED
    BY <1>3, <2>1, Forms, Zenon
<1> QED
  BY <1>2, <1>3, <1>4, <1>5 DEF Values

(* and so is an object.                                                    *)
LEMMA ValueOfMembers ==
  ASSUME NEW m, m = Nothing \/ m \in Members, Len(m.text) + 2 <= MaxText
  PROVE  m.text \in Texts /\ Then(LC, m.text \o One(RC)) \in Values
<1>0. MaxText \in Nat
  BY ParserConstants
<1>1. PICK n \in 0 .. MaxText : m \in Ms(n)
  BY Inside
<1>2. m.text \in Texts /\ Len(m.text) = n
  BY <1>1, PhrasesAreSized DEF Sized, IsMember
<1>3. n + 2 \in 0 .. MaxText /\ ~(n + 2 < 2) /\ (n + 2) - 2 = n
  BY <1>0, <1>2
<1>4. <<LC>> \o m.text \o <<RC>> = Then(LC, m.text \o One(RC))
  BY <1>2, MarksAreTokens, Bracketed
<1>5. <<LC>> \o m.text \o <<RC>> \in Vs(n + 2)
  <2>1. \E y \in Ms((n + 2) - 2) : <<LC>> \o m.text \o <<RC>> = <<LC>> \o y.text \o <<RC>>
    BY <1>1, <1>3
  <2> QED
    BY <1>3, <2>1, Forms, Zenon
<1> QED
  BY <1>2, <1>3, <1>4, <1>5 DEF Values

(* There are no others. *)
LEMMA ValueForm ==
  ASSUME NEW v \in Values
  PROVE  \/ \E s \in Strings \cup Scalars : v = One(s)
         \/ \E x : /\ x = << >> \/ x \in Lists
                   /\ x \in Texts /\ v = Then(LB, x \o One(RB))
         \/ \E m : /\ m = Nothing \/ m \in Members
                   /\ m.text \in Texts /\ v = Then(LC, m.text \o One(RC))
<1>0. MaxText \in Nat
  BY ParserConstants
<1>1. PICK n \in 0 .. MaxText : v \in Vs(n)
  BY DEF Values
<1>2. \/ n = 1 /\ \E s \in Strings \cup Scalars : v = <<s>>
      \/ ~(n < 2) /\ \E x \in Ls(n - 2) : v = <<LB>> \o x \o <<RB>>
      \/ ~(n < 2) /\ \E m \in Ms(n - 2) : v = <<LC>> \o m.text \o <<RC>>
  <2>1. \A u : u \in Vs(n) <=>
          \/ n = 1 /\ \E s \in Strings \cup Scalars : u = <<s>>
          \/ ~(n < 2) /\ \E x \in Ls(n - 2) : u = <<LB>> \o x \o <<RB>>
          \/ ~(n < 2) /\ \E m \in Ms(n - 2) : u = <<LC>> \o m.text \o <<RC>>
    BY Forms
  <2> QED
    BY <1>1, <2>1, Zenon
<1>3. ASSUME NEW s \in Strings \cup Scalars, v = <<s>>
      PROVE  v = One(s)
  <2>1. s \in Tokens
    BY MarksAreTokens
  <2> QED
    BY <1>3, <2>1, OneParts
<1>4. ~(n < 2) => n - 2 \in 0 .. MaxText
  BY <1>0
<1>5. ASSUME ~(n < 2), NEW x \in Ls(n - 2), v = <<LB>> \o x \o <<RB>>
      PROVE  /\ x = << >> \/ x \in Lists
             /\ x \in Texts /\ v = Then(LB, x \o One(RB))
  <2>1. n - 2 \in 0 .. MaxText
    BY <1>4, <1>5, Zenon
  <2>2. x = << >> \/ x \in Lists
    BY <2>1, Inside, Zenon
  <2>3. x \in Texts
    BY <2>1, PhrasesAreSized, Zenon DEF Sized
  <2>4. <<LB>> \o x \o <<RB>> = Then(LB, x \o One(RB))
    BY <2>3, MarksAreTokens, Bracketed
  <2> QED
    BY <1>5, <2>2, <2>3, <2>4, Zenon
<1>6. ASSUME ~(n < 2), NEW m \in Ms(n - 2), v = <<LC>> \o m.text \o <<RC>>
      PROVE  /\ m = Nothing \/ m \in Members
             /\ m.text \in Texts /\ v = Then(LC, m.text \o One(RC))
  <2>1. n - 2 \in 0 .. MaxText
    BY <1>4, <1>6, Zenon
  <2>2. m = Nothing \/ m \in Members
    BY <2>1, Inside, Zenon
  <2>3. m.text \in Texts
    BY <2>1, PhrasesAreSized, Zenon DEF Sized, IsMember
  <2>4. <<LC>> \o m.text \o <<RC>> = Then(LC, m.text \o One(RC))
    BY <2>3, MarksAreTokens, Bracketed
  <2> QED
    BY <1>6, <2>2, <2>3, <2>4, Zenon
<1> QED
  BY <1>2, <1>3, <1>5, <1>6, Zenon

(* Lists that are not empty. *)
LEMMA ListForm ==
  ASSUME NEW x
  PROVE  x \in Lists <=>
           \/ x \in Values
           \/ \E v \in Values, y \in Lists : /\ x = v \o Then(Comma, y)
                                             /\ Len(x) <= MaxText
<1>0. MaxText \in Nat
  BY ParserConstants
<1>1. ASSUME NEW n \in 1 .. MaxText, x \in Ls(n)
      PROVE  \/ x \in Values
             \/ \E v \in Values, y \in Lists : /\ x = v \o Then(Comma, y)
                                               /\ Len(x) <= MaxText
  <2>0. n \in 0 .. MaxText /\ n # 0
    BY <1>0
  <2>1. \/ x \in Vs(n)
        \/ \E k \in 1 .. n - 2 : \E v \in Vs(k) :
             \E y \in Ls(n - 1 - k) : x = v \o <<Comma>> \o y
    BY <1>1, <2>0, Forms, Zenon
  <2>2. x \in Vs(n) => x \in Values
    BY <2>0 DEF Values
  <2>3. ASSUME NEW k \in 1 .. n - 2, NEW v \in Vs(k), NEW y \in Ls(n - 1 - k),
               x = v \o <<Comma>> \o y
        PROVE  /\ v \in Values /\ y \in Lists
               /\ x = v \o Then(Comma, y) /\ Len(x) <= MaxText
    <3>1. /\ k \in 0 .. MaxText /\ n - 1 - k \in 1 .. MaxText
          /\ n - 1 - k \in 0 .. MaxText
      BY <1>0
    <3>2. v \in Values /\ y \in Lists
      BY <3>1 DEF Values, Lists
    <3>3. v \in Texts /\ y \in Texts
      BY <3>2, AreTexts
    <3>4. v \o <<Comma>> \o y = v \o Then(Comma, y)
      BY <3>3, MarksAreTokens, Separated
    <3>5. Len(x) = n
      BY <1>1, <2>0, PhrasesAreSized, Zenon DEF Sized
    <3>6. Len(x) <= MaxText
      BY <1>0, <3>5
    <3> QED
      BY <2>3, <3>2, <3>4, <3>6, Zenon
  <2> QED
    BY <2>1, <2>2, <2>3, Zenon
<1>2. ASSUME x \in Values PROVE x \in Lists
  <2>1. PICK n \in 1 .. MaxText : x \in Vs(n)
    BY <1>2, AreTexts
  <2>2. n \in 0 .. MaxText /\ n # 0
    BY <1>0
  <2>3. x \in Ls(n)
    BY <2>1, <2>2, Forms, Zenon
  <2> QED
    BY <2>3 DEF Lists
<1>3. ASSUME NEW v \in Values, NEW y \in Lists, x = v \o Then(Comma, y),
             Len(x) <= MaxText
      PROVE  x \in Lists
  <2> DEFINE k == Len(v)
             n == Len(v) + Len(y) + 1
  <2>1. /\ v \in Texts /\ k \in 1 .. MaxText /\ v \in Vs(k)
        /\ y \in Texts /\ Len(y) \in 1 .. MaxText /\ y \in Ls(Len(y))
    BY AreTexts
  <2>2. v \o <<Comma>> \o y = v \o Then(Comma, y) /\ Len(x) = n
    BY <1>3, <2>1, MarksAreTokens, Separated
  <2>3. /\ n \in 1 .. MaxText /\ n \in 0 .. MaxText /\ n # 0
        /\ k \in 1 .. n - 2 /\ n - 1 - k = Len(y)
    BY <1>0, <1>3, <2>1, <2>2
  <2> HIDE DEF k, n
  <2>4. x = v \o <<Comma>> \o y
    BY <1>3, <2>2, Zenon
  <2>5. y \in Ls(n - 1 - k)
    BY <2>1, <2>3
  <2>6. x \in Ls(n)
    BY <2>1, <2>3, <2>4, <2>5, Forms, Zenon
  <2> QED
    BY <2>3, <2>6 DEF Lists
<1>4. x \in Lists => \E n \in 1 .. MaxText : x \in Ls(n)
  BY DEF Lists
<1> QED
  BY <1>1, <1>2, <1>3, <1>4, Zenon

-----------------------------------------------------------------------------

(* A single member is a key with a value,                                  *)
LEMMA SingleForm ==
  ASSUME NEW n \in 0 .. MaxText, NEW m
  PROVE  m \in Ss(n) <=>
           ~(n < 3) /\ \E k \in Strings : \E v \in Vs(n - 2) : m = Pair(k, v)
<1>0. MaxText \in Nat
  BY ParserConstants
<1>1. m \in Ss(n) <=>
        ~(n < 3) /\ \E k \in Strings : \E v \in Vs(n - 2) : m = Member(k, v)
  BY Forms
<1>2. ASSUME ~(n < 3), NEW k \in Strings, NEW v \in Vs(n - 2)
      PROVE  Member(k, v) = Pair(k, v)
  <2>1. n - 2 \in 0 .. MaxText
    BY <1>0, <1>2
  <2>2. v \in Texts
    BY <2>1, PhrasesAreSized, Zenon DEF Sized
  <2>3. <<k, Colon>> \o v = Then(k, Then(Colon, v))
    BY <2>2, MarksAreTokens, KeyBefore
  <2> QED
    BY <2>3, Zenon DEF Member, Pair, Colon
<1> QED
  BY <1>1, <1>2, Zenon

(* and joined to others only under a key they do not use.                  *)
LEMMA JoinedForm ==
  ASSUME NEW k \in Strings, NEW v \in Texts, NEW M, \A b \in M : b.text \in Texts,
         NEW m
  PROVE  m \in Joined(Pair(k, v), M) <=>
           \E b \in M : k \notin b.keys /\ m = Pairs(k, v, b)
<1> DEFINE a == Pair(k, v)
<1>1. m \in Joined(a, M) <=>
        \E b \in M : /\ a.keys \cap b.keys = {}
                     /\ m = [keys |-> a.keys \cup b.keys,
                             text |-> a.text \o <<Comma>> \o b.text]
  BY Zenon DEF Joined, Comma
<1>2. a.keys = {k} /\ a.text = Then(k, Then(Colon, v))
  BY DEF Pair
<1>3. ASSUME NEW b \in M
      PROVE  a.text \o <<Comma>> \o b.text =
               Then(k, Then(Colon, v \o Then(Comma, b.text)))
  <2> DEFINE y == b.text
  <2>1. y \in Texts /\ k \in Tokens /\ Comma \in Tokens /\ Colon \in Tokens
    BY MarksAreTokens
  <2> HIDE DEF y
  <2>2. Then(Colon, v) \in Texts /\ Then(k, Then(Colon, v)) \in Texts
    BY <2>1, KeyBefore
  <2>3. /\ Then(k, Then(Colon, v)) \o <<Comma>> \o y =
             Then(k, Then(Colon, v)) \o Then(Comma, y)
        /\ Then(Comma, y) \in Texts
    BY <2>1, <2>2, Separated
  <2>4. Then(k, Then(Colon, v)) \o Then(Comma, y) =
          Then(k, Then(Colon, v) \o Then(Comma, y))
    BY <2>1, <2>2, <2>3, ThenConcat
  <2>5. Then(Colon, v) \o Then(Comma, y) = Then(Colon, v \o Then(Comma, y))
    BY <2>1, <2>3, ThenConcat
  <2> QED
    BY <1>2, <2>3, <2>4, <2>5, Zenon DEF y
<1>4. \A b : {k} \cap b.keys = {} <=> k \notin b.keys
  OBVIOUS
<1> HIDE DEF a
<1>5. ASSUME NEW b \in M
      PROVE  /\ a.keys \cap b.keys = {} <=> k \notin b.keys
             /\ [keys |-> a.keys \cup b.keys,
                 text |-> a.text \o <<Comma>> \o b.text] = Pairs(k, v, b)
  BY <1>2, <1>3, <1>4, Zenon DEF Pairs
<1>6. m \in Joined(a, M) <=>
        \E b \in M : k \notin b.keys /\ m = Pairs(k, v, b)
  BY <1>1, <1>5, Zenon
<1> QED
  BY <1>6, Zenon DEF a

(* Members that are not empty. *)
LEMMA MemberForm ==
  ASSUME NEW m
  PROVE  m \in Members <=>
           /\ Len(m.text) <= MaxText
           /\ \E k \in Strings, v \in Values :
                \/ m = Pair(k, v)
                \/ \E b \in Members : k \notin b.keys /\ m = Pairs(k, v, b)
<1>0. MaxText \in Nat
  BY ParserConstants
<1>1. ASSUME NEW n \in 1 .. MaxText, m \in Ms(n)
      PROVE  /\ Len(m.text) <= MaxText
             /\ \E k \in Strings, v \in Values :
                  \/ m = Pair(k, v)
                  \/ \E b \in Members : k \notin b.keys /\ m = Pairs(k, v, b)
  <2>0. n \in 0 .. MaxText /\ n # 0
    BY <1>0
  <2>1. Len(m.text) = n
    BY <1>1, <2>0, PhrasesAreSized, Zenon DEF Sized
  <2>2. m \in Ss(n) \/ \E k \in 3 .. n - 2 : \E a \in Ss(k) :
                         m \in Joined(a, Ms(n - 1 - k))
    BY <1>1, <2>0, Forms, Zenon
  <2>3. ASSUME NEW j \in 0 .. MaxText, NEW a \in Ss(j)
        PROVE  \E k \in Strings, v \in Values : a = Pair(k, v)
    <3>1. ~(j < 3) /\ \E k \in Strings : \E v \in Vs(j - 2) : a = Pair(k, v)
      BY SingleForm
    <3>2. j - 2 \in 0 .. MaxText
      BY <1>0, <3>1
    <3>3. \A v \in Vs(j - 2) : v \in Values
      BY <3>2, Zenon DEF Values
    <3> QED
      BY <3>1, <3>3, Zenon
  <2>4. ASSUME NEW j \in 3 .. n - 2, NEW a \in Ss(j), m \in Joined(a, Ms(n - 1 - j))
        PROVE  \E k \in Strings, v \in Values :
                 \E b \in Members : k \notin b.keys /\ m = Pairs(k, v, b)
    <3>1. j \in 0 .. MaxText /\ n - 1 - j \in 1 .. MaxText /\ n - 1 - j \in 0 .. MaxText
      BY <1>0
    <3>2. PICK k \in Strings, v \in Values : a = Pair(k, v)
      BY <2>3, <3>1
    <3>3. v \in Texts /\ \A b \in Ms(n - 1 - j) : b.text \in Texts
      BY <3>1, AreTexts, PhrasesAreSized DEF Sized, IsMember
    <3>4. m \in Joined(Pair(k, v), Ms(n - 1 - j))
      BY <2>4, <3>2, Zenon
    <3>5. PICK b \in Ms(n - 1 - j) : k \notin b.keys /\ m = Pairs(k, v, b)
      BY <3>3, <3>4, JoinedForm
    <3>6. b \in Members
      BY <3>1, Zenon DEF Members
    <3> QED
      BY <3>5, <3>6, Zenon
  <2>5. Len(m.text) <= MaxText
    BY <1>0, <2>1
  <2> QED
    BY <2>0, <2>2, <2>3, <2>4, <2>5, Zenon
<1>2. ASSUME NEW k \in Strings, NEW v \in Values, m = Pair(k, v),
             Len(m.text) <= MaxText
      PROVE  m \in Members
  <2>1. v \in Texts /\ Len(v) \in 1 .. MaxText /\ v \in Vs(Len(v))
    BY AreTexts
  <2>2. Len(Then(k, Then(Colon, v))) = Len(v) + 2
    BY <2>1, MarksAreTokens, KeyBefore
  <2>3. m.text = Then(k, Then(Colon, v))
    BY <1>2 DEF Pair
  <2> DEFINE n == Len(v) + 2
  <2>4. /\ n \in 1 .. MaxText /\ n \in 0 .. MaxText /\ n # 0 /\ ~(n < 3)
        /\ n - 2 = Len(v)
    BY <1>0, <1>2, <2>1, <2>2, <2>3
  <2> HIDE DEF n
  <2>5. m \in Ss(n)
    BY <1>2, <2>1, <2>4, SingleForm
  <2>6. m \in Ms(n)
    BY <2>4, <2>5, Forms, Zenon
  <2> QED
    BY <2>4, <2>6, Zenon DEF Members
<1>3. ASSUME NEW k \in Strings, NEW v \in Values, NEW b \in Members,
             k \notin b.keys, m = Pairs(k, v, b), Len(m.text) <= MaxText
      PROVE  m \in Members
  <2> DEFINE y == b.text
  <2>1. /\ v \in Texts /\ Len(v) \in 1 .. MaxText /\ v \in Vs(Len(v))
        /\ y \in Texts /\ Len(y) \in 1 .. MaxText /\ b \in Ms(Len(y))
    BY AreTexts DEF IsMember
  <2>2. m.text = Then(k, Then(Colon, v \o Then(Comma, y)))
    BY <1>3 DEF Pairs
  <2> DEFINE j == Len(v) + 2
             l == Len(y)
             n == Len(v) + Len(y) + 3
  <2>x. b \in Ms(l) /\ l \in 1 .. MaxText
    BY <2>1
  <2> HIDE DEF y
  <2>3. Len(v \o Then(Comma, y)) = Len(v) + Len(y) + 1 /\ v \o Then(Comma, y) \in Texts
    BY <2>1, MarksAreTokens, Separated
  <2>4. Len(Then(k, Then(Colon, v \o Then(Comma, y)))) = Len(v \o Then(Comma, y)) + 2
    BY <2>3, MarksAreTokens, KeyBefore
  <2>y. l = Len(y)
    BY DEF y
  <2> HIDE DEF l
  <2>z. Len(m.text) = n
    BY <2>1, <2>2, <2>3, <2>4
  <2>5. /\ n \in 1 .. MaxText /\ n \in 0 .. MaxText /\ n # 0
        /\ j \in 3 .. n - 2 /\ n - 1 - j = l
        /\ j \in 0 .. MaxText /\ ~(j < 3) /\ j - 2 = Len(v)
        /\ l \in 0 .. MaxText
    BY <1>0, <1>3, <2>1, <2>y, <2>z
  <2> HIDE DEF n, j
  <2>6. Pair(k, v) \in Ss(j)
    BY <2>1, <2>5, SingleForm
  <2>7. \A c \in Ms(l) : c.text \in Texts
    BY <2>5, PhrasesAreSized DEF Sized, IsMember
  <2>8. m \in Joined(Pair(k, v), Ms(l))
    BY <1>3, <2>1, <2>x, <2>7, JoinedForm
  <2>9. m \in Joined(Pair(k, v), Ms(n - 1 - j))
    BY <2>5, <2>8, Zenon
  <2>10. m \in Ms(n)
    BY <2>5, <2>6, <2>9, Forms, Zenon
  <2> QED
    BY <2>5, <2>10, Zenon DEF Members
<1>4. m \in Members => \E n \in 1 .. MaxText : m \in Ms(n)
  BY DEF Members
<1> QED
  BY <1>1, <1>2, <1>3, <1>4, Zenon

-----------------------------------------------------------------------------
(* What may still be read, when Q is what may follow what is open: a value *)
(* and the rest, a list or members that are not empty and their bracket.   *)
ValueThen(Q) == {r \in Texts : \E v \in Values, q \in Q : r = v \o q}
(* A list and its bracket, the members of an object that uses none of the  *)
(* keys K and its bracket, and what may follow an element or a member,     *)
(* before a text of Q.                                                     *)
ListThen(Q)  == {r \in Texts : \E x \in Lists, q \in Q : r = x \o Then(RB, q)}
MembersThen(K, Q) ==
  {r \in Texts : \E m \in Members, q \in Q :
                   m.keys \cap K = {} /\ r = m.text \o Then(RC, q)}
AfterElement(Q) ==
  {r \in Texts : \/ \E q \in Q : r = Then(RB, q)
                 \/ \E y \in ListThen(Q) : r = Then(Comma, y)}
AfterMember(K, Q) ==
  {r \in Texts : \/ \E q \in Q : r = Then(RC, q)
                 \/ \E y \in MembersThen(K, Q) : r = Then(Comma, y)}

(* After a key: a colon, and what its value may be followed by.            *)
Valued(V, r) == \E z \in V : r = Then(Colon, z)

(* Something always follows, the end at last, and never a colon.           *)
Follows(Q) ==
  \A q \in Q : q \in Texts /\ Len(q) \in Nat \ {0} /\ q[1] # Colon

(* No mark is another, nor is it a string, a number or a literal.          *)
LEMMA MarksDiffer ==
  /\ LB # RB /\ LB # LC /\ LB # RC /\ LB # Comma /\ LB # Colon /\ LB # End
  /\ RB # LC /\ RB # RC /\ RB # Comma /\ RB # Colon /\ RB # End
  /\ LC # RC /\ LC # Comma /\ LC # Colon /\ LC # End
  /\ RC # Comma /\ RC # Colon /\ RC # End
  /\ Comma # Colon /\ Comma # End /\ Colon # End
  /\ \A s \in Strings \cup Scalars :
       s \notin {LB, RB, LC, RC, Comma, Colon, End}
<1>1. /\ LB # RB /\ LB # LC /\ LB # RC /\ LB # Comma /\ LB # Colon /\ LB # End
      /\ RB # LC /\ RB # RC /\ RB # Comma /\ RB # Colon /\ RB # End
      /\ LC # RC /\ LC # Comma /\ LC # Colon /\ LC # End
      /\ RC # Comma /\ RC # Colon /\ RC # End
      /\ Comma # Colon /\ Comma # End /\ Colon # End
  BY Zenon DEF LB, RB, LC, RC, Comma, Colon, End
<1>2. \A s \in Strings \cup Scalars : s \notin Marks
  BY ParserConstants
<1>3. Marks = {LB, RB, LC, RC, Comma, Colon, End}
  BY Zenon DEF Marks, LB, RB, LC, RC, Comma, Colon
<1> QED
  BY <1>1, <1>2, <1>3

(* What may follow an element or a member is what a continuation may be.   *)
LEMMA FollowsAfter ==
  ASSUME NEW Q, Follows(Q), NEW K
  PROVE  /\ Follows(AfterElement(Q)) /\ Follows(AfterMember(K, Q))
         /\ Follows({One(End)}) /\ Follows({})
<1>1. ASSUME NEW t \in Tokens, NEW a \in Texts
      PROVE  Then(t, a) \in Texts /\ Len(Then(t, a)) \in Nat \ {0} /\ Then(t, a)[1] = t
  <2>1. /\ Then(t, a) \in Texts /\ Len(Then(t, a)) = 1 + Len(a) /\ Len(a) \in Nat
        /\ Then(t, a)[1] = t
    BY ThenParts
  <2> QED
    BY <2>1
<1>2. Follows(AfterElement(Q))
  <2> SUFFICES ASSUME NEW r \in AfterElement(Q)
               PROVE  r \in Texts /\ Len(r) \in Nat \ {0} /\ r[1] # Colon
    BY DEF Follows
  <2>1. CASE \E q \in Q : r = Then(RB, q)
    BY <1>1, <2>1, MarksAreTokens, MarksDiffer DEF Follows
  <2>2. CASE \E y \in ListThen(Q) : r = Then(Comma, y)
    BY <1>1, <2>2, MarksAreTokens, MarksDiffer DEF ListThen
  <2> QED
    BY <2>1, <2>2 DEF AfterElement
<1>3. Follows(AfterMember(K, Q))
  <2> SUFFICES ASSUME NEW r \in AfterMember(K, Q)
               PROVE  r \in Texts /\ Len(r) \in Nat \ {0} /\ r[1] # Colon
    BY DEF Follows
  <2>1. CASE \E q \in Q : r = Then(RC, q)
    BY <1>1, <2>1, MarksAreTokens, MarksDiffer DEF Follows
  <2>2. CASE \E y \in MembersThen(K, Q) : r = Then(Comma, y)
    BY <1>1, <2>2, MarksAreTokens, MarksDiffer DEF MembersThen
  <2> QED
    BY <2>1, <2>2 DEF AfterMember
<1>4. Follows({One(End)})
  <2>1. One(End) \in Texts /\ Len(One(End)) = 1 /\ One(End) = <<End>>
    BY MarksAreTokens, OneParts
  <2>2. One(End)[1] = End
    BY <2>1
  <2> QED
    BY <2>1, <2>2, MarksDiffer DEF Follows
<1>5. Follows({})
  BY DEF Follows
<1> QED
  BY <1>2, <1>3, <1>4, <1>5

(* A bracketed text before another.                                        *)
LEMMA TailThen ==
  ASSUME NEW a \in Texts, NEW b \in Texts, NEW u \in Tokens
  PROVE  /\ a \o Then(u, b) \in Texts /\ Then(u, b) \in Texts
         /\ Len(a \o Then(u, b)) = Len(a) + 1 + Len(b)
         /\ Len(a) \in Nat /\ Len(b) \in Nat
<1>6. Then(u, b) \in Texts /\ Len(Then(u, b)) = 1 + Len(b)
  BY ThenParts
<1>7. /\ a \o Then(u, b) \in Texts /\ Len(a) \in Nat
      /\ Len(a \o Then(u, b)) = Len(a) + Len(Then(u, b))
  BY <1>6, ConcatTexts
<1>8. Len(b) \in Nat
  BY ConcatTexts
<1>9. Len(a \o Then(u, b)) = Len(a) + 1 + Len(b)
  BY <1>6, <1>7, <1>8
<1> QED
  BY <1>6, <1>7, <1>8, <1>9, Zenon

(* A bracketed text before another text,                                   *)
LEMMA BracketThen ==
  ASSUME NEW a \in Texts, NEW b \in Texts, NEW t \in Tokens, NEW u \in Tokens
  PROVE  Then(t, a \o One(u)) \o b = Then(t, a \o Then(u, b))
<1>1. One(u) = <<u>> /\ One(u) \in Texts
  BY OneParts
<1>2. a \o One(u) \in Texts
  BY <1>1, ConcatTexts
<1>3. Then(t, a \o One(u)) \o b = Then(t, (a \o One(u)) \o b)
  BY <1>2, ThenConcat
<1>4. (a \o One(u)) \o b = a \o (One(u) \o b)
  BY <1>1, ConcatThree
<1>5. One(u) \o b = Then(u, b)
  BY <1>1, Zenon DEF Then
<1> QED
  BY <1>3, <1>4, <1>5, Zenon

(* and one token before it.                                                *)
LEMMA OneThen ==
  ASSUME NEW t \in Tokens, NEW b \in Texts
  PROVE  One(t) \o b = Then(t, b)
<1>1. One(t) = <<t>>
  BY OneParts
<1> QED
  BY <1>1, Zenon DEF Then

(* A value begins with a token of its own.                                 *)
LEMMA ValueBegins ==
  ASSUME NEW Q, Follows(Q), NEW t \in Tokens, NEW r \in Texts, Len(r) <= MaxText
  PROVE  Then(t, r) \in ValueThen(Q) <=>
           \/ t \in Strings \cup Scalars /\ r \in Q
           \/ t = LB /\ ((\E q \in Q : r = Then(RB, q)) \/ r \in ListThen(Q))
           \/ t = LC /\ ((\E q \in Q : r = Then(RC, q)) \/ r \in MembersThen({}, Q))
<1>0. MaxText \in Nat /\ Len(r) \in Nat /\ Then(t, r) \in Texts
  BY ParserConstants, ThenParts
<1>1. \A q \in Q : q \in Texts /\ Len(q) \in Nat \ {0}
  BY DEF Follows
<1>m. LB \in Tokens /\ RB \in Tokens /\ LC \in Tokens /\ RC \in Tokens
  BY MarksAreTokens
<1>b. ASSUME NEW a \in Texts, NEW b \in Texts
      PROVE  /\ Then(LB, a \o One(RB)) \o b = Then(LB, a \o Then(RB, b))
             /\ Then(LC, a \o One(RC)) \o b = Then(LC, a \o Then(RC, b))
             /\ a \o Then(RB, b) \in Texts /\ Then(RB, b) \in Texts
             /\ a \o Then(RC, b) \in Texts /\ Then(RC, b) \in Texts
             /\ Len(a \o Then(RB, b)) = Len(a) + 1 + Len(b)
             /\ Len(a \o Then(RC, b)) = Len(a) + 1 + Len(b)
             /\ Len(a) \in Nat /\ Len(b) \in Nat
  <2>1. \A t1, u1 \in Tokens : Then(t1, a \o One(u1)) \o b = Then(t1, a \o Then(u1, b))
    BY BracketThen
  <2>2. /\ Then(LB, a \o One(RB)) \o b = Then(LB, a \o Then(RB, b))
        /\ Then(LC, a \o One(RC)) \o b = Then(LC, a \o Then(RC, b))
    BY <1>m, <2>1
  <2>3. /\ a \o Then(RB, b) \in Texts /\ Then(RB, b) \in Texts
        /\ Len(a \o Then(RB, b)) = Len(a) + 1 + Len(b)
        /\ Len(a) \in Nat /\ Len(b) \in Nat
    BY <1>m, TailThen, Zenon
  <2>4. /\ a \o Then(RC, b) \in Texts /\ Then(RC, b) \in Texts
        /\ Len(a \o Then(RC, b)) = Len(a) + 1 + Len(b)
    BY <1>m, TailThen, Zenon
  <2> QED
    BY <2>2, <2>3, <2>4, Zenon
<1>2. ASSUME t \in Strings \cup Scalars, r \in Q
      PROVE  Then(t, r) \in ValueThen(Q)
  <2>1. 1 <= MaxText
    <3>1. Len(r) \in Nat \ {0}
      BY <1>1, <1>2
    <3> QED
      BY <1>0, <3>1
  <2>2. One(t) \in Values
    BY <1>2, <2>1, ValueOfToken
  <2>3. One(t) \o r = Then(t, r)
    BY OneThen
  <2> QED
    BY <1>0, <1>2, <2>2, <2>3, Zenon DEF ValueThen
<1>3. ASSUME t = LB, NEW q \in Q, NEW x, x = << >> \/ x \in Lists, x \in Texts,
             r = x \o Then(RB, q)
      PROVE  Then(t, r) \in ValueThen(Q)
  <2>1. q \in Texts /\ Len(q) \in Nat \ {0}
    BY <1>1
  <2>2. /\ Then(LB, x \o One(RB)) \o q = Then(LB, x \o Then(RB, q))
        /\ Len(x \o Then(RB, q)) = Len(x) + 1 + Len(q) /\ Len(x) \in Nat
    BY <1>3, <2>1, <1>b, Zenon
  <2>3. Len(r) = Len(x) + 1 + Len(q)
    BY <1>3, <2>2, Zenon
  <2>4. Len(x) + 2 <= MaxText
    BY <1>0, <2>1, <2>2, <2>3
  <2>5. Then(LB, x \o One(RB)) \in Values
    BY <1>3, <2>4, ValueOfList
  <2> QED
    BY <1>0, <1>3, <2>2, <2>5, Zenon DEF ValueThen
<1>4. ASSUME t = LC, NEW q \in Q, NEW m, m = Nothing \/ m \in Members,
             m.text \in Texts, r = m.text \o Then(RC, q)
      PROVE  Then(t, r) \in ValueThen(Q)
  <2>1. q \in Texts /\ Len(q) \in Nat \ {0}
    BY <1>1
  <2> DEFINE x == m.text
  <2>x. x \in Texts /\ r = x \o Then(RC, q)
    BY <1>4
  <2> HIDE DEF x
  <2>2. /\ Then(LC, x \o One(RC)) \o q = Then(LC, x \o Then(RC, q))
        /\ Len(x \o Then(RC, q)) = Len(x) + 1 + Len(q) /\ Len(x) \in Nat
    BY <2>x, <2>1, <1>b, Zenon
  <2>3. Len(r) = Len(x) + 1 + Len(q)
    BY <2>x, <2>2, Zenon
  <2>4. Len(x) + 2 <= MaxText
    BY <1>0, <2>1, <2>2, <2>3
  <2>5. Then(LC, x \o One(RC)) \in Values
    BY <1>4, <2>4, ValueOfMembers DEF x
  <2> QED
    BY <1>0, <1>4, <2>x, <2>2, <2>5, Zenon DEF ValueThen
<1>5. << >> \in Texts /\ \A a \in Texts : << >> \o a = a
  BY EmptyText, ConcatTexts
<1>6. Nothing.text = << >>
  BY DEF Nothing
<1>7. \A q \in Q : Then(RB, q) \in Texts /\ Then(RC, q) \in Texts
  BY <1>1, MarksAreTokens, ThenParts
<1>8. ASSUME t = LB, (\E q \in Q : r = Then(RB, q)) \/ r \in ListThen(Q)
      PROVE  Then(t, r) \in ValueThen(Q)
  <2>1. \A q \in Q : r = Then(RB, q) => r = << >> \o Then(RB, q)
    BY <1>5, <1>7, Zenon
  <2>2. \A x \in Lists : x \in Texts
    BY AreTexts
  <2>3. r \in ListThen(Q) => \E x \in Lists, q \in Q : r = x \o Then(RB, q)
    BY DEF ListThen
  <2> QED
    BY <1>3, <1>5, <1>8, <2>1, <2>2, <2>3, Zenon
<1>9. ASSUME t = LC, (\E q \in Q : r = Then(RC, q)) \/ r \in MembersThen({}, Q)
      PROVE  Then(t, r) \in ValueThen(Q)
  <2>1. \A q \in Q : r = Then(RC, q) => r = Nothing.text \o Then(RC, q)
    BY <1>5, <1>6, <1>7, Zenon
  <2>2. \A m \in Members : m.text \in Texts
    BY AreTexts DEF IsMember
  <2>3. r \in MembersThen({}, Q) => \E m \in Members, q \in Q : r = m.text \o Then(RC, q)
    BY DEF MembersThen
  <2>4. Nothing.text \in Texts
    BY <1>5, <1>6
  <2> QED
    BY <1>4, <1>9, <2>1, <2>2, <2>3, <2>4, Zenon
<1>10. ASSUME Then(t, r) \in ValueThen(Q)
       PROVE  \/ t \in Strings \cup Scalars /\ r \in Q
              \/ t = LB /\ ((\E q \in Q : r = Then(RB, q)) \/ r \in ListThen(Q))
              \/ t = LC /\ ((\E q \in Q : r = Then(RC, q)) \/ r \in MembersThen({}, Q))
  <2>1. PICK v \in Values, q \in Q : Then(t, r) = v \o q
    BY <1>10 DEF ValueThen
  <2>2. q \in Texts
    BY <1>1
  <2>3. ASSUME NEW s \in Strings \cup Scalars, v = One(s)
        PROVE  t \in Strings \cup Scalars /\ r \in Q
    <3>1. s \in Tokens
      BY MarksAreTokens
    <3>2. One(s) \o q = Then(s, q)
      BY <2>2, <3>1, OneThen
    <3>3. Then(t, r) = Then(s, q)
      BY <2>1, <2>3, <3>2, Zenon
    <3>4. t = s /\ r = q
      BY <2>2, <3>1, <3>3, ThenInjective
    <3> QED
      BY <3>4
  <2>4. ASSUME NEW x, x = << >> \/ x \in Lists, x \in Texts,
               v = Then(LB, x \o One(RB))
        PROVE  t = LB /\ ((\E p \in Q : r = Then(RB, p)) \/ r \in ListThen(Q))
    <3>1. /\ v \o q = Then(LB, x \o Then(RB, q)) /\ x \o Then(RB, q) \in Texts
          /\ Then(RB, q) \in Texts
      BY <2>2, <2>4, <1>b, Zenon
    <3>2. Then(t, r) = Then(LB, x \o Then(RB, q))
      BY <2>1, <3>1, Zenon
    <3> DEFINE w == x \o Then(RB, q)
    <3>w. w \in Texts /\ Then(t, r) = Then(LB, w)
      BY <3>1, <3>2, Zenon
    <3> HIDE DEF w
    <3>v. t = LB /\ r = w
      BY <3>w, <1>m, ThenInjective
    <3>3. t = LB /\ r = x \o Then(RB, q)
      BY <3>v, Zenon DEF w
    <3>4. x = << >> => r = Then(RB, q)
      BY <1>5, <3>1, <3>3, Zenon
    <3>5. x \in Lists => r \in ListThen(Q)
      BY <3>3, Zenon DEF ListThen
    <3> QED
      BY <2>4, <3>3, <3>4, <3>5, Zenon
  <2>5. ASSUME NEW m, m = Nothing \/ m \in Members, m.text \in Texts,
               v = Then(LC, m.text \o One(RC))
        PROVE  t = LC /\ ((\E p \in Q : r = Then(RC, p)) \/ r \in MembersThen({}, Q))
    <3>1. /\ v \o q = Then(LC, m.text \o Then(RC, q)) /\ m.text \o Then(RC, q) \in Texts
          /\ Then(RC, q) \in Texts
      BY <2>2, <2>5, <1>b, Zenon
    <3>2. Then(t, r) = Then(LC, m.text \o Then(RC, q))
      BY <2>1, <3>1, Zenon
    <3> DEFINE w == m.text \o Then(RC, q)
    <3>w. w \in Texts /\ Then(t, r) = Then(LC, w)
      BY <3>1, <3>2, Zenon
    <3> HIDE DEF w
    <3>v. t = LC /\ r = w
      BY <3>w, <1>m, ThenInjective
    <3>3. t = LC /\ r = m.text \o Then(RC, q)
      BY <3>v, Zenon DEF w
    <3>4. m = Nothing => r = Then(RC, q)
      BY <1>5, <1>6, <3>1, <3>3, Zenon
    <3>5. m \in Members => r \in MembersThen({}, Q)
      <4>1. m.keys \cap {} = {}
        OBVIOUS
      <4> QED
        BY <3>3, <4>1, Zenon DEF MembersThen
    <3> QED
      BY <2>5, <3>3, <3>4, <3>5, Zenon
  <2> QED
    BY <2>3, <2>4, <2>5, ValueForm, Zenon
<1> QED
  BY <1>2, <1>8, <1>9, <1>10, Zenon

-----------------------------------------------------------------------------

(* Continuations are texts of at least one token.                          *)
LEMMA FollowTexts ==
  ASSUME NEW Q, Follows(Q)
  PROVE  \A q \in Q : q \in Texts /\ Len(q) \in Nat \ {0}
BY DEF Follows

(* What follows an element or a member, by its first token.                *)
LEMMA AfterBegins ==
  ASSUME NEW Q, Follows(Q), NEW K, NEW t \in Tokens, NEW r \in Texts
  PROVE  /\ Then(t, r) \in AfterElement(Q) <=>
              (t = RB /\ r \in Q) \/ (t = Comma /\ r \in ListThen(Q))
         /\ Then(t, r) \in AfterMember(K, Q) <=>
              (t = RC /\ r \in Q) \/ (t = Comma /\ r \in MembersThen(K, Q))
<1>1. Then(t, r) \in Texts
  BY ThenParts
<1>2. \A q \in Q : q \in Texts
  BY FollowTexts
<1>3. /\ \A y \in ListThen(Q) : y \in Texts
      /\ \A y \in MembersThen(K, Q) : y \in Texts
  BY DEF ListThen, MembersThen
<1>4. ASSUME NEW u \in Tokens, NEW y \in Texts
      PROVE  Then(t, r) = Then(u, y) <=> t = u /\ r = y
  BY ThenInjective
<1>m. RB \in Tokens /\ RC \in Tokens /\ Comma \in Tokens
  BY MarksAreTokens
<1>5. Then(t, r) \in AfterElement(Q) <=>
        \/ \E q \in Q : Then(t, r) = Then(RB, q)
        \/ \E y \in ListThen(Q) : Then(t, r) = Then(Comma, y)
  BY <1>1, Zenon DEF AfterElement
<1>6. Then(t, r) \in AfterMember(K, Q) <=>
        \/ \E q \in Q : Then(t, r) = Then(RC, q)
        \/ \E y \in MembersThen(K, Q) : Then(t, r) = Then(Comma, y)
  BY <1>1, Zenon DEF AfterMember
<1>7. /\ \A q \in Q : Then(t, r) = Then(RB, q) <=> t = RB /\ r = q
      /\ \A q \in Q : Then(t, r) = Then(RC, q) <=> t = RC /\ r = q
      /\ \A y \in ListThen(Q) : Then(t, r) = Then(Comma, y) <=> t = Comma /\ r = y
      /\ \A y \in MembersThen(K, Q) : Then(t, r) = Then(Comma, y) <=> t = Comma /\ r = y
  BY <1>2, <1>3, <1>4, <1>m
<1> QED
  BY <1>5, <1>6, <1>7, Zenon

(* A list is a value and what follows an element.                          *)
LEMMA ListIsValue ==
  ASSUME NEW Q, Follows(Q), NEW r \in Texts, Len(r) <= MaxText + 1
  PROVE  r \in ListThen(Q) <=> r \in ValueThen(AfterElement(Q))
<1>0. MaxText \in Nat /\ Len(r) \in Nat
  BY ParserConstants, LenProperties DEF Texts
<1>1. \A q \in Q : q \in Texts /\ Len(q) \in Nat \ {0}
  BY FollowTexts
<1>m. RB \in Tokens /\ Comma \in Tokens
  BY MarksAreTokens
<1>2. \A q \in Q : Then(RB, q) \in AfterElement(Q)
  <2> TAKE q \in Q
  <2>1. Then(RB, q) \in Texts
    BY <1>1, <1>m, ThenParts
  <2> QED
    BY <2>1, Zenon DEF AfterElement
<1>3. \A y \in ListThen(Q) : y \in Texts /\ Then(Comma, y) \in AfterElement(Q)
  <2> TAKE y \in ListThen(Q)
  <2>1. y \in Texts
    BY DEF ListThen
  <2>2. Then(Comma, y) \in Texts
    BY <2>1, <1>m, ThenParts
  <2> QED
    BY <2>1, <2>2, Zenon DEF AfterElement
<1>4. ASSUME NEW v \in Values, NEW y \in Lists, NEW q \in Q
      PROVE  /\ (v \o Then(Comma, y)) \o Then(RB, q) =
                  v \o Then(Comma, y \o Then(RB, q))
             /\ y \o Then(RB, q) \in Texts
             /\ v \o Then(Comma, y) \in Texts
             /\ Len(v \o Then(Comma, y \o Then(RB, q))) =
                  Len(v \o Then(Comma, y)) + 1 + Len(q)
             /\ Len(v \o Then(Comma, y)) \in Nat
  <2>1. v \in Texts /\ y \in Texts /\ q \in Texts
    BY <1>1, AreTexts
  <2>2. Then(RB, q) \in Texts /\ y \o Then(RB, q) \in Texts
    BY <2>1, <1>m, TailThen
  <2>3. Then(Comma, y) \in Texts /\ v \o Then(Comma, y) \in Texts
    BY <2>1, <1>m, TailThen
  <2>4. (v \o Then(Comma, y)) \o Then(RB, q) = v \o (Then(Comma, y) \o Then(RB, q))
    <3> DEFINE c == Then(Comma, y)
               d == Then(RB, q)
    <3>1. v \in Texts /\ c \in Texts /\ d \in Texts
      BY <2>1, <2>2, <2>3
    <3> HIDE DEF c, d
    <3>2. (v \o c) \o d = v \o (c \o d)
      BY <3>1, ConcatThree, SMTT(30)
    <3> QED
      BY <3>2, Zenon DEF c, d
  <2>5. Then(Comma, y) \o Then(RB, q) = Then(Comma, y \o Then(RB, q))
    BY <2>1, <2>2, <1>m, ThenConcat, ZenonT(60)
  <2> DEFINE w == v \o Then(Comma, y)
  <2>6. w \in Texts
    BY <2>3
  <2> HIDE DEF w
  <2>7. Len(w \o Then(RB, q)) = Len(w) + 1 + Len(q) /\ Len(w) \in Nat
    BY <2>1, <2>6, <1>m, TailThen
  <2> QED
    BY <2>2, <2>3, <2>4, <2>5, <2>7, Zenon DEF w
<1>5. ASSUME r \in ListThen(Q) PROVE r \in ValueThen(AfterElement(Q))
  <2>1. PICK x \in Lists, q \in Q : r = x \o Then(RB, q)
    BY <1>5 DEF ListThen
  <2>2. CASE x \in Values
    BY <1>2, <2>1, <2>2, Zenon DEF ValueThen
  <2>3. ASSUME NEW v \in Values, NEW y \in Lists, x = v \o Then(Comma, y)
        PROVE  r \in ValueThen(AfterElement(Q))
    <3>1. r = v \o Then(Comma, y \o Then(RB, q)) /\ y \o Then(RB, q) \in Texts
      BY <1>4, <2>1, <2>3, Zenon
    <3>2. y \o Then(RB, q) \in ListThen(Q)
      BY <3>1, Zenon DEF ListThen
    <3>3. Then(Comma, y \o Then(RB, q)) \in AfterElement(Q)
      BY <1>3, <3>2, Zenon
    <3> QED
      BY <3>1, <3>3, Zenon DEF ValueThen
  <2> QED
    BY <2>2, <2>3, ListForm, Zenon
<1>6. ASSUME r \in ValueThen(AfterElement(Q)) PROVE r \in ListThen(Q)
  <2>1. PICK v \in Values, p \in AfterElement(Q) : r = v \o p
    BY <1>6 DEF ValueThen
  <2>2. ASSUME NEW q \in Q, p = Then(RB, q)
        PROVE  r \in ListThen(Q)
    <3>1. v \in Lists
      BY ListForm, Zenon
    <3>2. r = v \o Then(RB, q)
      BY <2>1, <2>2, Zenon
    <3> QED
      BY <3>1, <3>2, Zenon DEF ListThen
  <2>3. ASSUME NEW z \in ListThen(Q), p = Then(Comma, z)
        PROVE  r \in ListThen(Q)
    <3>1. PICK y \in Lists, q \in Q : z = y \o Then(RB, q)
      BY DEF ListThen
    <3> DEFINE x == v \o Then(Comma, y)
    <3>2. /\ r = x \o Then(RB, q) /\ x \in Texts /\ Len(r) = Len(x) + 1 + Len(q)
          /\ Len(x) \in Nat
      BY <1>4, <2>1, <2>3, <3>1, Zenon
    <3> HIDE DEF x
    <3>3. Len(q) \in Nat \ {0}
      BY <1>1
    <3>4. Len(x) <= MaxText
      BY <1>0, <3>2, <3>3
    <3>5. x = v \o Then(Comma, y)
      BY DEF x
    <3>6. x \in Lists
      BY <3>4, <3>5, ListForm, Zenon
    <3> QED
      BY <3>2, <3>6, Zenon DEF ListThen
  <2> QED
    BY <2>2, <2>3, Zenon DEF AfterElement
<1> QED
  BY <1>5, <1>6

(* Members begin with a key, its colon and its value.                      *)
LEMMA MembersBegin ==
  ASSUME NEW Q, Follows(Q), NEW K, NEW t \in Tokens, NEW r \in Texts,
         Len(r) <= MaxText
  PROVE  Then(t, r) \in MembersThen(K, Q) <=>
           /\ t \in Strings /\ t \notin K
           /\ Valued(ValueThen(AfterMember(K \cup {t}, Q)), r)
<1>0. MaxText \in Nat /\ Len(r) \in Nat /\ Then(t, r) \in Texts
      /\ Len(Then(t, r)) = 1 + Len(r)
  BY ParserConstants, ThenParts
<1>1. \A q \in Q : q \in Texts /\ Len(q) \in Nat \ {0}
  BY FollowTexts
<1>m. RC \in Tokens /\ Comma \in Tokens /\ Colon \in Tokens /\ \A k \in Strings : k \in Tokens
  BY MarksAreTokens
<1>2. ASSUME NEW k \in Strings, NEW v \in Texts, NEW q \in Texts
      PROVE  /\ Then(k, Then(Colon, v)) \o q = Then(k, Then(Colon, v \o q))
             /\ v \o q \in Texts /\ Then(Colon, v \o q) \in Texts
  <2>1. Then(Colon, v) \in Texts
    BY <1>m, ThenParts
  <2>2. Then(k, Then(Colon, v)) \o q = Then(k, Then(Colon, v) \o q)
    BY <1>m, <2>1, ThenConcat, ZenonT(60)
  <2>3. Then(Colon, v) \o q = Then(Colon, v \o q)
    BY <1>m, ThenConcat
  <2>4. v \o q \in Texts
    BY ConcatTexts
  <2>5. Then(Colon, v \o q) \in Texts
    BY <1>m, <2>4, ThenParts
  <2> QED
    BY <2>2, <2>3, <2>4, <2>5, Zenon
<1>3. ASSUME NEW k \in Strings, NEW v \in Values, NEW q \in Q
      PROVE  /\ Pair(k, v).text \o Then(RC, q) = Then(k, Then(Colon, v \o Then(RC, q)))
             /\ v \o Then(RC, q) \in Texts /\ Then(Colon, v \o Then(RC, q)) \in Texts
             /\ Then(RC, q) \in Texts
             /\ Pair(k, v).keys = {k}
             /\ Len(Pair(k, v).text \o Then(RC, q)) = Len(Pair(k, v).text) + 1 + Len(q)
             /\ Len(Pair(k, v).text) \in Nat
  <2>1. v \in Texts /\ q \in Texts
    BY <1>1, AreTexts
  <2>2. Then(RC, q) \in Texts
    BY <1>m, <2>1, ThenParts
  <2>3. Pair(k, v).text = Then(k, Then(Colon, v)) /\ Pair(k, v).keys = {k}
    BY DEF Pair
  <2> DEFINE w == Then(k, Then(Colon, v))
  <2>4. w \in Texts
    BY <1>m, <2>1, KeyBefore
  <2> HIDE DEF w
  <2>5. Len(w \o Then(RC, q)) = Len(w) + 1 + Len(q) /\ Len(w) \in Nat
    BY <1>m, <2>1, <2>4, TailThen
  <2>6. Pair(k, v).text = w
    BY <2>3, Zenon DEF w
  <2>7. /\ Then(k, Then(Colon, v)) \o Then(RC, q) = Then(k, Then(Colon, v \o Then(RC, q)))
        /\ v \o Then(RC, q) \in Texts /\ Then(Colon, v \o Then(RC, q)) \in Texts
    BY <1>2, <2>1, <2>2
  <2> QED
    BY <2>2, <2>3, <2>5, <2>6, <2>7, Zenon
<1>4. ASSUME NEW k \in Strings, NEW v \in Values, NEW b \in Members, NEW q \in Q
      PROVE  LET y == b.text
                 more == Then(Comma, y \o Then(RC, q)) IN
             /\ Pairs(k, v, b).text \o Then(RC, q) = Then(k, Then(Colon, v \o more))
             /\ v \o more \in Texts /\ Then(Colon, v \o more) \in Texts
             /\ more \in Texts /\ y \o Then(RC, q) \in Texts
             /\ Pairs(k, v, b).keys = {k} \cup b.keys
             /\ Len(Pairs(k, v, b).text \o Then(RC, q)) =
                  Len(Pairs(k, v, b).text) + 1 + Len(q)
             /\ Len(Pairs(k, v, b).text) \in Nat
  <2> DEFINE y == b.text
             more == Then(Comma, y \o Then(RC, q))
             body == v \o Then(Comma, y)
             w == Then(k, Then(Colon, body))
  <2>1. v \in Texts /\ q \in Texts /\ y \in Texts
    BY <1>1, AreTexts DEF IsMember
  <2>2. Pairs(k, v, b).text = w /\ Pairs(k, v, b).keys = {k} \cup b.keys
    BY DEF Pairs
  <2> HIDE DEF y
  <2>3. Then(RC, q) \in Texts /\ y \o Then(RC, q) \in Texts
    BY <1>m, <2>1, TailThen
  <2>4. Then(Comma, y) \in Texts /\ body \in Texts
    BY <1>m, <2>1, TailThen
  <2>5. more \in Texts
    BY <1>m, <2>3, ThenParts
  <2>6. body \o Then(RC, q) = v \o more
    <3>1. body \o Then(RC, q) = v \o (Then(Comma, y) \o Then(RC, q))
      BY <2>1, <2>3, <2>4, ConcatThree, SMTT(30)
    <3>2. Then(Comma, y) \o Then(RC, q) = more
      BY <1>m, <2>1, <2>3, ThenConcat, ZenonT(60)
    <3> QED
      BY <3>1, <3>2, Zenon
  <2> HIDE DEF more, body
  <2>7. w \in Texts
    BY <1>m, <2>4, KeyBefore
  <2>8. w \o Then(RC, q) = Then(k, Then(Colon, body \o Then(RC, q)))
        /\ body \o Then(RC, q) \in Texts /\ Then(Colon, body \o Then(RC, q)) \in Texts
    BY <1>2, <2>3, <2>4
  <2> HIDE DEF w
  <2>9. Len(w \o Then(RC, q)) = Len(w) + 1 + Len(q) /\ Len(w) \in Nat
    BY <1>m, <2>1, <2>7, TailThen
  <2>10. /\ Pairs(k, v, b).text \o Then(RC, q) = Then(k, Then(Colon, v \o more))
         /\ v \o more \in Texts /\ Then(Colon, v \o more) \in Texts
         /\ Len(Pairs(k, v, b).text \o Then(RC, q)) =
              Len(Pairs(k, v, b).text) + 1 + Len(q)
         /\ Len(Pairs(k, v, b).text) \in Nat
    BY <2>2, <2>6, <2>8, <2>9, Zenon
  <2> QED
    BY <2>2, <2>3, <2>5, <2>10, Zenon DEF more, y
<1>k. \A k, b : /\ {k} \cap K = {} <=> k \notin K
                /\ ({k} \cup b.keys) \cap K = {} /\ k \notin b.keys <=>
                     k \notin K /\ b.keys \cap (K \cup {k}) = {}
  OBVIOUS
<1>5. ASSUME Then(t, r) \in MembersThen(K, Q)
      PROVE  /\ t \in Strings /\ t \notin K
             /\ \E z \in ValueThen(AfterMember(K \cup {t}, Q)) : r = Then(Colon, z)
  <2>1. PICK m \in Members, q \in Q : m.keys \cap K = {} /\ Then(t, r) = m.text \o Then(RC, q)
    BY <1>5 DEF MembersThen
  <2>2. PICK k \in Strings, v \in Values :
          \/ m = Pair(k, v)
          \/ \E b \in Members : k \notin b.keys /\ m = Pairs(k, v, b)
    BY MemberForm, Zenon
  <2>3. ASSUME NEW w \in Texts, Then(t, r) = Then(k, w)
        PROVE  t = k /\ r = w
    BY <1>m, <2>3, ThenInjective
  <2>4. CASE m = Pair(k, v)
    <3> DEFINE z == v \o Then(RC, q)
    <3>1. /\ Then(t, r) = Then(k, Then(Colon, z)) /\ z \in Texts
          /\ Then(Colon, z) \in Texts /\ Then(RC, q) \in Texts /\ {k} \cap K = {}
      BY <1>3, <2>1, <2>4, Zenon
    <3>2. t = k /\ r = Then(Colon, z)
      BY <2>3, <3>1, Zenon
    <3>3. Then(RC, q) \in AfterMember(K \cup {t}, Q)
      BY <3>1, Zenon DEF AfterMember
    <3>4. z \in ValueThen(AfterMember(K \cup {t}, Q))
      BY <3>1, <3>3, Zenon DEF ValueThen
    <3> QED
      BY <1>k, <3>1, <3>2, <3>4, Zenon
  <2>5. ASSUME NEW b \in Members, k \notin b.keys, m = Pairs(k, v, b)
        PROVE  /\ t \in Strings /\ t \notin K
               /\ \E z \in ValueThen(AfterMember(K \cup {t}, Q)) : r = Then(Colon, z)
    <3> DEFINE y == b.text \o Then(RC, q)
               z == v \o Then(Comma, y)
    <3>0. /\ m.text \o Then(RC, q) = Then(k, Then(Colon, z)) /\ z \in Texts
          /\ Then(Colon, z) \in Texts /\ Then(Comma, y) \in Texts /\ y \in Texts
          /\ m.keys = {k} \cup b.keys
      BY <1>4, <2>5, ZenonT(60)
    <3>1. /\ Then(t, r) = Then(k, Then(Colon, z)) /\ z \in Texts
          /\ Then(Colon, z) \in Texts /\ Then(Comma, y) \in Texts /\ y \in Texts
          /\ ({k} \cup b.keys) \cap K = {}
      BY <2>1, <3>0, Zenon
    <3>2. t = k /\ r = Then(Colon, z)
      BY <2>3, <3>1, Zenon
    <3>3. k \notin K /\ b.keys \cap (K \cup {k}) = {}
      BY <1>k, <2>5, <3>1, Zenon
    <3>4. y \in MembersThen(K \cup {t}, Q)
      BY <3>1, <3>2, <3>3, Zenon DEF MembersThen
    <3>5. Then(Comma, y) \in AfterMember(K \cup {t}, Q)
      BY <3>1, <3>4, Zenon DEF AfterMember
    <3>6. z \in ValueThen(AfterMember(K \cup {t}, Q))
      BY <3>1, <3>5, Zenon DEF ValueThen
    <3> QED
      BY <3>2, <3>3, <3>6, Zenon
  <2> QED
    BY <2>2, <2>4, <2>5, Zenon
<1>6. ASSUME t \in Strings, t \notin K,
             NEW z \in ValueThen(AfterMember(K \cup {t}, Q)), r = Then(Colon, z)
      PROVE  Then(t, r) \in MembersThen(K, Q)
  <2>1. PICK v \in Values, p \in AfterMember(K \cup {t}, Q) : z = v \o p
    BY DEF ValueThen
  <2>2. ASSUME NEW q \in Q, p = Then(RC, q)
        PROVE  Then(t, r) \in MembersThen(K, Q)
    <3> DEFINE m == Pair(t, v)
    <3>1. /\ Then(t, r) = m.text \o Then(RC, q) /\ m.keys = {t}
          /\ Len(Then(t, r)) = Len(m.text) + 1 + Len(q) /\ Len(m.text) \in Nat
      <4>1. r = Then(Colon, v \o Then(RC, q)) /\ t \in Strings
        BY <1>6, <2>1, <2>2, Zenon
      <4>2. /\ m.text \o Then(RC, q) = Then(t, Then(Colon, v \o Then(RC, q)))
            /\ m.keys = {t} /\ Len(m.text) \in Nat
            /\ Len(m.text \o Then(RC, q)) = Len(m.text) + 1 + Len(q)
        BY <1>3, <4>1
      <4> HIDE DEF m
      <4>3. Then(t, r) = m.text \o Then(RC, q)
        BY <4>1, <4>2, Zenon
      <4> QED
        BY <4>2, <4>3, Zenon
    <3> HIDE DEF m
    <3>2. Len(q) \in Nat \ {0}
      BY <1>1
    <3>3. Len(m.text) <= MaxText
      BY <1>0, <3>1, <3>2
    <3>4. m = Pair(t, v)
      BY DEF m
    <3>5. m \in Members
      BY <1>6, <3>3, <3>4, MemberForm, Zenon
    <3>6. m.keys \cap K = {}
      BY <1>6, <1>k, <3>1, Zenon
    <3> QED
      BY <1>0, <3>1, <3>5, <3>6, Zenon DEF MembersThen
  <2>3. ASSUME NEW y \in MembersThen(K \cup {t}, Q), p = Then(Comma, y)
        PROVE  Then(t, r) \in MembersThen(K, Q)
    <3>0. PICK b \in Members, q \in Q :
            b.keys \cap (K \cup {t}) = {} /\ y = b.text \o Then(RC, q)
      BY DEF MembersThen
    <3> DEFINE m == Pairs(t, v, b)
    <3>1. /\ Then(t, r) = m.text \o Then(RC, q) /\ m.keys = {t} \cup b.keys
          /\ Len(Then(t, r)) = Len(m.text) + 1 + Len(q) /\ Len(m.text) \in Nat
      <4> DEFINE more == Then(Comma, b.text \o Then(RC, q))
      <4>2. /\ m.text \o Then(RC, q) = Then(t, Then(Colon, v \o more))
            /\ m.keys = {t} \cup b.keys /\ Len(m.text) \in Nat
            /\ Len(m.text \o Then(RC, q)) = Len(m.text) + 1 + Len(q)
        BY <1>4, <1>6
      <4>1. r = Then(Colon, v \o more)
        BY <1>6, <2>1, <2>3, <3>0, Zenon
      <4> HIDE DEF m, more
      <4>3. Then(t, r) = m.text \o Then(RC, q)
        BY <4>1, <4>2, Zenon
      <4> QED
        BY <4>2, <4>3, Zenon
    <3> HIDE DEF m
    <3>2. Len(q) \in Nat \ {0}
      BY <1>1
    <3>3. Len(m.text) <= MaxText
      BY <1>0, <3>1, <3>2
    <3>4. m = Pairs(t, v, b)
      BY DEF m
    <3>6. ({t} \cup b.keys) \cap K = {} /\ t \notin b.keys
      BY <1>6, <1>k, <3>0, Zenon
    <3>5. m \in Members
      BY <1>6, <3>3, <3>4, <3>6, MemberForm, Zenon
    <3> QED
      BY <1>0, <3>1, <3>5, <3>6, Zenon DEF MembersThen
  <2> QED
    BY <2>2, <2>3, Zenon DEF AfterMember
<1> QED
  BY <1>5, <1>6, Zenon DEF Valued

-----------------------------------------------------------------------------
(* A failure to scan a lexeme has a code that is no success.               *)
LEMMA LexicalFails == \A t \in DOMAIN Lexical : Lexical[t] \notin {"none", "ok"}
<1>1. \A t \in DOMAIN StringFaults : StringFaults[t] \notin {"none", "ok"}
  BY DEF StringFaults
<1>2. \A t \in DOMAIN NumberFaults : NumberFaults[t] \notin {"none", "ok"}
  BY DEF NumberFaults
<1> QED
  BY <1>1, <1>2 DEF Lexical

(* A faulty string is answered with an error,                              *)
LEMMA StringFaultsFail == \A t \in DOMAIN StringFaults : StringFaults[t] \notin {"none", "ok"}
  BY DEF StringFaults

(* and the two opening marks have their closing ones.                      *)
LEMMA OpensMarks ==
  /\ \A t : t \in DOMAIN Opens <=> t = LC \/ t = LB
  /\ Opens[LC] = RC /\ Opens[LB] = RB
<1>1. Opens = [t \in {LC, LB} |-> IF t = LC THEN RC ELSE RB]
  BY Zenon DEF Opens, LC, LB, RC, RB
<1> QED
  BY <1>1, MarksDiffer

(* The containers being parsed. *)
Frames == [kind : {LC, LB}, keys : Seq(Strings \cup {"none"}),
           key : Strings \cup {"none"}]
(* The mark that closes a frame.                                           *)
CloseOf(f) == IF f.kind = LC THEN RC ELSE RB

(* The innermost of them, and those around it.                             *)
LEMMA FrontLast ==
  ASSUME NEW S, NEW s \in Seq(S), s # << >>
  PROVE  /\ Len(s) \in Nat \ {0} /\ Last(s) = s[Len(s)] /\ Last(s) \in S
         /\ Front(s) \in Seq(S) /\ Len(Front(s)) = Len(s) - 1
         /\ \A i \in 1 .. Len(s) - 1 : Front(s)[i] = s[i]
<1>1. Len(s) \in Nat \ {0}
  BY EmptySeq, LenProperties
<1>2. Last(s) = s[Len(s)] /\ Last(s) \in S
  BY <1>1, ElementOfSeq DEF Last
<1>3. /\ Front(s) = SubSeq(s, 1, Len(s) - 1)
      /\ 1 .. Len(s) - 1 \subseteq 1 .. Len(s)
  BY <1>1 DEF Front
<1>4. /\ SubSeq(s, 1, Len(s) - 1) \in Seq(S)
      /\ Len(SubSeq(s, 1, Len(s) - 1)) = Len(s) - 1
      /\ \A i \in 1 .. Len(s) - 1 : SubSeq(s, 1, Len(s) - 1)[i] = s[i]
  <2> DEFINE n == Len(s) - 1
  <2>1. n \in Nat /\ n <= Len(s)
    BY <1>1
  <2> HIDE DEF n
  <2>2. /\ \A i \in 1 .. n : s[i] \in S
        /\ 1 \in 1 .. Len(s) + 1 /\ n \in 1 - 1 .. Len(s)
    BY <1>1, <2>1, ElementOfSeq
  <2>3. /\ SubSeq(s, 1, n) \in Seq(S) /\ Len(SubSeq(s, 1, n)) = n
        /\ \A i \in 1 .. n : SubSeq(s, 1, n)[i] = s[i]
    BY <2>1, <2>2, SubSeqProperties
  <2> QED
    BY <2>3 DEF n
<1> QED
  BY <1>1, <1>2, <1>3, <1>4

(* A stack whose last entry is replaced,                                   *)
LEMMA TopReplaced ==
  ASSUME NEW S, NEW s \in Seq(S), s # << >>, NEW e \in S
  PROVE  LET u == Append(Front(s), e) IN
         /\ u \in Seq(S) /\ Len(u) = Len(s) /\ u # << >> /\ Last(u) = e
         /\ u[Len(s)] = e /\ \A i \in 1 .. Len(s) - 1 : u[i] = s[i]
<1> DEFINE f == Front(s)
<1>1. /\ Len(s) \in Nat \ {0} /\ f \in Seq(S) /\ Len(f) = Len(s) - 1
      /\ \A i \in 1 .. Len(s) - 1 : f[i] = s[i]
  BY FrontLast
<1> HIDE DEF f
<1> DEFINE u == Append(f, e)
<1>2. /\ u \in Seq(S) /\ Len(u) = Len(f) + 1 /\ u[Len(f) + 1] = e
      /\ \A i \in 1 .. Len(f) : u[i] = f[i]
  BY <1>1, AppendProperties
<1> HIDE DEF u
<1>3. Len(u) = Len(s) /\ u # << >> /\ Last(u) = e /\ u[Len(s)] = e
  BY <1>1, <1>2, EmptySeq DEF Last
<1>4. \A i \in 1 .. Len(s) - 1 : u[i] = s[i]
  BY <1>1, <1>2
<1> QED
  BY <1>2, <1>3, <1>4 DEF u, f

(* and one with one entry more.                                            *)
LEMMA OneMore ==
  ASSUME NEW S, NEW s \in Seq(S), NEW e \in S
  PROVE  LET u == Append(s, e) IN
         /\ u \in Seq(S) /\ Len(u) = Len(s) + 1 /\ u # << >> /\ Last(u) = e
         /\ u[Len(s) + 1] = e /\ (\A i \in 1 .. Len(s) : u[i] = s[i])
         /\ Len(s) \in Nat
<1> DEFINE u == Append(s, e)
<1>1. /\ u \in Seq(S) /\ Len(u) = Len(s) + 1 /\ u[Len(s) + 1] = e
      /\ \A i \in 1 .. Len(s) : u[i] = s[i]
      /\ Len(s) \in Nat
  BY AppendProperties, LenProperties
<1> HIDE DEF u
<1>2. u # << >> /\ Last(u) = e
  BY <1>1, EmptySeq DEF Last
<1> QED
  BY <1>1, <1>2 DEF u

-----------------------------------------------------------------------------
(* What the actions do, with the marks by name.                            *)
Refused == code' \notin {"none", "ok"} /\ UNCHANGED <<stack, phase, nodes>>

(* A value has been read: the frames around it, the innermost with the key *)
(* it has just used, or a refusal of a key used twice.                     *)
Completed(outer, count) ==
  \/ /\ outer # << >> /\ Last(outer).kind = LC
     /\ Last(outer).key \in ToSet(Last(outer).keys) /\ Refused
  \/ /\ outer = << >> \/ Last(outer).kind # LC
     /\ stack' = outer /\ phase' = "after" /\ nodes' = count /\ UNCHANGED code
  \/ /\ outer # << >> /\ Last(outer).kind = LC
     /\ Last(outer).key \notin ToSet(Last(outer).keys)
     /\ stack' = Append(Front(outer),
                   [Last(outer) EXCEPT !.keys = Append(@, Last(outer).key)])
     /\ phase' = "after" /\ nodes' = count /\ UNCHANGED code

(* The innermost frame of a stack.                                         *)
LEMMA InnerIsFrame ==
  ASSUME NEW s \in Seq(Frames), s # << >>
  PROVE  /\ Last(s) \in Frames /\ Last(s).kind \in {LC, LB}
         /\ Front(s) \in Seq(Frames)
<1>1. Last(s) \in Frames /\ Front(s) \in Seq(Frames)
  BY FrontLast
<1>2. \A f \in Frames : f.kind \in {LC, LB}
  BY DEF Frames
<1> QED
  BY <1>1, <1>2

(* Complete does one of these three things.                                *)
LEMMA CompleteCases ==
  ASSUME NEW outer \in Seq(Frames), NEW count, Complete(outer, count)
  PROVE  Completed(outer, count)
<1>1. outer # << >> => Last(outer).kind \in {LC, LB}
  BY InnerIsFrame
<1>2. /\ outer # << >> /\ Last(outer).kind = LC
         /\ Last(outer).key \in ToSet(Last(outer).keys) => Fail("duplicate_key")
      /\ ~(/\ outer # << >> /\ Last(outer).kind = LC
           /\ Last(outer).key \in ToSet(Last(outer).keys)) =>
           /\ stack' = IF outer = << >> \/ Last(outer).kind = LB THEN outer
                       ELSE Append(Front(outer),
                          [Last(outer) EXCEPT !.keys = Append(@, Last(outer).key)])
           /\ phase' = "after" /\ nodes' = count
           /\ UNCHANGED code
  BY Zenon DEF Complete, Duplicates, LC, LB
<1>3. Fail("duplicate_key") => Refused
  BY DEF Fail, Refused
<1>4. LC # LB
  BY MarksDiffer
<1>5. CASE /\ outer # << >> /\ Last(outer).kind = LC
           /\ Last(outer).key \in ToSet(Last(outer).keys)
  BY <1>2, <1>3, <1>5, Zenon DEF Completed
<1>6. CASE outer = << >> \/ Last(outer).kind # LC
  BY <1>1, <1>2, <1>6, Zenon DEF Completed
<1>7. CASE /\ outer # << >> /\ Last(outer).kind = LC
           /\ Last(outer).key \notin ToSet(Last(outer).keys)
  BY <1>2, <1>4, <1>7, Zenon DEF Completed
<1> QED
  BY <1>5, <1>6, <1>7, Zenon

(* What the parser does with a token where a value is due,                 *)
ReadsValue(t) ==
  \/ Len(stack) >= MaxDepth /\ Refused
  \/ nodes >= MaxNodes /\ Refused
  \/ /\ Len(stack) < MaxDepth /\ nodes < MaxNodes /\ t \in {LC, LB}
     /\ stack' = Append(stack, [kind |-> t, keys |-> << >>, key |-> "none"])
     /\ phase' = "first" /\ nodes' = nodes + 1 /\ UNCHANGED code
  \/ /\ Len(stack) < MaxDepth /\ nodes < MaxNodes
     /\ t \in Strings \cup Scalars /\ Completed(stack, nodes + 1)
  \/ t \notin {LC, LB} \cup Strings \cup Scalars /\ Refused

(* which is all that ValueToken does,                                      *)
LEMMA ValueCases ==
  ASSUME stack \in Seq(Frames), nodes \in Nat, NEW t, ValueToken(t)
  PROVE  ReadsValue(t)
<1>0. Len(stack) \in Nat /\ MaxDepth \in Nat /\ MaxNodes \in Nat
  BY LenProperties, ParserConstants
<1>1. /\ Fail("depth_limit") => Refused
      /\ Fail("node_limit") => Refused
      /\ Fail("invalid_json") => Refused
  BY DEF Fail, Refused
<1>2. t \in DOMAIN Lexical /\ Fail(Lexical[t]) => Refused
  BY LexicalFails DEF Fail, Refused
<1>3. t \in DOMAIN Opens <=> t = LC \/ t = LB
  BY OpensMarks
<1>4. CASE Len(stack) >= MaxDepth
  BY <1>1, <1>4 DEF ValueToken, ReadsValue
<1>5. CASE nodes >= MaxNodes
  BY <1>1, <1>5 DEF ValueToken, ReadsValue
<1>6. CASE ~(Len(stack) >= MaxDepth) /\ ~(nodes >= MaxNodes)
  <2>1. Len(stack) < MaxDepth /\ nodes < MaxNodes
    BY <1>0, <1>6
  <2>2. CASE t \in DOMAIN Opens
    <3>1. /\ stack' = Append(stack, [kind |-> t, keys |-> << >>, key |-> "none"])
          /\ phase' = "first" /\ nodes' = nodes + 1 /\ UNCHANGED code
      BY <1>6, <2>2, Zenon DEF ValueToken
    <3> QED
      BY <1>3, <2>1, <2>2, <3>1, Zenon DEF ReadsValue
  <2>3. CASE t \notin DOMAIN Opens /\ t \in Strings \cup Scalars
    <3>1. Complete(stack, nodes + 1)
      BY <1>6, <2>3, Zenon DEF ValueToken
    <3>2. Completed(stack, nodes + 1)
      BY <3>1, CompleteCases
    <3> QED
      BY <2>1, <2>3, <3>2, Zenon DEF ReadsValue
  <2>4. CASE t \notin DOMAIN Opens /\ t \notin Strings \cup Scalars
    <3>1. Fail(IF t \in DOMAIN Lexical THEN Lexical[t] ELSE "invalid_json")
      BY <1>6, <2>4, Zenon DEF ValueToken
    <3>2. Refused
      BY <1>1, <1>2, <3>1
    <3> QED
      BY <1>3, <2>4, <3>2, Zenon DEF ReadsValue
  <2> QED
    BY <2>2, <2>3, <2>4
<1> QED
  BY <1>4, <1>5, <1>6

(* and where a key is due,                                                 *)
ReadsKey(t) ==
  \/ /\ t \in Strings /\ stack' = Append(Front(stack), [Last(stack) EXCEPT !.key = t])
     /\ phase' = "colon" /\ UNCHANGED <<nodes, code>>
  \/ t \notin Strings /\ Refused

(* which is all that KeyToken does.                                        *)
LEMMA KeyCases ==
  ASSUME NEW t, KeyToken(t)
  PROVE  ReadsKey(t)
<1>1. Fail("invalid_json") => Refused
  BY DEF Fail, Refused
<1>2. t \in DOMAIN StringFaults /\ Fail(StringFaults[t]) => Refused
  BY StringFaultsFail DEF Fail, Refused
<1> QED
  BY <1>1, <1>2 DEF KeyToken, ReadsKey

(* Each token is read in one of these ways. *)
Inner == Last(stack)
(* Where the parser stands: before a value, a key, a closing mark, a comma *)
(* or a colon.                                                             *)
AtValue(t) ==
  \/ phase = "value"
  \/ phase = "item" /\ Inner.kind = LB
  \/ phase = "first" /\ Inner.kind = LB /\ t # RB
AtKey(t) ==
  /\ Inner.kind = LC
  /\ phase = "item" \/ (phase = "first" /\ t # RC)
AtClose(t) ==
  stack # << >> /\ phase \in {"first", "after"} /\ t = CloseOf(Inner)
AtComma(t) == stack # << >> /\ phase = "after" /\ t = Comma
AtColon(t) == phase = "colon" /\ t = Colon

(* Every way to read a token, by where the parser stands,                  *)
Reads(t) ==
  \/ AtValue(t) /\ ReadsValue(t)
  \/ AtKey(t) /\ ReadsKey(t)
  \/ AtClose(t) /\ Completed(Front(stack), nodes)
  \/ AtComma(t) /\ phase' = "item" /\ UNCHANGED <<stack, nodes, code>>
  \/ AtColon(t) /\ phase' = "value" /\ UNCHANGED <<stack, nodes, code>>
  \/ phase = "colon" /\ t # Colon /\ Refused
  \/ /\ phase = "after" /\ stack # << >> /\ t # Comma /\ t # CloseOf(Inner)
     /\ Refused
  \/ phase = "after" /\ stack = << >> /\ t # End /\ Refused
  \/ /\ phase = "after" /\ stack = << >> /\ t = End
     /\ code' = "ok" /\ UNCHANGED <<stack, phase, nodes>>

(* and the parser reads in no other way.                                   *)
LEMMA EveryRead ==
  ASSUME stack \in Seq(Frames), nodes \in Nat, NEW t,
         phase \in {"first", "item", "colon"} => stack # << >>,
         \/ ParseValue(t) \/ ParseFirst(t) \/ ParseItem(t) \/ ParseColon(t)
         \/ ParseAfter(t) \/ ParseEnd(t)
  PROVE  Reads(t)
<1>0. stack # << >> => Inner.kind \in {LC, LB} /\ Front(stack) \in Seq(Frames)
  BY InnerIsFrame DEF Inner
<1>1. stack # << >> => (Closes(t) <=> t = CloseOf(Inner))
  BY <1>0, OpensMarks, MarksDiffer DEF Closes, CloseOf, Inner
<1>2. ItemToken(t) <=> IF Inner.kind = LC THEN KeyToken(t) ELSE ValueToken(t)
  BY Zenon DEF ItemToken, Inner, LC
<1>3. Complete(Front(stack), nodes) /\ stack # << >> => Completed(Front(stack), nodes)
  BY <1>0, CompleteCases
<1>4. (ValueToken(t) => ReadsValue(t)) /\ (KeyToken(t) => ReadsKey(t))
  BY ValueCases, KeyCases
<1>5. LC # LB /\ RC # RB
  BY MarksDiffer
<1>6. Fail("invalid_json") => Refused
  BY DEF Fail, Refused
<1>7. CASE ParseValue(t)
  BY <1>4, <1>7, Zenon DEF ParseValue, Reads, AtValue
<1>8. CASE ParseFirst(t)
  <2>1. phase = "first" /\ stack # << >> /\ Inner.kind \in {LC, LB}
    BY <1>0, <1>8 DEF ParseFirst
  <2>2. CASE Closes(t)
    <3>1. Complete(Front(stack), nodes)
      BY <1>8, <2>2 DEF ParseFirst
    <3>2. AtClose(t)
      BY <1>1, <2>1, <2>2 DEF AtClose
    <3> QED
      BY <1>3, <2>1, <3>1, <3>2, Zenon DEF Reads
  <2>3. CASE ~Closes(t)
    <3>1. ItemToken(t)
      BY <1>8, <2>3 DEF ParseFirst
    <3>2. t # CloseOf(Inner)
      BY <1>1, <2>1, <2>3
    <3>3. CASE Inner.kind = LC
      BY <1>2, <1>4, <2>1, <3>1, <3>2, <3>3, Zenon DEF Reads, AtKey, CloseOf
    <3>4. CASE Inner.kind = LB
      BY <1>2, <1>4, <1>5, <2>1, <3>1, <3>2, <3>4, Zenon DEF Reads, AtValue, CloseOf
    <3> QED
      BY <2>1, <3>3, <3>4
  <2> QED
    BY <2>2, <2>3
<1>9. CASE ParseItem(t)
  <2>1. phase = "item" /\ stack # << >> /\ Inner.kind \in {LC, LB} /\ ItemToken(t)
    BY <1>0, <1>9 DEF ParseItem
  <2>3. CASE Inner.kind = LC
    BY <1>2, <1>4, <2>1, <2>3, Zenon DEF Reads, AtKey
  <2>4. CASE Inner.kind = LB
    BY <1>2, <1>4, <1>5, <2>1, <2>4, Zenon DEF Reads, AtValue
  <2> QED
    BY <2>1, <2>3, <2>4
<1>10. CASE ParseColon(t)
  <2>1. /\ phase = "colon"
        /\ IF t = Colon THEN Expect("value") ELSE Fail("invalid_json")
    BY <1>10, Zenon DEF ParseColon, Colon
  <2> QED
    BY <1>6, <2>1 DEF Reads, AtColon, Expect
<1>11. CASE ParseAfter(t)
  <2>1. /\ phase = "after" /\ stack # << >>
        /\ IF t = Comma THEN Expect("item")
           ELSE IF Closes(t) THEN Complete(Front(stack), nodes)
           ELSE Fail("invalid_json")
    BY <1>11, Zenon DEF ParseAfter, Comma
  <2>2. CASE t = Comma
    BY <2>1, <2>2 DEF Reads, AtComma, Expect
  <2>3. CASE t # Comma /\ Closes(t)
    <3>1. Completed(Front(stack), nodes)
      BY <1>3, <2>1, <2>3
    <3> QED
      BY <1>1, <2>1, <2>3, <3>1 DEF Reads, AtClose
  <2>4. CASE t # Comma /\ ~Closes(t)
    BY <1>1, <1>6, <2>1, <2>4 DEF Reads
  <2> QED
    BY <2>2, <2>3, <2>4
<1>12. CASE ParseEnd(t)
  <2>1. CASE t = End
    BY <1>12, <2>1 DEF ParseEnd, Fail, Reads
  <2>2. CASE t # End
    BY <1>12, <2>2 DEF ParseEnd, Fail, Reads, Refused
  <2> QED
    BY <2>1, <2>2
<1> QED
  BY <1>7, <1>8, <1>9, <1>10, <1>11, <1>12

-----------------------------------------------------------------------------
(* Types of the parser; the end of the text is the last token read.        *)
Typed ==
  /\ text \in Texts /\ Len(text) <= MaxText + 1
  /\ code = "none" => Len(text) <= MaxText
  /\ stack \in Seq(Frames) /\ Len(stack) <= MaxDepth
  /\ nodes \in 0 .. MaxNodes
  /\ phase \in {"value", "first", "item", "colon", "after"}
  /\ phase \in {"first", "item", "colon"} => stack # << >>

(* Frames stay frames when opened, when a key is read and when a member is *)
(* complete.                                                               *)
LEMMA NewFrames ==
  /\ \A t \in {LC, LB} : [kind |-> t, keys |-> << >>, key |-> "none"] \in Frames
  /\ \A f \in Frames, k \in Strings :
       /\ [f EXCEPT !.key = k] \in Frames /\ [f EXCEPT !.key = k].kind = f.kind
       /\ [f EXCEPT !.key = k].keys = f.keys /\ [f EXCEPT !.key = k].key = k
  /\ \A f \in Frames :
       LET g == [f EXCEPT !.keys = Append(@, f.key)] IN
       /\ g \in Frames /\ g.kind = f.kind /\ g.key = f.key
       /\ g.keys = Append(f.keys, f.key)
<1> DEFINE A == Strings \cup {"none"}
<1>1. << >> \in Seq(A) /\ \A s \in Seq(A), k \in A : Append(s, k) \in Seq(A)
  BY EmptySeq, AppendProperties
<1>2. Frames = [kind : {LC, LB}, keys : Seq(A), key : A]
  BY DEF Frames
<1>3. "none" \in A /\ \A k \in Strings : k \in A
  OBVIOUS
<1> HIDE DEF A
<1>4. ASSUME NEW t \in {LC, LB}
      PROVE  [kind |-> t, keys |-> << >>, key |-> "none"] \in Frames
  BY <1>1, <1>2, <1>3
<1>5. ASSUME NEW f \in Frames, NEW k \in Strings
      PROVE  /\ [f EXCEPT !.key = k] \in Frames /\ [f EXCEPT !.key = k].kind = f.kind
             /\ [f EXCEPT !.key = k].keys = f.keys /\ [f EXCEPT !.key = k].key = k
  BY <1>2, <1>3
<1>6. ASSUME NEW f \in Frames
      PROVE  LET g == [f EXCEPT !.keys = Append(@, f.key)] IN
             /\ g \in Frames /\ g.kind = f.kind /\ g.key = f.key
             /\ g.keys = Append(f.keys, f.key)
  <2>1. f.keys \in Seq(A) /\ f.key \in A
    BY <1>2
  <2>2. Append(f.keys, f.key) \in Seq(A)
    BY <1>1, <2>1
  <2> QED
    BY <1>2, <2>2
<1> QED
  BY <1>4, <1>5, <1>6

(* A completed value leaves the parser's variables typed.                  *)
LEMMA CompletedTyped ==
  ASSUME Typed, NEW outer \in Seq(Frames), Len(outer) <= MaxDepth,
         NEW count \in 0 .. MaxNodes, Completed(outer, count)
  PROVE  /\ stack' \in Seq(Frames) /\ Len(stack') <= MaxDepth
         /\ nodes' \in 0 .. MaxNodes
         /\ Refused \/ (phase' = "after" /\ code' = code)
<1>1. CASE Refused
  BY <1>1 DEF Refused, Typed
<1>2. CASE stack' = outer /\ phase' = "after" /\ nodes' = count /\ UNCHANGED code
  BY <1>2
<1>3. ASSUME outer # << >>, phase' = "after", nodes' = count, UNCHANGED code,
             stack' = Append(Front(outer),
                   [Last(outer) EXCEPT !.keys = Append(@, Last(outer).key)])
      PROVE  /\ stack' \in Seq(Frames) /\ Len(stack') <= MaxDepth
             /\ nodes' \in 0 .. MaxNodes
             /\ phase' = "after" /\ code' = code
  <2> DEFINE e == [Last(outer) EXCEPT !.keys = Append(@, Last(outer).key)]
  <2>1. e \in Frames
    BY <1>3, InnerIsFrame, NewFrames
  <2> HIDE DEF e
  <2>2. Append(Front(outer), e) \in Seq(Frames) /\ Len(Append(Front(outer), e)) = Len(outer)
    BY <1>3, <2>1, TopReplaced
  <2>3. stack' = Append(Front(outer), e)
    BY <1>3 DEF e
  <2> QED
    BY <1>3, <2>2, <2>3
<1> QED
  BY <1>1, <1>2, <1>3, Zenon DEF Completed

(* The types hold at the start,                                            *)
LEMMA InitTyped == ParserInit => Typed
<1> SUFFICES ASSUME ParserInit PROVE Typed
  OBVIOUS
<1>1. text = << >> /\ stack = << >> /\ phase = "value" /\ nodes = 0 /\ code = "none"
  BY DEF ParserInit
<1>2. << >> \in Texts /\ Len(<< >>) = 0 /\ << >> \in Seq(Frames)
  BY EmptyText, EmptySeq
<1>3. MaxText \in Nat /\ MaxDepth \in Nat /\ MaxNodes \in Nat
  BY ParserConstants
<1> QED
  BY <1>1, <1>2, <1>3 DEF Typed

(* What a token of a text that is not refused does to its length.          *)
LEMMA NextParts ==
  ASSUME Typed, ParserNext
  PROVE  /\ code = "none"
         /\ \E t \in Tokens :
              /\ text' = Append(text, t) /\ Reads(t)
              /\ Len(text) < MaxText \/ t = End
<1>1. PICK t \in Tokens :
        /\ code = "none"
        /\ Len(text) < MaxText \/ t = End
        /\ text' = Append(text, t)
        /\ \/ ParseValue(t) \/ ParseFirst(t) \/ ParseItem(t) \/ ParseColon(t)
           \/ ParseAfter(t) \/ ParseEnd(t)
  BY DEF ParserNext
<1>2. Reads(t)
  BY <1>1, EveryRead DEF Typed
<1> QED
  BY <1>1, <1>2

(* the end of the text always ends the parse,                              *)
LEMMA EndEnds ==
  ASSUME Typed, Reads(End), code = "none"
  PROVE  code' # "none"
<1>1. /\ End \notin {LC, LB} \cup Strings \cup Scalars
      /\ End # RB /\ End # RC /\ End # Comma /\ End # Colon
  BY MarksDiffer
<1>2. \A f : CloseOf(f) \in {RB, RC}
  BY DEF CloseOf
<1>3. ReadsValue(End) => Refused
  BY <1>1 DEF ReadsValue
<1>4. ReadsKey(End) => Refused
  BY <1>1 DEF ReadsKey
<1>5. ~AtClose(End) /\ ~AtComma(End) /\ ~AtColon(End)
  BY <1>1, <1>2 DEF AtClose, AtComma, AtColon
<1>6. Refused \/ code' = "ok"
  BY <1>3, <1>4, <1>5, Zenon DEF Reads
<1> QED
  BY <1>6 DEF Refused

(* every reading keeps the stack within the depth and the count within the *)
(* nodes,                                                                  *)
LEMMA ReadsTyped ==
  ASSUME Typed, code = "none", NEW t, Reads(t)
  PROVE  /\ stack' \in Seq(Frames) /\ Len(stack') <= MaxDepth
         /\ nodes' \in 0 .. MaxNodes
         /\ phase' \in {"value", "first", "item", "colon", "after"}
         /\ phase' \in {"first", "item", "colon"} => stack' # << >>
<1>0. MaxDepth \in Nat /\ MaxNodes \in Nat /\ Len(stack) \in Nat /\ nodes \in Nat
  BY ParserConstants, LenProperties DEF Typed
<1> DEFINE Goal == /\ stack' \in Seq(Frames) /\ Len(stack') <= MaxDepth
                   /\ nodes' \in 0 .. MaxNodes
                   /\ phase' \in {"value", "first", "item", "colon", "after"}
                   /\ phase' \in {"first", "item", "colon"} => stack' # << >>
<1>1. Refused => Goal
  BY DEF Refused, Typed
<1>2. ASSUME ReadsValue(t) PROVE Goal
  <2>1. ASSUME Len(stack) < MaxDepth, nodes < MaxNodes, t \in {LC, LB},
               stack' = Append(stack, [kind |-> t, keys |-> << >>, key |-> "none"]),
               phase' = "first", nodes' = nodes + 1
        PROVE  Goal
    <3> DEFINE e == [kind |-> t, keys |-> << >>, key |-> "none"]
    <3>1. e \in Frames
      BY <2>1, NewFrames
    <3>2. stack' = Append(stack, e)
      BY <2>1
    <3> HIDE DEF e
    <3>3. stack' \in Seq(Frames) /\ Len(stack') = Len(stack) + 1 /\ stack' # << >>
      BY <3>1, <3>2, OneMore DEF Typed
    <3> QED
      BY <1>0, <2>1, <3>3
  <2>2. ASSUME nodes < MaxNodes, Completed(stack, nodes + 1)
        PROVE  Goal
    <3>1. nodes + 1 \in 0 .. MaxNodes
      BY <1>0, <2>2
    <3>2. /\ stack' \in Seq(Frames) /\ Len(stack') <= MaxDepth
          /\ nodes' \in 0 .. MaxNodes
          /\ Refused \/ (phase' = "after" /\ code' = code)
      BY <2>2, <3>1, CompletedTyped DEF Typed
    <3> QED
      BY <1>1, <3>2
  <2> HIDE DEF Goal
  <2> QED
    BY <1>1, <1>2, <2>1, <2>2, Zenon DEF ReadsValue
<1>3. ASSUME ReadsKey(t), stack # << >> PROVE Goal
  <2>1. ASSUME t \in Strings, stack' = Append(Front(stack), [Last(stack) EXCEPT !.key = t]),
               phase' = "colon", nodes' = nodes
        PROVE  Goal
    <3> DEFINE e == [Last(stack) EXCEPT !.key = t]
    <3>1. e \in Frames
      BY <1>3, <2>1, InnerIsFrame, NewFrames DEF Typed
    <3>2. stack' = Append(Front(stack), e)
      BY <2>1
    <3> HIDE DEF e
    <3>3. stack' \in Seq(Frames) /\ Len(stack') = Len(stack) /\ stack' # << >>
      BY <1>3, <3>1, <3>2, TopReplaced DEF Typed
    <3> QED
      BY <1>0, <2>1, <3>3 DEF Typed
  <2> HIDE DEF Goal
  <2> QED
    BY <1>1, <1>3, <2>1, Zenon DEF ReadsKey
<1>4. ASSUME stack # << >>, Completed(Front(stack), nodes) PROVE Goal
  <2>1. Front(stack) \in Seq(Frames) /\ Len(Front(stack)) <= MaxDepth
    BY <1>0, <1>4, FrontLast DEF Typed
  <2>2. /\ stack' \in Seq(Frames) /\ Len(stack') <= MaxDepth
        /\ nodes' \in 0 .. MaxNodes
        /\ Refused \/ (phase' = "after" /\ code' = code)
    BY <1>4, <2>1, CompletedTyped DEF Typed
  <2> QED
    BY <1>1, <2>2
<1>5. ASSUME stack # << >>, phase' = "item", UNCHANGED <<stack, nodes, code>>
      PROVE  Goal
  BY <1>5 DEF Typed
<1>6. ASSUME phase' = "value", UNCHANGED <<stack, nodes, code>>
      PROVE  Goal
  BY <1>6 DEF Typed
<1>7. ASSUME UNCHANGED <<stack, phase, nodes>>
      PROVE  Goal
  BY <1>7 DEF Typed
<1>8. /\ AtKey(t) => stack # << >>
      /\ AtClose(t) => stack # << >>
      /\ AtComma(t) => stack # << >>
  BY DEF AtKey, AtClose, AtComma, Typed
<1> HIDE DEF Goal
<1>9. Goal
  BY <1>1, <1>2, <1>3, <1>4, <1>5, <1>6, <1>7, <1>8, Zenon DEF Reads
<1> QED
  BY <1>9 DEF Goal

(* so the types hold after every step                                      *)
LEMMA NextTyped == Typed /\ [ParserNext]_parserVars => Typed'
<1>1. ASSUME Typed, ParserNext PROVE Typed'
  <2>1. PICK t \in Tokens :
          /\ text' = Append(text, t) /\ Reads(t)
          /\ Len(text) < MaxText \/ t = End
    BY <1>1, NextParts
  <2>2. code = "none"
    BY <1>1, NextParts
  <2>3. text' \in Texts /\ Len(text') = Len(text) + 1
    BY <1>1, <2>1, AppendIsThen, EmptyText DEF Typed
  <2>4. Len(text) \in Nat /\ MaxText \in Nat
    BY <1>1, ParserConstants, ConcatTexts DEF Typed
  <2>5. Len(text') <= MaxText + 1
    BY <1>1, <2>2, <2>3, <2>4 DEF Typed
  <2>6. code' = "none" => Len(text') <= MaxText
    <3>1. CASE t = End
      BY <1>1, <2>1, <2>2, <3>1, EndEnds
    <3>2. CASE t # End
      BY <2>1, <2>3, <2>4, <3>2
    <3> QED
      BY <3>1, <3>2
  <2>7. /\ stack' \in Seq(Frames) /\ Len(stack') <= MaxDepth
        /\ nodes' \in 0 .. MaxNodes
        /\ phase' \in {"value", "first", "item", "colon", "after"}
        /\ phase' \in {"first", "item", "colon"} => stack' # << >>
    BY <1>1, <2>1, <2>2, ReadsTyped
  <2> QED
    BY <2>3, <2>5, <2>6, <2>7 DEF Typed
<1>2. Typed /\ UNCHANGED parserVars => Typed'
  BY DEF Typed, parserVars
<1> QED
  BY <1>1, <1>2

(* and are the type invariant of the parser.                               *)
LEMMA TypedIsTypeOK == Typed => ParserTypeOK
<1> SUFFICES ASSUME Typed PROVE ParserTypeOK
  OBVIOUS
<1>1. \A i \in DOMAIN stack : stack[i].kind \in {LC, LB}
  <2> TAKE i \in DOMAIN stack
  <2>1. DOMAIN stack = 1 .. Len(stack)
    BY LenProperties DEF Typed
  <2>2. stack[i] \in Frames
    BY <2>1, ElementOfSeq DEF Typed
  <2> QED
    BY <2>2 DEF Frames
<1>2. \A i \in DOMAIN stack : stack[i].kind \in {"{", "["}
  BY <1>1, Zenon DEF LC, LB
<1>3. /\ text \in Seq(Tokens) /\ Len(text) <= MaxText + 1
      /\ Len(stack) <= MaxDepth /\ nodes \in 0 .. MaxNodes
      /\ phase \in {"value", "first", "item", "colon", "after"}
  BY DEF Typed, Texts
<1> QED
  BY <1>2, <1>3, Zenon DEF ParserTypeOK

-----------------------------------------------------------------------------
(* What may follow the value, and what the completed value, of a container *)
(* when Q may follow the container.                                        *)
KeysOf(f) == ToSet(f.keys)
(* What may follow, in front of a text of Q: the value a frame is in the   *)
(* middle of, what the frame holds so far, and a new item of it.           *)
Pending(f, Q) ==
  IF f.kind = LC
  THEN IF f.key \in KeysOf(f) THEN {} ELSE AfterMember(KeysOf(f) \cup {f.key}, Q)
  ELSE AfterElement(Q)
Closing(f, Q) ==
  IF f.kind = LC THEN AfterMember(KeysOf(f), Q) ELSE AfterElement(Q)
ItemsThen(f, Q) ==
  IF f.kind = LC THEN MembersThen(KeysOf(f), Q) ELSE ListThen(Q)

(* P tells what may follow inside each of the containers. *)
Chained(s, P) ==
  /\ P[0] = {One(End)}
  /\ \A i \in 1 .. Len(s) : P[i] = Pending(s[i], P[i - 1])
  /\ \A i \in 0 .. Len(s) : Follows(P[i])

(* Whether r may still be read. *)
Left(s, ph, P, r) ==
  LET n == Len(s) IN
  \/ ph = "value" /\ r \in ValueThen(P[n])
  \/ ph = "colon" /\ Valued(ValueThen(P[n]), r)
  \/ ph = "item" /\ r \in ItemsThen(s[n], P[n - 1])
  \/ /\ ph = "first"
     /\ \/ \E q \in P[n - 1] : r = Then(CloseOf(s[n]), q)
        \/ r \in ItemsThen(s[n], P[n - 1])
  \/ ph = "after" /\ n = 0 /\ r = One(End)
  \/ ph = "after" /\ n # 0 /\ r \in Closing(s[n], P[n - 1])

(* A frame before a continuation gives a continuation,                     *)
LEMMA FollowsPending ==
  ASSUME NEW Q, Follows(Q), NEW f
  PROVE  Follows(Pending(f, Q))
<1>1. /\ Follows(AfterElement(Q)) /\ Follows(AfterMember(KeysOf(f) \cup {f.key}, Q))
      /\ Follows({})
  BY FollowsAfter
<1> QED
  BY <1>1 DEF Pending

(* so every level of the chain is one,                                     *)
LEMMA ChainedFollows ==
  ASSUME NEW s \in Seq(Frames), NEW P, Chained(s, P)
  PROVE  /\ Follows(P[Len(s)])
         /\ s # << >> => Follows(P[Len(s) - 1])
         /\ s # << >> => P[Len(s)] = Pending(s[Len(s)], P[Len(s) - 1])
         /\ s # << >> => Len(s) \in Nat \ {0}
         /\ s = << >> => Len(s) = 0
<1>1. Len(s) \in Nat /\ (s = << >> <=> Len(s) = 0)
  BY LenProperties, EmptySeq
<1> QED
  BY <1>1 DEF Chained

(* and the chain of a stack is also one of the stack without its last      *)
(* frame.                                                                  *)
LEMMA ChainedFront ==
  ASSUME NEW s \in Seq(Frames), s # << >>, NEW P, Chained(s, P)
  PROVE  Chained(Front(s), P) /\ Len(Front(s)) = Len(s) - 1
<1>1. /\ Len(s) \in Nat \ {0} /\ Len(Front(s)) = Len(s) - 1
      /\ \A i \in 1 .. Len(s) - 1 : Front(s)[i] = s[i]
  BY FrontLast
<1> QED
  BY <1>1 DEF Chained

(* A container is entered, or the innermost one changes.                   *)
LEMMA Rechained ==
  ASSUME NEW s \in Seq(Frames), NEW u \in Seq(Frames), NEW P, Chained(s, P),
         Len(u) # 0, Len(u) <= Len(s) + 1,
         \A i \in 1 .. Len(u) - 1 : u[i] = s[i]
  PROVE  \E R : /\ Chained(u, R)
                /\ R[Len(u) - 1] = P[Len(u) - 1]
                /\ R[Len(u)] = Pending(u[Len(u)], P[Len(u) - 1])
<1> DEFINE n == Len(u)
           R == [i \in 0 .. n |-> IF i = n THEN Pending(u[n], P[n - 1]) ELSE P[i]]
<1>1. n \in Nat \ {0} /\ Len(s) \in Nat /\ n - 1 \in 0 .. Len(s)
  BY LenProperties
<1>2. Follows(P[n - 1])
  BY <1>1 DEF Chained
<1> HIDE DEF n
<1>3. /\ R[n] = Pending(u[n], P[n - 1])
      /\ \A i \in 0 .. n - 1 : R[i] = P[i]
      /\ \A i \in 0 .. n : i = n \/ i \in 0 .. n - 1
  BY <1>1
<1> HIDE DEF R
<1>4. Follows(R[n])
  BY <1>2, <1>3, FollowsPending
<1>5. R[0] = {One(End)} /\ R[n - 1] = P[n - 1]
  BY <1>1, <1>3 DEF Chained
<1>6. ASSUME NEW i \in 0 .. n PROVE Follows(R[i])
  <2>1. CASE i = n
    BY <1>4, <2>1
  <2>2. CASE i \in 0 .. n - 1
    <3>1. i \in 0 .. Len(s)
      BY <1>1, <2>2
    <3> QED
      BY <1>3, <2>2, <3>1 DEF Chained
  <2> QED
    BY <1>3, <2>1, <2>2
<1>7. ASSUME NEW i \in 1 .. n PROVE R[i] = Pending(u[i], R[i - 1])
  <2>1. CASE i = n
    BY <1>3, <1>5, <2>1
  <2>2. CASE i \in 1 .. n - 1
    <3>1. /\ i \in 1 .. Len(s) /\ i \in 0 .. n - 1 /\ i - 1 \in 0 .. n - 1
      BY <1>1, <2>2
    <3>2. u[i] = s[i]
      BY <2>2 DEF n
    <3>3. P[i] = Pending(s[i], P[i - 1])
      BY <3>1 DEF Chained
    <3> QED
      BY <1>3, <3>1, <3>2, <3>3
  <2> QED
    BY <1>1, <2>1, <2>2
<1>8. Chained(u, R)
  BY <1>5, <1>6, <1>7 DEF Chained, n
<1> QED
  BY <1>3, <1>5, <1>8 DEF n

(* One key more.                                                           *)
LEMMA SetOfMore ==
  ASSUME NEW S, NEW s \in Seq(S), NEW e \in S
  PROVE  ToSet(Append(s, e)) = ToSet(s) \cup {e}
<1> DEFINE u == Append(s, e)
<1>1. /\ u \in Seq(S) /\ Len(u) = Len(s) + 1 /\ u[Len(s) + 1] = e
      /\ \A i \in 1 .. Len(s) : u[i] = s[i]
      /\ Len(s) \in Nat
  BY OneMore
<1>2. DOMAIN s = 1 .. Len(s) /\ DOMAIN u = 1 .. Len(u)
  BY <1>1, LenProperties
<1> HIDE DEF u
<1>3. \A x : x \in ToSet(u) <=> \E i \in 1 .. Len(s) + 1 : x = u[i]
  BY <1>1, <1>2 DEF ToSet
<1>4. \A x : x \in ToSet(s) <=> \E i \in 1 .. Len(s) : x = s[i]
  BY <1>2 DEF ToSet
<1>5. \A i : i \in 1 .. Len(s) + 1 <=> i \in 1 .. Len(s) \/ i = Len(s) + 1
  BY <1>1
<1>6. ASSUME NEW x PROVE x \in ToSet(u) <=> x \in ToSet(s) \/ x = e
  BY <1>1, <1>3, <1>4, <1>5
<1> QED
  BY <1>6 DEF u

(* A value is complete: what may follow it is what may be read, and when   *)
(* its key is not new nothing may.                                         *)
LEMMA CompletedLeft ==
  ASSUME NEW outer \in Seq(Frames), NEW P, Chained(outer, P), NEW count,
         Completed(outer, count)
  PROVE  \/ Refused /\ P[Len(outer)] = {}
         \/ /\ phase' = "after" /\ UNCHANGED code
            /\ \E R : /\ Chained(stack', R)
                      /\ \A r \in Texts : r \in P[Len(outer)] <=>
                                            Left(stack', "after", R, r)
<1> DEFINE n == Len(outer)
<1>1. /\ n \in Nat /\ (outer = << >> <=> n = 0)
      /\ outer # << >> => P[n] = Pending(outer[n], P[n - 1])
      /\ Last(outer) = outer[n]
      /\ P[0] = {One(End)}
  BY ChainedFollows, LenProperties, EmptySeq DEF Last, Chained
<1>2. ASSUME outer # << >>, Last(outer).kind = LC, Last(outer).key \in ToSet(Last(outer).keys)
      PROVE  P[n] = {}
  BY <1>1, <1>2 DEF Pending, KeysOf
<1>3. ASSUME outer = << >>, stack' = outer
      PROVE  /\ Chained(stack', P)
             /\ \A r \in Texts : r \in P[n] <=> Left(stack', "after", P, r)
  BY <1>1, <1>3 DEF Left
<1>4. ASSUME outer # << >>, Last(outer).kind # LC, stack' = outer
      PROVE  /\ Chained(stack', P)
             /\ \A r \in Texts : r \in P[n] <=> Left(stack', "after", P, r)
  BY <1>1, <1>4 DEF Left, Pending, Closing
<1>5. ASSUME outer # << >>, Last(outer).kind = LC,
             Last(outer).key \notin ToSet(Last(outer).keys),
             stack' = Append(Front(outer),
                   [Last(outer) EXCEPT !.keys = Append(@, Last(outer).key)])
      PROVE  \E R : /\ Chained(stack', R)
                    /\ \A r \in Texts : r \in P[n] <=> Left(stack', "after", R, r)
  <2> DEFINE f == Last(outer)
             e == [f EXCEPT !.keys = Append(@, f.key)]
  <2>1. f \in Frames
    BY <1>5, InnerIsFrame
  <2>2. /\ e \in Frames /\ e.kind = f.kind /\ e.key = f.key
        /\ e.keys = Append(f.keys, f.key)
    BY <2>1, NewFrames
  <2>3. stack' = Append(Front(outer), e)
    BY <1>5
  <2>4. f.keys \in Seq(Strings \cup {"none"}) /\ f.key \in Strings \cup {"none"}
    BY <2>1 DEF Frames
  <2> HIDE DEF e, f
  <2>5. ToSet(e.keys) = ToSet(f.keys) \cup {f.key}
    BY <2>2, <2>4, SetOfMore
  <2>6. /\ stack' \in Seq(Frames) /\ Len(stack') = n /\ stack'[n] = e
        /\ \A i \in 1 .. n - 1 : stack'[i] = outer[i]
    BY <1>5, <2>2, <2>3, TopReplaced
  <2>7. PICK R : Chained(stack', R) /\ R[n - 1] = P[n - 1]
    <3> DEFINE u == stack'
    <3>1. /\ u \in Seq(Frames) /\ Len(u) = n /\ n # 0 /\ n <= Len(outer) + 1
          /\ \A i \in 1 .. n - 1 : u[i] = outer[i]
      BY <1>1, <1>5, <2>6
    <3> HIDE DEF u
    <3>2. \E R : Chained(u, R) /\ R[n - 1] = P[n - 1]
      BY <3>1, Rechained
    <3> QED
      BY <3>2 DEF u
  <2>8. P[n] = AfterMember(ToSet(f.keys) \cup {f.key}, P[n - 1])
    BY <1>1, <1>5 DEF Pending, KeysOf, f
  <2>9. Closing(e, P[n - 1]) = P[n]
    BY <1>5, <2>2, <2>5, <2>8 DEF Closing, KeysOf, f
  <2>10. \A r \in Texts : r \in P[n] <=> Left(stack', "after", R, r)
    BY <1>1, <1>5, <2>6, <2>7, <2>9 DEF Left
  <2> QED
    BY <2>7, <2>10
<1> HIDE DEF n
<1>6. ASSUME stack' = outer, outer = << >> \/ Last(outer).kind # LC
      PROVE  \E R : /\ Chained(stack', R)
                    /\ \A r \in Texts : r \in P[n] <=> Left(stack', "after", R, r)
  BY <1>3, <1>4, <1>6, Zenon
<1> QED
  BY <1>2, <1>5, <1>6, Zenon DEF Completed, n

-----------------------------------------------------------------------------
(* A value starts with a token of its own, and after one that could be a   *)
(* key no colon comes.                                                     *)
LEMMA ValueStarts ==
  ASSUME NEW Q, Follows(Q), NEW t \in Tokens, NEW r \in Texts, Len(r) <= MaxText,
         Then(t, r) \in ValueThen(Q)
  PROVE  /\ t \in {LC, LB} \cup Strings \cup Scalars
         /\ Len(r) \in Nat \ {0} /\ r[1] # Colon
<1>1. \/ t \in Strings \cup Scalars /\ r \in Q
      \/ t = LB /\ ((\E q \in Q : r = Then(RB, q)) \/ r \in ListThen(Q))
      \/ t = LC /\ ((\E q \in Q : r = Then(RC, q)) \/ r \in MembersThen({}, Q))
  BY ValueBegins
<1>2. ASSUME NEW u \in Tokens, NEW b \in Texts
      PROVE  Len(Then(u, b)) \in Nat \ {0} /\ Then(u, b)[1] = u
  BY ThenParts
<1>3. /\ \A q \in Q : q \in Texts /\ Len(q) \in Nat \ {0} /\ q[1] # Colon
      /\ MaxText \in Nat /\ Len(r) \in Nat
  BY ParserConstants, ConcatTexts DEF Follows
<1>m. /\ RB \in Tokens /\ RC \in Tokens /\ RB # Colon /\ RC # Colon
      /\ LB # Colon /\ LC # Colon /\ \A s \in Strings \cup Scalars : s # Colon
  BY MarksAreTokens, MarksDiffer
<1>10. t \in {LC, LB} \cup Strings \cup Scalars
  BY <1>1
<1>4. CASE r \in Q
  BY <1>3, <1>4, <1>10
<1>5. CASE \E q \in Q : r = Then(RB, q) \/ r = Then(RC, q)
  <2>1. PICK q \in Q : r = Then(RB, q) \/ r = Then(RC, q)
    BY <1>5
  <2>2. q \in Texts
    BY <1>3
  <2>3. CASE r = Then(RB, q)
    BY <1>2, <1>m, <1>10, <2>2, <2>3
  <2>4. CASE r = Then(RC, q)
    BY <1>2, <1>m, <1>10, <2>2, <2>4
  <2> QED
    BY <2>1, <2>3, <2>4
<1>6. ASSUME r # << >>
      PROVE  \E u \in Tokens, b \in Texts : r = Then(u, b) /\ Len(b) <= MaxText /\ r[1] = u
  <2>1. PICK u \in Tokens, b \in Texts : r = Then(u, b) /\ Len(r) = 1 + Len(b)
    BY <1>6, ThenExists
  <2>2. Len(b) \in Nat /\ r[1] = u
    BY <1>2, <2>1, ConcatTexts
  <2>3. Len(b) <= MaxText
    BY <1>3, <2>1, <2>2
  <2> QED
    BY <2>1, <2>2, <2>3
<1>7. \A q \in Q : q \in Texts
  BY <1>3
<1>8. CASE r \in ListThen(Q)
  <2>1. r # << >>
    <3>1. PICK x \in Lists, q \in Q : r = x \o Then(RB, q)
      BY <1>8 DEF ListThen
    <3>2. x \in Texts /\ q \in Texts
      BY <1>7, AreTexts
    <3>3. Len(r) = Len(x) + 1 + Len(q) /\ Len(x) \in Nat /\ Len(q) \in Nat
      BY <1>m, <3>1, <3>2, TailThen
    <3>4. Len(r) # 0
      BY <3>3
    <3> QED
      BY <3>4, EmptyText
  <2>2. PICK u \in Tokens, b \in Texts : r = Then(u, b) /\ Len(b) <= MaxText /\ r[1] = u
    BY <1>6, <2>1
  <2>3. Len(r) <= MaxText + 1
    BY <1>3
  <2>4. r \in ValueThen(AfterElement(Q))
    BY <1>8, <2>3, ListIsValue
  <2>5. Follows(AfterElement(Q))
    BY FollowsAfter
  <2>6. u \in Strings \cup Scalars \/ u = LB \/ u = LC
    <3>1. Then(u, b) \in ValueThen(AfterElement(Q))
      BY <2>2, <2>4
    <3> QED
      BY <2>2, <2>5, <3>1, ValueBegins
  <2>7. Len(r) \in Nat \ {0}
    BY <1>2, <2>2
  <2> QED
    BY <1>1, <1>m, <2>2, <2>6, <2>7
<1>9. CASE r \in MembersThen({}, Q)
  <2>1. r # << >>
    <3>1. PICK m \in Members, q \in Q : r = m.text \o Then(RC, q)
      BY <1>9 DEF MembersThen
    <3> DEFINE x == m.text
    <3>2. x \in Texts /\ q \in Texts
      BY <1>7, AreTexts DEF IsMember
    <3>5. r = x \o Then(RC, q)
      BY <3>1
    <3> HIDE DEF x
    <3>3. Len(r) = Len(x) + 1 + Len(q) /\ Len(x) \in Nat /\ Len(q) \in Nat
      BY <1>m, <3>5, <3>2, TailThen
    <3>4. Len(r) # 0
      BY <3>3
    <3> QED
      BY <3>4, EmptyText
  <2>2. PICK u \in Tokens, b \in Texts : r = Then(u, b) /\ Len(b) <= MaxText /\ r[1] = u
    BY <1>6, <2>1
  <2>3. u \in Strings
    <3>1. Then(u, b) \in MembersThen({}, Q)
      BY <1>9, <2>2
    <3> QED
      BY <2>2, <3>1, MembersBegin
  <2>4. Len(r) \in Nat \ {0}
    BY <1>2, <2>2
  <2> QED
    BY <1>1, <1>m, <2>2, <2>3, <2>4
<1> QED
  BY <1>1, <1>4, <1>5, <1>8, <1>9, <1>10

-----------------------------------------------------------------------------
(* What may be read, at each place.                                        *)
LEMMA LeftAtValue ==
  ASSUME stack \in Seq(Frames), phase = "item" \/ phase = "first" => stack # << >>,
         NEW P, Chained(stack, P), NEW t \in Tokens, AtValue(t),
         NEW r \in Texts, Len(r) <= MaxText
  PROVE  Left(stack, phase, P, Then(t, r)) <=> Then(t, r) \in ValueThen(P[Len(stack)])
<1> DEFINE n == Len(stack)
           z == Then(t, r)
<1>1. /\ MaxText \in Nat /\ Len(r) \in Nat /\ z \in Texts /\ Len(z) = 1 + Len(r)
  BY ParserConstants, ThenParts
<1>2. Len(z) <= MaxText + 1
  BY <1>1
<1>3. ASSUME stack # << >>, Inner.kind = LB
      PROVE  /\ ItemsThen(stack[n], P[n - 1]) = ListThen(P[n - 1])
             /\ P[n] = AfterElement(P[n - 1])
             /\ Follows(P[n - 1])
             /\ CloseOf(stack[n]) = RB
  <2>1. stack[n].kind # LC
    BY <1>3, MarksDiffer DEF Inner, Last
  <2>2. P[n] = Pending(stack[n], P[n - 1]) /\ Follows(P[n - 1])
    BY <1>3, ChainedFollows
  <2> QED
    BY <2>1, <2>2 DEF ItemsThen, Pending, CloseOf
<1>4. ASSUME stack # << >>, Inner.kind = LB
      PROVE  z \in ListThen(P[n - 1]) <=> z \in ValueThen(P[n])
  <2> HIDE DEF z
  <2>1. z \in ListThen(P[n - 1]) <=> z \in ValueThen(AfterElement(P[n - 1]))
    BY <1>1, <1>2, <1>3, <1>4, ListIsValue
  <2> QED
    BY <1>3, <1>4, <2>1
<1>5. ASSUME stack # << >>, t # RB
      PROVE  ~ \E q \in P[n - 1] : z = Then(RB, q)
  <2>1. \A q \in P[n - 1] : q \in Texts
    BY <1>5, ChainedFollows DEF Follows
  <2> QED
    BY <1>5, <2>1, ThenInjective, MarksAreTokens
<1> HIDE DEF z, n
<1>6. CASE phase = "value"
  BY <1>6 DEF Left, n
<1>7. CASE phase = "item" /\ Inner.kind = LB
  <2>1. Left(stack, phase, P, z) <=> z \in ItemsThen(stack[n], P[n - 1])
    BY <1>7 DEF Left, n
  <2> QED
    BY <1>3, <1>4, <1>7, <2>1 DEF z, n
<1>8. CASE phase = "first" /\ Inner.kind = LB /\ t # RB
  <2>1. Left(stack, phase, P, z) <=>
          \/ \E q \in P[n - 1] : z = Then(CloseOf(stack[n]), q)
          \/ z \in ItemsThen(stack[n], P[n - 1])
    BY <1>8 DEF Left, n
  <2>2. Left(stack, phase, P, z) <=> z \in ListThen(P[n - 1])
    BY <1>3, <1>5, <1>8, <2>1
  <2> QED
    BY <1>4, <1>8, <2>2 DEF z, n
<1> QED
  BY <1>6, <1>7, <1>8 DEF AtValue

(* Before a key, the rest is valid when the key is new and a value follows *)
(* it.                                                                     *)
LEMMA LeftAtKey ==
  ASSUME stack \in Seq(Frames), phase = "item" \/ phase = "first" => stack # << >>,
         NEW P, Chained(stack, P), NEW t \in Tokens, AtKey(t),
         NEW r \in Texts, Len(r) <= MaxText
  PROVE  Left(stack, phase, P, Then(t, r)) <=>
           /\ t \in Strings /\ t \notin KeysOf(Inner)
           /\ Valued(ValueThen(AfterMember(KeysOf(Inner) \cup {t}, P[Len(stack) - 1])), r)
<1> DEFINE n == Len(stack)
           Q == P[n - 1]
           y == Then(t, r)
<1>1. stack # << >> /\ Inner = stack[n] /\ stack[n].kind = LC
  BY DEF AtKey, Inner, Last
<1>2. Follows(Q)
  BY <1>1, ChainedFollows
<1> HIDE DEF Q
<1>3. y \in MembersThen(KeysOf(Inner), Q) <=>
        /\ t \in Strings /\ t \notin KeysOf(Inner)
        /\ Valued(ValueThen(AfterMember(KeysOf(Inner) \cup {t}, Q)), r)
  <2> DEFINE K == KeysOf(Inner)
  <2> HIDE DEF K
  <2>1. Then(t, r) \in MembersThen(K, Q) <=>
          /\ t \in Strings /\ t \notin K
          /\ Valued(ValueThen(AfterMember(K \cup {t}, Q)), r)
    BY <1>2, MembersBegin
  <2> QED
    BY <2>1 DEF K
<1>4. t # RC => ~ \E q \in Q : y = Then(RC, q)
  <2>1. \A q \in Q : q \in Texts
    BY <1>2 DEF Follows
  <2> QED
    BY <2>1, ThenInjective, MarksAreTokens
<1> HIDE DEF y, n
<1>5. ItemsThen(stack[n], Q) = MembersThen(KeysOf(Inner), Q) /\ CloseOf(stack[n]) = RC
  BY <1>1 DEF ItemsThen, CloseOf
<1>6. CASE phase = "item"
  <2>1. Left(stack, phase, P, y) <=> y \in ItemsThen(stack[n], Q)
    BY <1>6 DEF Left, n, Q
  <2> QED
    BY <1>3, <1>5, <2>1 DEF y, Q, n
<1>7. CASE phase = "first" /\ t # RC
  <2>1. Left(stack, phase, P, y) <=>
          \/ \E q \in Q : y = Then(CloseOf(stack[n]), q)
          \/ y \in ItemsThen(stack[n], Q)
    BY <1>7 DEF Left, n, Q
  <2>2. Left(stack, phase, P, y) <=> y \in MembersThen(KeysOf(Inner), Q)
    BY <1>4, <1>5, <1>7, <2>1
  <2> QED
    BY <1>3, <2>2 DEF y, Q, n
<1> QED
  BY <1>6, <1>7 DEF AtKey

(* After an element or a member, and before it. *)
LEMMA LeftAfter ==
  ASSUME stack \in Seq(Frames), stack # << >>, NEW P, Chained(stack, P),
         NEW t \in Tokens, NEW r \in Texts
  PROVE  Then(t, r) \in Closing(Inner, P[Len(stack) - 1]) <=>
           \/ t = CloseOf(Inner) /\ r \in P[Len(stack) - 1]
           \/ t = Comma /\ r \in ItemsThen(Inner, P[Len(stack) - 1])
<1> DEFINE Q == P[Len(stack) - 1]
<1>1. Follows(Q)
  BY ChainedFollows
<1> HIDE DEF Q
<1>2. /\ Then(t, r) \in AfterElement(Q) <=>
              (t = RB /\ r \in Q) \/ (t = Comma /\ r \in ListThen(Q))
      /\ Then(t, r) \in AfterMember(KeysOf(Inner), Q) <=>
              (t = RC /\ r \in Q) \/ (t = Comma /\ r \in MembersThen(KeysOf(Inner), Q))
  BY <1>1, AfterBegins
<1>3. CASE Inner.kind = LC
  BY <1>2, <1>3, Zenon DEF Closing, CloseOf, ItemsThen, Q
<1>4. CASE Inner.kind # LC
  BY <1>2, <1>4, Zenon DEF Closing, CloseOf, ItemsThen, Q
<1> QED
  BY <1>3, <1>4

(* No item starts with the closing mark,                                   *)
LEMMA NoItemCloses ==
  ASSUME stack \in Seq(Frames), stack # << >>, NEW P, Chained(stack, P),
         NEW t \in Tokens, t = CloseOf(Inner), NEW r \in Texts, Len(r) <= MaxText
  PROVE  Then(t, r) \notin ItemsThen(Inner, P[Len(stack) - 1])
<1> DEFINE Q == P[Len(stack) - 1]
           z == Then(t, r)
<1>1. Follows(Q)
  BY ChainedFollows
<1> HIDE DEF Q
<1>2. /\ t = RB \/ t = RC
      /\ t \notin Strings \cup Scalars /\ t # LB /\ t # LC
  BY MarksDiffer DEF CloseOf
<1>3. z \notin MembersThen(KeysOf(Inner), Q)
  BY <1>1, <1>2, MembersBegin
<1>4. z \notin ListThen(Q)
  <2>1. /\ MaxText \in Nat /\ Len(r) \in Nat /\ z \in Texts /\ Len(z) = 1 + Len(r)
    BY ParserConstants, ThenParts
  <2>2. Len(z) <= MaxText + 1
    BY <2>1
  <2>3. Follows(AfterElement(Q))
    BY <1>1, FollowsAfter
  <2>4. z \notin ValueThen(AfterElement(Q))
    BY <1>2, <2>3, ValueBegins
  <2> HIDE DEF z
  <2> QED
    BY <1>1, <2>1, <2>2, <2>4, ListIsValue
<1> QED
  BY <1>3, <1>4 DEF ItemsThen, Q

(* so at a closing mark what is left is what the frame was waiting in      *)
(* front of.                                                               *)
LEMMA LeftAtClose ==
  ASSUME stack \in Seq(Frames), NEW P, Chained(stack, P), NEW t \in Tokens, AtClose(t),
         NEW r \in Texts, Len(r) <= MaxText
  PROVE  Left(stack, phase, P, Then(t, r)) <=> r \in P[Len(Front(stack))]
<1> DEFINE n == Len(stack)
           Q == P[n - 1]
           z == Then(t, r)
<1>1. /\ stack # << >> /\ Inner = stack[n] /\ t = CloseOf(Inner) /\ n # 0
      /\ Len(Front(stack)) = n - 1
  BY FrontLast DEF AtClose, Inner, Last
<1>2. z \in Closing(Inner, Q) <=> r \in Q
  BY <1>1, LeftAfter, MarksDiffer DEF CloseOf
<1>3. z \notin ItemsThen(Inner, Q)
  BY <1>1, NoItemCloses
<1>4. (\E q \in Q : z = Then(CloseOf(Inner), q)) <=> r \in Q
  <2>1. \A q \in Q : q \in Texts
    BY <1>1, ChainedFollows DEF Follows
  <2>2. \A q \in Q : z = Then(t, q) => r = q
    BY <2>1, ThenInjective
  <2> QED
    BY <1>1, <2>2
<1> HIDE DEF z, n, Q
<1>5. CASE phase = "after"
  <2>1. Left(stack, phase, P, z) <=> z \in Closing(stack[n], Q)
    BY <1>1, <1>5 DEF Left, n, Q
  <2> QED
    BY <1>1, <1>2, <2>1 DEF z, Q
<1>6. CASE phase = "first"
  <2>1. Left(stack, phase, P, z) <=>
          \/ \E q \in Q : z = Then(CloseOf(stack[n]), q)
          \/ z \in ItemsThen(stack[n], Q)
    BY <1>6 DEF Left, n, Q
  <2> QED
    BY <1>1, <1>3, <1>4, <2>1 DEF z, Q
<1> QED
  BY <1>5, <1>6 DEF AtClose

-----------------------------------------------------------------------------
(* A token that is read leaves the rest to be read, and one that is        *)
(* refused could not have been read, but for the limits.                   *)
Agrees(P, t) ==
  /\ code' = "none"
  /\ \E R : /\ Chained(stack', R)
            /\ \A r \in Texts : Len(r) <= MaxText =>
                 (Left(stack, phase, P, Then(t, r)) <=> Left(stack', phase', R, r))
(* The parser refuses, and no text could have continued the document.      *)
Hopeless(P, t) ==
  /\ Refused
  /\ \A r \in Texts : Len(r) <= MaxText => ~ Left(stack, phase, P, Then(t, r))

(* A completed value leaves exactly the continuations there were, or the   *)
(* parser refuses where there were none.                                   *)
LEMMA CompletedAgrees ==
  ASSUME NEW outer \in Seq(Frames), NEW P, Chained(outer, P), NEW count,
         Completed(outer, count), code = "none", NEW t,
         \A r \in Texts : Len(r) <= MaxText =>
           (Left(stack, phase, P, Then(t, r)) <=> r \in P[Len(outer)])
  PROVE  Agrees(P, t) \/ Hopeless(P, t)
<1>1. \/ Refused /\ P[Len(outer)] = {}
      \/ /\ phase' = "after" /\ UNCHANGED code
         /\ \E R : /\ Chained(stack', R)
                   /\ \A r \in Texts : r \in P[Len(outer)] <=>
                                         Left(stack', "after", R, r)
  BY CompletedLeft
<1>2. CASE Refused /\ P[Len(outer)] = {}
  BY <1>2 DEF Hopeless
<1>3. ASSUME phase' = "after", code' = code, NEW R, Chained(stack', R),
             \A r \in Texts : r \in P[Len(outer)] <=> Left(stack', "after", R, r)
      PROVE  Agrees(P, t)
  <2>1. \A r \in Texts : Len(r) <= MaxText =>
          (Left(stack, phase, P, Then(t, r)) <=> Left(stack', phase', R, r))
    BY <1>3
  <2> QED
    BY <1>3, <2>1 DEF Agrees
<1> QED
  BY <1>1, <1>2, <1>3

(* So does an opening mark                                                 *)
LEMMA OpenAgrees ==
  ASSUME Typed, code = "none", NEW P, Chained(stack, P), NEW t \in {LC, LB},
         AtValue(t),
         stack' = Append(stack, [kind |-> t, keys |-> << >>, key |-> "none"]),
         phase' = "first", UNCHANGED code
  PROVE  Agrees(P, t)
<1> DEFINE e == [kind |-> t, keys |-> << >>, key |-> "none"]
           n == Len(stack)
           Q == P[n]
<1>1. /\ stack \in Seq(Frames) /\ Len(stack) \in Nat /\ e \in Frames
      /\ t \in Tokens
      /\ phase = "item" \/ phase = "first" => stack # << >>
  BY NewFrames, LenProperties, MarksAreTokens DEF Typed
<1>2. stack' = Append(stack, e)
  OBVIOUS
<1>3. e.kind = t /\ KeysOf(e) = {}
  BY DEF KeysOf, ToSet
<1> HIDE DEF e
<1>4. /\ stack' \in Seq(Frames) /\ Len(stack') = n + 1 /\ stack'[n + 1] = e
      /\ \A i \in 1 .. n : stack'[i] = stack[i]
  BY <1>1, <1>2, OneMore
<1>5. PICK R : Chained(stack', R) /\ R[n] = P[n]
  <2> DEFINE u == stack'
  <2>1. u \in Seq(Frames) /\ Len(u) # 0 /\ Len(u) <= n + 1 /\ Len(u) - 1 = n
    BY <1>1, <1>4
  <2>2. \A i \in 1 .. Len(u) - 1 : u[i] = stack[i]
    BY <1>4, <2>1
  <2> HIDE DEF u
  <2>3. \E R : Chained(u, R) /\ R[Len(u) - 1] = P[Len(u) - 1]
    BY <1>1, <2>1, <2>2, Rechained
  <2> QED
    BY <2>1, <2>3 DEF u
<1>6. Follows(Q)
  BY <1>1, ChainedFollows
<1> HIDE DEF Q
<1>7. ASSUME NEW r \in Texts, Len(r) <= MaxText
      PROVE  Left(stack, phase, P, Then(t, r)) <=> Left(stack', phase', R, r)
  <2>1. Left(stack, phase, P, Then(t, r)) <=> Then(t, r) \in ValueThen(Q)
    BY <1>1, <1>7, LeftAtValue DEF Q
  <2>2. Then(t, r) \in ValueThen(Q) <=>
          \/ t = LB /\ ((\E q \in Q : r = Then(RB, q)) \/ r \in ListThen(Q))
          \/ t = LC /\ ((\E q \in Q : r = Then(RC, q)) \/ r \in MembersThen({}, Q))
    <3>1. t \notin Strings \cup Scalars
      BY MarksDiffer
    <3> QED
      BY <1>1, <1>6, <1>7, <3>1, ValueBegins
  <2>3. n + 1 - 1 = n /\ Len(stack') - 1 = n
    BY <1>1, <1>4
  <2>4. Left(stack', phase', R, r) <=>
          \/ \E q \in Q : r = Then(CloseOf(e), q)
          \/ r \in ItemsThen(e, Q)
    <3> DEFINE u == stack'
    <3>1. u[Len(u)] = e /\ R[Len(u) - 1] = Q /\ phase' = "first"
      BY <1>4, <1>5, <2>3 DEF Q
    <3> HIDE DEF u
    <3>2. Left(u, phase', R, r) <=>
            \/ \E q \in Q : r = Then(CloseOf(e), q)
            \/ r \in ItemsThen(e, Q)
      BY <3>1 DEF Left
    <3> QED
      BY <3>2 DEF u
  <2>5. CASE t = LB
    <3>1. CloseOf(e) = RB /\ ItemsThen(e, Q) = ListThen(Q)
      BY <1>3, <2>5, MarksDiffer DEF CloseOf, ItemsThen
    <3> QED
      BY <2>1, <2>2, <2>4, <2>5, <3>1, MarksDiffer
  <2>6. CASE t = LC
    <3>1. CloseOf(e) = RC /\ ItemsThen(e, Q) = MembersThen({}, Q)
      BY <1>3, <2>6, MarksDiffer DEF CloseOf, ItemsThen
    <3> QED
      BY <2>1, <2>2, <2>4, <2>6, <3>1, MarksDiffer
  <2> QED
    BY <2>5, <2>6
<1> QED
  BY <1>5, <1>7 DEF Agrees

(* and a key.                                                              *)
LEMMA KeyAgrees ==
  ASSUME Typed, code = "none", NEW P, Chained(stack, P), NEW t \in Tokens,
         AtKey(t), ReadsKey(t)
  PROVE  Agrees(P, t) \/ Hopeless(P, t)
<1> DEFINE n == Len(stack)
           Q == P[n - 1]
<1>1. /\ stack \in Seq(Frames) /\ stack # << >> /\ Inner \in Frames
      /\ Inner.kind = LC /\ n \in Nat \ {0}
      /\ phase = "item" \/ phase = "first" => stack # << >>
  BY InnerIsFrame, ChainedFollows DEF Typed, AtKey, Inner
<1>2. ASSUME NEW r \in Texts, Len(r) <= MaxText
      PROVE  Left(stack, phase, P, Then(t, r)) <=>
               /\ t \in Strings /\ t \notin KeysOf(Inner)
               /\ Valued(ValueThen(AfterMember(KeysOf(Inner) \cup {t}, Q)), r)
  BY <1>1, <1>2, LeftAtKey
<1>3. CASE t \notin Strings /\ Refused
  BY <1>2, <1>3 DEF Hopeless
<1>4. ASSUME t \in Strings, stack' = Append(Front(stack), [Last(stack) EXCEPT !.key = t]),
             phase' = "colon", UNCHANGED <<nodes, code>>
      PROVE  Agrees(P, t)
  <2> DEFINE e == [Inner EXCEPT !.key = t]
             K == KeysOf(Inner)
  <2>1. e \in Frames /\ e.kind = LC /\ KeysOf(e) = K /\ e.key = t
    BY <1>1, <1>4, NewFrames DEF KeysOf
  <2>2. stack' = Append(Front(stack), e)
    BY <1>4 DEF Inner
  <2> HIDE DEF e
  <2>3. /\ stack' \in Seq(Frames) /\ Len(stack') = n /\ stack'[n] = e
        /\ \A i \in 1 .. n - 1 : stack'[i] = stack[i]
    BY <1>1, <2>1, <2>2, TopReplaced
  <2>4. PICK R : Chained(stack', R) /\ R[n] = Pending(e, Q)
    <3> DEFINE u == stack'
    <3>1. /\ u \in Seq(Frames) /\ Len(u) = n /\ n # 0 /\ n <= Len(stack) + 1
          /\ u[n] = e /\ \A i \in 1 .. n - 1 : u[i] = stack[i]
      BY <1>1, <2>3
    <3> HIDE DEF u
    <3>2. \E R : Chained(u, R) /\ R[n] = Pending(u[n], P[n - 1])
      BY <1>1, <3>1, Rechained
    <3> QED
      BY <3>1, <3>2 DEF u
  <2>5. R[n] = IF t \in K THEN {} ELSE AfterMember(K \cup {t}, Q)
    BY <2>1, <2>4 DEF Pending
  <2>6. ASSUME NEW r \in Texts, Len(r) <= MaxText
        PROVE  Left(stack, phase, P, Then(t, r)) <=> Left(stack', phase', R, r)
    <3>1. Left(stack', phase', R, r) <=> Valued(ValueThen(R[n]), r)
      BY <1>4, <2>3 DEF Left
    <3>2. CASE t \in K
      <4>1. ~ Valued(ValueThen({}), r)
        BY DEF Valued, ValueThen
      <4> QED
        BY <1>2, <2>5, <2>6, <3>1, <3>2, <4>1
    <3>3. CASE t \notin K
      <4>1. R[n] = AfterMember(K \cup {t}, Q)
        BY <2>5, <3>3
      <4>2. Left(stack, phase, P, Then(t, r)) <=> Valued(ValueThen(AfterMember(K \cup {t}, Q)), r)
        BY <1>2, <1>4, <2>6, <3>3
      <4> QED
        BY <3>1, <4>1, <4>2, Zenon
    <3> QED
      BY <3>2, <3>3
  <2> QED
    BY <1>4, <2>4, <2>6 DEF Agrees
<1> QED
  BY <1>3, <1>4 DEF ReadsKey

(* Reading a token leaves exactly the continuations that start with it;    *)
(* the parser refuses only when none do or when a limit is reached, and    *)
(* accepts only at the end.                                                *)
LEMMA ReadsLeft ==
  ASSUME Typed, code = "none", NEW P, Chained(stack, P), NEW t \in Tokens, Reads(t)
  PROVE  \/ Agrees(P, t)
         \/ Hopeless(P, t)
         \/ Refused /\ AtValue(t) /\ (Len(stack) >= MaxDepth \/ nodes >= MaxNodes)
         \/ phase = "after" /\ stack = << >> /\ t = End /\ code' = "ok"
<1>1. /\ stack \in Seq(Frames) /\ Len(stack) \in Nat
      /\ phase = "item" \/ phase = "first" => stack # << >>
      /\ phase = "colon" => stack # << >>
  BY LenProperties DEF Typed
<1>2. ASSUME AtValue(t), ReadsValue(t)
      PROVE  \/ Agrees(P, t) \/ Hopeless(P, t)
             \/ Refused /\ AtValue(t) /\ (Len(stack) >= MaxDepth \/ nodes >= MaxNodes)
  <2>1. \A r \in Texts : Len(r) <= MaxText =>
          (Left(stack, phase, P, Then(t, r)) <=> Then(t, r) \in ValueThen(P[Len(stack)]))
    BY <1>1, <1>2, LeftAtValue
  <2>2. Follows(P[Len(stack)])
    BY <1>1, ChainedFollows
  <2>3. ASSUME t \in Strings \cup Scalars, Completed(stack, nodes + 1)
        PROVE  Agrees(P, t) \/ Hopeless(P, t)
    <3>1. t # LB /\ t # LC
      BY <2>3, MarksDiffer
    <3>2. \A r \in Texts : Len(r) <= MaxText =>
            (Then(t, r) \in ValueThen(P[Len(stack)]) <=> r \in P[Len(stack)])
      BY <2>2, <2>3, <3>1, ValueBegins
    <3>3. \A r \in Texts : Len(r) <= MaxText =>
            (Left(stack, phase, P, Then(t, r)) <=> r \in P[Len(stack)])
      BY <2>1, <3>2
    <3> QED
      BY <1>1, <2>3, <3>3, CompletedAgrees
  <2>4. ASSUME t \notin {LC, LB} \cup Strings \cup Scalars, Refused
        PROVE  Hopeless(P, t)
    <3>1. \A r \in Texts : Len(r) <= MaxText => Then(t, r) \notin ValueThen(P[Len(stack)])
      BY <2>2, <2>4, ValueStarts
    <3> QED
      BY <2>1, <2>4, <3>1 DEF Hopeless
  <2>5. ASSUME t \in {LC, LB},
               stack' = Append(stack, [kind |-> t, keys |-> << >>, key |-> "none"]),
               phase' = "first", UNCHANGED code
        PROVE  Agrees(P, t)
    BY <1>2, <2>5, OpenAgrees
  <2> QED
    BY <1>2, <2>3, <2>4, <2>5, Zenon DEF ReadsValue
<1>3. ASSUME AtKey(t), ReadsKey(t)
      PROVE  Agrees(P, t) \/ Hopeless(P, t)
  BY <1>3, KeyAgrees
<1>4. ASSUME AtClose(t), Completed(Front(stack), nodes)
      PROVE  Agrees(P, t) \/ Hopeless(P, t)
  <2>1. \A r \in Texts : Len(r) <= MaxText =>
          (Left(stack, phase, P, Then(t, r)) <=> r \in P[Len(Front(stack))])
    BY <1>1, <1>4, LeftAtClose
  <2>2. Front(stack) \in Seq(Frames) /\ Chained(Front(stack), P)
    BY <1>1, <1>4, InnerIsFrame, ChainedFront DEF AtClose
  <2> QED
    BY <1>4, <2>1, <2>2, CompletedAgrees
<1>5. ASSUME stack # << >>, phase = "after"
      PROVE  \A r \in Texts : Left(stack, phase, P, Then(t, r)) <=>
               \/ t = CloseOf(Inner) /\ r \in P[Len(stack) - 1]
               \/ t = Comma /\ r \in ItemsThen(Inner, P[Len(stack) - 1])
  <2>1. Inner = stack[Len(stack)] /\ Len(stack) # 0
    BY <1>1, <1>5, ChainedFollows DEF Inner, Last
  <2>2. \A r \in Texts : Left(stack, phase, P, Then(t, r)) <=>
          Then(t, r) \in Closing(Inner, P[Len(stack) - 1])
    BY <1>5, <2>1 DEF Left
  <2> QED
    BY <1>1, <1>5, <2>2, LeftAfter
<1>6. ASSUME AtComma(t), phase' = "item", UNCHANGED <<stack, nodes, code>>
      PROVE  Agrees(P, t)
  <2>1. stack # << >> /\ phase = "after" /\ t = Comma
    BY <1>6 DEF AtComma
  <2>2. Comma # CloseOf(Inner)
    BY MarksDiffer DEF CloseOf
  <2>3. \A r \in Texts : Left(stack, phase, P, Then(t, r)) <=>
          r \in ItemsThen(Inner, P[Len(stack) - 1])
    BY <1>5, <2>1, <2>2
  <2>4. \A r \in Texts : Left(stack, "item", P, r) <=>
          r \in ItemsThen(Inner, P[Len(stack) - 1])
    BY DEF Left, Inner, Last
  <2>5. Chained(stack', P) /\ \A r \in Texts :
          Left(stack, phase, P, Then(t, r)) <=> Left(stack', phase', P, r)
    BY <1>6, <2>3, <2>4
  <2> QED
    BY <1>6, <2>5 DEF Agrees
<1>7. ASSUME phase = "colon"
      PROVE  \A r \in Texts : Left(stack, phase, P, Then(t, r)) <=>
               t = Colon /\ r \in ValueThen(P[Len(stack)])
  <2> TAKE r \in Texts
  <2>1. Left(stack, phase, P, Then(t, r)) <=>
          \E z \in ValueThen(P[Len(stack)]) : Then(t, r) = Then(Colon, z)
    BY <1>7 DEF Left, Valued
  <2>2. \A z \in ValueThen(P[Len(stack)]) : z \in Texts
    BY DEF ValueThen
  <2>3. \A z \in ValueThen(P[Len(stack)]) :
          Then(t, r) = Then(Colon, z) => t = Colon /\ r = z
    BY <2>2, ThenInjective, MarksAreTokens
  <2> QED
    BY <2>1, <2>3
<1>8. ASSUME AtColon(t), phase' = "value", UNCHANGED <<stack, nodes, code>>
      PROVE  Agrees(P, t)
  <2>1. phase = "colon" /\ t = Colon
    BY <1>8 DEF AtColon
  <2>2. \A r \in Texts : Left(stack, phase, P, Then(t, r)) <=> r \in ValueThen(P[Len(stack)])
    BY <1>7, <2>1
  <2>3. \A r \in Texts : Left(stack, "value", P, r) <=> r \in ValueThen(P[Len(stack)])
    BY DEF Left
  <2>4. Chained(stack', P) /\ \A r \in Texts :
          Left(stack, phase, P, Then(t, r)) <=> Left(stack', phase', P, r)
    BY <1>8, <2>2, <2>3
  <2> QED
    BY <1>8, <2>4 DEF Agrees
<1>9. ASSUME phase = "colon", t # Colon, Refused
      PROVE  Hopeless(P, t)
  BY <1>7, <1>9 DEF Hopeless
<1>10. ASSUME phase = "after", stack # << >>, t # Comma, t # CloseOf(Inner), Refused
       PROVE  Hopeless(P, t)
  BY <1>5, <1>10 DEF Hopeless
<1>11. ASSUME phase = "after", stack = << >>, t # End, Refused
       PROVE  Hopeless(P, t)
  <2>1. Len(stack) = 0
    BY <1>11, EmptySeq
  <2>2. \A r \in Texts : Left(stack, phase, P, Then(t, r)) => Then(t, r) = One(End)
    BY <1>11, <2>1 DEF Left
  <2>3. \A r \in Texts : Then(t, r) = One(End) => t = End
    BY ThenInjective, EmptyText, MarksAreTokens DEF One
  <2> QED
    BY <1>11, <2>2, <2>3 DEF Hopeless
<1> QED
  BY <1>2, <1>3, <1>4, <1>6, <1>8, <1>9, <1>10, <1>11, Zenon DEF Reads

-----------------------------------------------------------------------------
(* The limits: the values begun and the containers around each of them.    *)
Starts == {LC, LB} \cup Strings \cup Scalars
(* How many of the first n tokens are of a kind.                           *)
CountOf(x, W, n) == Cardinality({j \in 1 .. n : x[j] \in W})

(* The values begun in a text, of which the last may be a key yet.         *)
Begun(x, key) ==
  {i \in 1 .. Len(x) : /\ x[i] \in Starts
                       /\ i < Len(x) => x[i + 1] # Colon
                       /\ i = Len(x) => ~key}

(* The stack is as deep as the brackets still open, the nodes are the      *)
(* values begun, and each was begun within the depth.                      *)
Counted ==
  /\ Len(stack) = Around(text, Len(text) + 1)
  /\ nodes = Cardinality(Begun(text, phase = "colon"))
  /\ \A i \in Begun(text, phase = "colon") : Around(text, i) < MaxDepth

(* The brackets around a place are the opened ones without the closed      *)
(* ones.                                                                   *)
LEMMA AroundCounts ==
  ASSUME NEW x, NEW n \in Nat
  PROVE  Around(x, n + 1) = CountOf(x, {LC, LB}, n) - CountOf(x, {RC, RB}, n)
<1>1. \A i, m : i - 1 = m =>
        Around(x, i) = CountOf(x, {LC, LB}, m) - CountOf(x, {RC, RB}, m)
  BY Zenon DEF Around, CountOf, LC, LB, RC, RB
<1>2. n + 1 - 1 = n
  OBVIOUS
<1> QED
  BY <1>1, <1>2

(* Counts depend on the tokens before the place alone,                     *)
LEMMA CountAgrees ==
  ASSUME NEW x, NEW y, NEW n \in Nat, \A j \in 1 .. n : x[j] = y[j], NEW W
  PROVE  CountOf(x, W, n) = CountOf(y, W, n)
<1>1. {j \in 1 .. n : x[j] \in W} = {j \in 1 .. n : y[j] \in W}
  OBVIOUS
<1> QED
  BY <1>1 DEF CountOf

(* and so do the brackets around it.                                       *)
LEMMA AroundAgrees ==
  ASSUME NEW x, NEW y, NEW n \in Nat, \A j \in 1 .. n : x[j] = y[j]
  PROVE  Around(x, n + 1) = Around(y, n + 1)
<1>1. \A W : CountOf(x, W, n) = CountOf(y, W, n)
  BY CountAgrees
<1> QED
  BY <1>1, AroundCounts

(* One token more counts once or not at all.                               *)
LEMMA CountStep ==
  ASSUME NEW x, NEW n \in Nat, NEW W
  PROVE  /\ CountOf(x, W, n) \in Nat
         /\ CountOf(x, W, n + 1) =
              CountOf(x, W, n) + (IF x[n + 1] \in W THEN 1 ELSE 0)
<1> DEFINE S == {j \in 1 .. n : x[j] \in W}
           T == {j \in 1 .. n + 1 : x[j] \in W}
<1>1. IsFiniteSet(1 .. n) /\ S \in SUBSET (1 .. n)
  BY FS_Interval
<1>2. IsFiniteSet(S) /\ Cardinality(S) \in Nat
  BY <1>1, FS_Subset, FS_CardinalityType
<1>3. T = IF x[n + 1] \in W THEN S \cup {n + 1} ELSE S
  OBVIOUS
<1>4. n + 1 \notin S
  OBVIOUS
<1>5. CountOf(x, W, n) = Cardinality(S) /\ CountOf(x, W, n + 1) = Cardinality(T)
  BY DEF CountOf
<1> HIDE DEF S, T
<1>6. Cardinality(S \cup {n + 1}) = Cardinality(S) + 1
  BY <1>2, <1>4, FS_AddElement
<1> QED
  BY <1>2, <1>3, <1>5, <1>6

(* One token more. *)
LEMMA AroundStep ==
  ASSUME NEW x \in Texts, NEW t \in Tokens
  PROVE  /\ Around(Append(x, t), Len(x) + 2) =
              Around(x, Len(x) + 1) + (IF t \in {LC, LB} THEN 1
                                       ELSE IF t \in {RC, RB} THEN -1 ELSE 0)
         /\ Around(x, Len(x) + 1) \in Int
         /\ \A i \in 1 .. Len(x) + 1 : Around(Append(x, t), i) = Around(x, i)
<1> DEFINE u == Append(x, t)
           n == Len(x)
<1>1. /\ n \in Nat /\ u[n + 1] = t /\ \A i \in 1 .. n : u[i] = x[i]
  BY OneMore DEF Texts
<1> HIDE DEF u, n
<1>2. ASSUME NEW W
      PROVE  /\ CountOf(u, W, n) = CountOf(x, W, n) /\ CountOf(u, W, n) \in Nat
             /\ CountOf(u, W, n + 1) = CountOf(u, W, n) + (IF t \in W THEN 1 ELSE 0)
  <2>1. CountOf(u, W, n) = CountOf(x, W, n)
    BY <1>1, CountAgrees
  <2>2. /\ CountOf(u, W, n) \in Nat
        /\ CountOf(u, W, n + 1) = CountOf(u, W, n) + (IF u[n + 1] \in W THEN 1 ELSE 0)
    BY <1>1, CountStep
  <2> QED
    BY <1>1, <2>1, <2>2
<1>3. /\ Around(u, (n + 1) + 1) = CountOf(u, {LC, LB}, n + 1) - CountOf(u, {RC, RB}, n + 1)
      /\ Around(x, n + 1) = CountOf(x, {LC, LB}, n) - CountOf(x, {RC, RB}, n)
      /\ (n + 1) + 1 = n + 2
  BY <1>1, AroundCounts
<1>4. ~(t \in {LC, LB} /\ t \in {RC, RB})
  BY MarksDiffer
<1> DEFINE open == CountOf(x, {LC, LB}, n)
           closed == CountOf(x, {RC, RB}, n)
           opens == IF t \in {LC, LB} THEN 1 ELSE 0
           closes == IF t \in {RC, RB} THEN 1 ELSE 0
<1>5. /\ Around(u, n + 2) = (open + opens) - (closed + closes)
      /\ Around(x, n + 1) = open - closed
      /\ open \in Nat /\ closed \in Nat
  BY <1>2, <1>3
<1> HIDE DEF open, closed
<1>6. opens - closes = IF t \in {LC, LB} THEN 1 ELSE IF t \in {RC, RB} THEN -1 ELSE 0
  BY <1>4
<1>7. opens \in Nat /\ closes \in Nat
  OBVIOUS
<1> HIDE DEF opens, closes
<1>8. Around(u, n + 2) = Around(x, n + 1) + (opens - closes)
  BY <1>5, <1>7
<1>9. ASSUME NEW i \in 1 .. n + 1
      PROVE  Around(u, i) = Around(x, i)
  <2> DEFINE m == i - 1
  <2>1. m \in Nat /\ m + 1 = i /\ \A j \in 1 .. m : u[j] = x[j]
    BY <1>1
  <2> HIDE DEF m
  <2> QED
    BY <2>1, AroundAgrees
<1>10. Around(x, n + 1) \in Int
  BY <1>5
<1> QED
  BY <1>6, <1>8, <1>9, <1>10 DEF u, n

(* One token more begins a value, or turns the string before it into a     *)
(* key.                                                                    *)
LEMMA BegunStep ==
  ASSUME NEW x \in Texts, NEW t \in Tokens, NEW key \in BOOLEAN
  PROVE  Begun(Append(x, t), key) =
           Begun(x, t = Colon) \cup (IF t \in Starts /\ ~key THEN {Len(x) + 1} ELSE {})
<1> DEFINE u == Append(x, t)
           n == Len(x)
<1>1. /\ n \in Nat /\ u[n + 1] = t /\ (\A i \in 1 .. n : u[i] = x[i]) /\ Len(u) = n + 1
  BY OneMore DEF Texts
<1> HIDE DEF u
<1>2. ASSUME NEW i \in 1 .. n
      PROVE  i \in Begun(u, key) <=> i \in Begun(x, t = Colon)
  <2>1. i < n + 1 /\ i # n + 1 /\ i \in 1 .. n + 1
    BY <1>1
  <2>2. i < n => u[i + 1] = x[i + 1]
    BY <1>1
  <2>3. i = n => u[i + 1] = t
    BY <1>1
  <2>4. i < n \/ i = n
    BY <1>1
  <2>5. i \in Begun(u, key) <=> x[i] \in Starts /\ u[i + 1] # Colon
    BY <1>1, <2>1 DEF Begun
  <2>6. i \in Begun(x, t = Colon) <=>
          x[i] \in Starts /\ (i < n => x[i + 1] # Colon) /\ (i = n => t # Colon)
    BY DEF Begun
  <2> QED
    BY <1>1, <2>2, <2>3, <2>4, <2>5, <2>6
<1>3. n + 1 \in Begun(u, key) <=> t \in Starts /\ ~key
  BY <1>1 DEF Begun
<1>4. /\ Begun(u, key) \subseteq 1 .. n + 1 /\ Begun(x, t = Colon) \subseteq 1 .. n
      /\ \A i \in 1 .. n + 1 : i \in 1 .. n \/ i = n + 1
      /\ n + 1 \notin 1 .. n
  BY <1>1 DEF Begun
<1>5. ASSUME NEW i
      PROVE  i \in Begun(u, key) <=>
               i \in Begun(x, t = Colon) \/ (t \in Starts /\ ~key /\ i = n + 1)
  <2>1. CASE i \in 1 .. n
    BY <1>2, <1>4, <2>1
  <2>2. CASE i = n + 1
    BY <1>3, <1>4, <2>2
  <2>3. CASE i \notin 1 .. n + 1
    BY <1>4, <2>3
  <2> QED
    BY <1>4, <2>1, <2>2, <2>3
<1> QED
  BY <1>5 DEF u

(* The values begun can be counted.                                        *)
LEMMA BegunFinite ==
  ASSUME NEW x \in Texts, NEW key
  PROVE  /\ IsFiniteSet(Begun(x, key)) /\ Cardinality(Begun(x, key)) \in Nat
         /\ Begun(x, key) \in SUBSET (1 .. Len(x)) /\ Len(x) \in Nat
<1>1. Begun(x, key) \in SUBSET (1 .. Len(x)) /\ Len(x) \in Nat
  BY ConcatTexts DEF Begun
<1>2. IsFiniteSet(1 .. Len(x))
  BY <1>1, FS_Interval
<1> QED
  BY <1>1, <1>2, FS_Subset, FS_CardinalityType

(* A token that is not refused is counted, and so are the containers.      *)
LEMMA StepCounted ==
  ASSUME Typed, Counted, NEW t \in Tokens, text' = Append(text, t),
         phase = "colon" <=> t = Colon,
         nodes' = nodes + (IF t \in Starts /\ phase' # "colon" THEN 1 ELSE 0),
         t \in Starts /\ phase' # "colon" => Len(stack) < MaxDepth,
         Len(stack') = Len(stack) + (IF t \in {LC, LB} THEN 1
                                     ELSE IF t \in {RC, RB} THEN -1 ELSE 0)
  PROVE  Counted'
<1> DEFINE n == Len(text)
           key == phase' = "colon"
           B == Begun(text, t = Colon)
           u == text'
<1>1. /\ text \in Texts /\ n \in Nat /\ u \in Texts /\ Len(u) = n + 1 /\ u = Append(text, t)
  BY AppendIsThen, EmptyText, ConcatTexts DEF Typed
<1>2. /\ IsFiniteSet(B) /\ Cardinality(B) \in Nat /\ B \in SUBSET (1 .. n)
  BY <1>1, BegunFinite
<1>3. key \in BOOLEAN
  OBVIOUS
<1>4. Begun(u, key) = B \cup (IF t \in Starts /\ ~key THEN {n + 1} ELSE {})
  <2> HIDE DEF key
  <2> HIDE DEF n, u
  <2>0. text \in Texts /\ n = Len(text)
    BY <1>1 DEF n
  <2>1. Begun(Append(text, t), key) =
          Begun(text, t = Colon) \cup (IF t \in Starts /\ ~key THEN {n + 1} ELSE {})
    BY <2>0, <1>3, BegunStep
  <2> QED
    BY <1>1, <2>1, Zenon
<1>5. /\ Around(u, n + 2) = Around(text, n + 1) + (IF t \in {LC, LB} THEN 1
                                       ELSE IF t \in {RC, RB} THEN -1 ELSE 0)
      /\ \A i \in 1 .. n + 1 : Around(u, i) = Around(text, i)
  BY <1>1, AroundStep
<1>6. (phase = "colon") = (t = Colon)
  OBVIOUS
<1>7. /\ Len(stack) = Around(text, n + 1) /\ nodes = Cardinality(B)
      /\ \A i \in B : Around(text, i) < MaxDepth
  BY <1>6 DEF Counted
<1>8. Len(stack') = Around(u, Len(u) + 1)
  <2>1. Len(u) + 1 = n + 2
    BY <1>1
  <2> QED
    BY <1>5, <1>7, <2>1
<1>9. n + 1 \notin B
  BY <1>1, <1>2
<1> HIDE DEF B, key, u
<1>10. nodes' = Cardinality(Begun(u, key))
  <2>1. CASE t \in Starts /\ ~key
    <3>1. Cardinality(B \cup {n + 1}) = Cardinality(B) + 1
      BY <1>2, <1>9, FS_AddElement
    <3>2. nodes' = nodes + 1
      BY <2>1 DEF key
    <3> QED
      BY <1>4, <1>7, <2>1, <3>1, <3>2
  <2>2. CASE ~(t \in Starts /\ ~key)
    <3>1. B \cup {} = B /\ Begun(u, key) = B \cup {}
      BY <1>4, <2>2
    <3>2. nodes' = nodes + 0
      BY <2>2 DEF key
    <3> QED
      BY <1>2, <1>7, <3>1, <3>2
  <2> QED
    BY <2>1, <2>2
<1>11. ASSUME NEW i \in Begun(u, key)
       PROVE  Around(u, i) < MaxDepth
  <2>1. CASE i \in B
    <3>1. i \in 1 .. n + 1
      BY <1>1, <1>2, <2>1
    <3> QED
      BY <1>5, <1>7, <2>1, <3>1
  <2>2. CASE t \in Starts /\ ~key /\ i = n + 1
    <3>1. n + 1 \in 1 .. n + 1
      BY <1>1
    <3>2. Len(stack) < MaxDepth
      BY <2>2 DEF key
    <3> QED
      BY <1>5, <1>7, <2>2, <3>1, <3>2
  <2> QED
    BY <1>4, <2>1, <2>2
<1> QED
  BY <1>8, <1>10, <1>11 DEF Counted, key, u

-----------------------------------------------------------------------------
(* A value completed without a refusal closes its frame and takes its      *)
(* count.                                                                  *)
LEMMA CompletedParts ==
  ASSUME NEW outer \in Seq(Frames), NEW count, Completed(outer, count), ~Refused
  PROVE  Len(stack') = Len(outer) /\ nodes' = count /\ phase' = "after" /\ code' = code
<1>1. CASE stack' = outer /\ phase' = "after" /\ nodes' = count /\ UNCHANGED code
  BY <1>1
<1>2. ASSUME outer # << >>, phase' = "after", nodes' = count, UNCHANGED code,
             stack' = Append(Front(outer),
                   [Last(outer) EXCEPT !.keys = Append(@, Last(outer).key)])
      PROVE  Len(stack') = Len(outer) /\ nodes' = count /\ phase' = "after" /\ code' = code
  <2> DEFINE e == [Last(outer) EXCEPT !.keys = Append(@, Last(outer).key)]
  <2>1. e \in Frames
    BY <1>2, InnerIsFrame, NewFrames
  <2>2. stack' = Append(Front(outer), e)
    BY <1>2
  <2> HIDE DEF e
  <2>3. Len(Append(Front(outer), e)) = Len(outer)
    BY <1>2, <2>1, TopReplaced
  <2> QED
    BY <1>2, <2>2, <2>3
<1> QED
  BY <1>1, <1>2, Zenon DEF Completed

(* Every reading that does not refuse keeps the counts.                    *)
LEMMA ReadsCounted ==
  ASSUME Typed, Counted, code = "none", NEW t \in Tokens, text' = Append(text, t),
         Reads(t), ~Refused, code' # "ok"
  PROVE  Counted'
<1>1. /\ stack \in Seq(Frames) /\ Len(stack) \in Nat /\ nodes \in Nat /\ MaxDepth \in Nat
      /\ phase \in {"first", "item", "colon"} => stack # << >>
  BY LenProperties, ParserConstants DEF Typed
<1>m. /\ \A s \in Starts : s # Colon /\ s # RB /\ s # RC
      /\ Comma \notin Starts /\ RB \notin Starts /\ RC \notin Starts /\ Colon \notin Starts
      /\ \A s \in Strings \cup Scalars : s \in Starts /\ s \notin {LC, LB}
      /\ LC \in Starts /\ LB \in Starts
      /\ RB \notin {LC, LB} /\ RC \notin {LC, LB} /\ Comma \notin {LC, LB, RC, RB}
      /\ Colon \notin {LC, LB, RC, RB} /\ Comma # Colon /\ RB # Colon /\ RC # Colon
  BY MarksDiffer DEF Starts
<1> DEFINE begins == IF t \in Starts /\ phase' # "colon" THEN 1 ELSE 0
           around == IF t \in {LC, LB} THEN 1 ELSE IF t \in {RC, RB} THEN -1 ELSE 0
<1>0. ASSUME phase = "colon" <=> t = Colon, nodes' = nodes + begins,
             t \in Starts /\ phase' # "colon" => Len(stack) < MaxDepth,
             Len(stack') = Len(stack) + around
      PROVE  Counted'
  BY <1>0, StepCounted, Zenon
<1>2. ASSUME AtValue(t), Len(stack) < MaxDepth, nodes < MaxNodes, t \in {LC, LB},
             stack' = Append(stack, [kind |-> t, keys |-> << >>, key |-> "none"]),
             phase' = "first", nodes' = nodes + 1
      PROVE  Counted'
  <2> DEFINE e == [kind |-> t, keys |-> << >>, key |-> "none"]
  <2>1. e \in Frames /\ stack' = Append(stack, e)
    BY <1>2, NewFrames
  <2> HIDE DEF e
  <2>2. Len(stack') = Len(stack) + 1
    BY <1>1, <2>1, OneMore
  <2>3. phase # "colon" /\ t # Colon /\ t \in Starts
    BY <1>2, <1>m DEF AtValue
  <2>4. begins = 1 /\ around = 1
    BY <1>2, <2>3
  <2> HIDE DEF begins, around
  <2> QED
    BY <1>0, <1>2, <2>2, <2>3, <2>4
<1>3. ASSUME AtValue(t), Len(stack) < MaxDepth, t \in Strings \cup Scalars,
             Completed(stack, nodes + 1)
      PROVE  Counted'
  <2>1. Len(stack') = Len(stack) /\ nodes' = nodes + 1 /\ phase' = "after"
    BY <1>1, <1>3, CompletedParts
  <2>2. phase # "colon" /\ t # Colon /\ t \in Starts /\ t \notin {LC, LB} /\ t \notin {RC, RB}
    BY <1>3, <1>m DEF AtValue
  <2>3. begins = 1 /\ around = 0
    BY <2>1, <2>2
  <2> HIDE DEF begins, around
  <2> QED
    BY <1>0, <1>1, <1>3, <2>1, <2>2, <2>3
<1>4. ASSUME AtKey(t), ReadsKey(t)
      PROVE  Counted'
  <2>1. /\ t \in Strings /\ stack' = Append(Front(stack), [Last(stack) EXCEPT !.key = t])
        /\ phase' = "colon" /\ UNCHANGED <<nodes, code>>
    BY <1>4 DEF ReadsKey
  <2>2. stack # << >> /\ phase # "colon"
    BY <1>1, <1>4 DEF AtKey
  <2> DEFINE e == [Last(stack) EXCEPT !.key = t]
  <2>3. e \in Frames /\ stack' = Append(Front(stack), e)
    BY <1>1, <2>1, <2>2, InnerIsFrame, NewFrames
  <2> HIDE DEF e
  <2>4. Len(stack') = Len(stack)
    BY <1>1, <2>2, <2>3, TopReplaced
  <2>5. t # Colon /\ t \notin {LC, LB} /\ t \notin {RC, RB}
    BY <1>m, <2>1
  <2>6. begins = 0 /\ around = 0
    BY <2>1, <2>5
  <2> HIDE DEF begins, around
  <2> QED
    BY <1>0, <1>1, <2>1, <2>2, <2>4, <2>5, <2>6
<1>5. ASSUME AtClose(t), Completed(Front(stack), nodes)
      PROVE  Counted'
  <2>1. stack # << >> /\ phase # "colon" /\ (t = RB \/ t = RC)
    BY <1>5 DEF AtClose, CloseOf
  <2>2. Front(stack) \in Seq(Frames) /\ Len(Front(stack)) = Len(stack) - 1
    BY <1>1, <2>1, FrontLast
  <2>3. Len(stack') = Len(stack) - 1 /\ nodes' = nodes
    BY <1>5, <2>2, CompletedParts
  <2>4. t # Colon /\ t \notin Starts /\ t \notin {LC, LB} /\ t \in {RC, RB}
    BY <1>m, <2>1
  <2>5. begins = 0 /\ around = -1
    BY <2>4
  <2> HIDE DEF begins, around
  <2> QED
    BY <1>0, <1>1, <2>1, <2>3, <2>4, <2>5
<1>6. ASSUME AtComma(t) \/ AtColon(t), UNCHANGED <<stack, nodes>>
      PROVE  Counted'
  <2>1. /\ phase = "colon" <=> t = Colon
        /\ t \notin Starts /\ t \notin {LC, LB} /\ t \notin {RC, RB}
    BY <1>6, <1>m DEF AtComma, AtColon
  <2>2. begins = 0 /\ around = 0
    BY <2>1
  <2> HIDE DEF begins, around
  <2> QED
    BY <1>0, <1>1, <1>6, <2>1, <2>2
<1>7. ReadsValue(t) =>
        \/ /\ Len(stack) < MaxDepth /\ nodes < MaxNodes /\ t \in {LC, LB}
           /\ stack' = Append(stack, [kind |-> t, keys |-> << >>, key |-> "none"])
           /\ phase' = "first" /\ nodes' = nodes + 1
        \/ /\ Len(stack) < MaxDepth /\ t \in Strings \cup Scalars
           /\ Completed(stack, nodes + 1)
  BY Zenon DEF ReadsValue
<1> HIDE DEF begins, around
<1>8. \/ AtValue(t) /\ ReadsValue(t)
      \/ AtKey(t) /\ ReadsKey(t)
      \/ AtClose(t) /\ Completed(Front(stack), nodes)
      \/ (AtComma(t) \/ AtColon(t)) /\ UNCHANGED <<stack, nodes>>
  BY DEF Reads
<1> QED
  BY <1>2, <1>3, <1>4, <1>5, <1>6, <1>7, <1>8, Zenon

-----------------------------------------------------------------------------
(* Documents with the marks by name, and their beginnings.                 *)
Whole == ValueThen({One(End)})
(* A document within the limits, with the values it begins spelled out     *)
Fits(d) ==
  LET begun == {i \in 1 .. Len(d) - 1 : d[i] \in Starts /\ d[i + 1] # Colon}
  IN  Cardinality(begun) <= MaxNodes /\ \A i \in begun : Around(d, i) < MaxDepth

(* and no more than WithinLimits says.                                     *)
LEMMA FitsLimits == \A d : WithinLimits(d) <=> Fits(d)
<1>1. \A t : t \in DOMAIN Opens \cup Strings \cup Scalars <=> t \in Starts
  BY OpensMarks DEF Starts
<1>2. \A d, i : Begins(d, i) <=> d[i] \in Starts /\ d[i + 1] # Colon
  BY <1>1, Zenon DEF Begins, Colon
<1>3. \A d : {i \in 1 .. Len(d) - 1 : Begins(d, i)} =
               {i \in 1 .. Len(d) - 1 : d[i] \in Starts /\ d[i + 1] # Colon}
  BY <1>2, Zenon
<1> QED
  BY <1>3, Zenon DEF WithinLimits, Fits

(* The documents are the complete texts that fit,                          *)
LEMMA WholeTexts ==
  ASSUME NEW d
  PROVE  /\ d \in Documents => d \in Whole /\ d \in Texts /\ Len(d) <= MaxText + 1
         /\ d \in Documents => Fits(d)
         /\ d \in Whole /\ Fits(d) => d \in Documents
<1>1. \A v : v \in Values <=> \E n \in 1 .. MaxText : v \in Grammar[n].values
  <2>1. MaxText \in Nat
    BY ParserConstants
  <2>2. \A v : v \in Values <=> \E n \in 0 .. MaxText : v \in Vs(n)
    BY DEF Values
  <2>3. \A v \in Values : Len(v) \in 1 .. MaxText /\ v \in Vs(Len(v))
    BY AreTexts
  <2>4. \A n \in 1 .. MaxText : n \in 0 .. MaxText
    BY <2>1
  <2> QED
    BY <2>2, <2>3, <2>4 DEF Vs
<1>2. d \in Documents <=> Fits(d) /\ \E v \in Values : d = Append(v, End)
  <2>1. UNION {Grammar[n].values : n \in 1 .. MaxText} = Values
    BY <1>1
  <2>2. d \in Documents <=> WithinLimits(d) /\ \E v \in Values : d = Append(v, End)
    BY <2>1, Zenon DEF Documents
  <2> QED
    BY <2>2, FitsLimits
<1>3. ASSUME NEW v \in Values
      PROVE  /\ Append(v, End) = v \o One(End) /\ Append(v, End) \in Texts
             /\ Len(Append(v, End)) <= MaxText + 1
  <2>1. v \in Texts /\ Len(v) \in Nat /\ Len(v) <= MaxText
    <3>1. v \in Texts /\ Len(v) \in 1 .. MaxText
      BY AreTexts
    <3> QED
      BY <3>1
  <2>2. /\ Append(v, End) = v \o Then(End, << >>) /\ Append(v, End) \in Texts
        /\ Len(Append(v, End)) = Len(v) + 1
    BY <2>1, MarksAreTokens, EmptyText, AppendIsThen
  <2>3. Len(Append(v, End)) <= MaxText + 1
    BY <2>1, <2>2, ParserConstants
  <2> QED
    BY <2>2, <2>3, Zenon DEF One
<1>4. d \in Whole <=> d \in Texts /\ \E v \in Values : d = v \o One(End)
  BY Zenon DEF Whole, ValueThen
<1> QED
  BY <1>2, <1>3, <1>4, Zenon

(* and a beginning is a text some document continues.                      *)
LEMMA BeginningParts ==
  ASSUME NEW x \in Texts, x \in Beginnings
  PROVE  \E r \in Texts : /\ x \o r \in Documents
                          /\ Len(x \o r) = Len(x) + Len(r) /\ Len(x \o r) <= MaxText + 1
                          /\ Len(r) \in Nat /\ Len(x) \in Nat \ {0}
<1>1. PICK d \in Documents : \E k \in 1 .. Len(d) : x = SubSeq(d, 1, k)
  BY DEF Beginnings
<1>a. PICK k \in 1 .. Len(d) : x = SubSeq(d, 1, k)
  BY <1>1
<1>2. d \in Texts /\ Len(d) <= MaxText + 1 /\ Len(d) \in Nat
  BY WholeTexts, ConcatTexts
<1> DEFINE r == SubSeq(d, k + 1, Len(d))
<1>3. r \in Texts
  <2>1. \A i \in k + 1 .. Len(d) : d[i] \in Tokens
    <3>1. \A i \in k + 1 .. Len(d) : i \in 1 .. Len(d)
      BY <1>a
    <3> QED
      BY <1>2, <3>1, ElementOfSeq DEF Texts
  <2>2. k + 1 \in Int /\ Len(d) \in Int
    BY <1>a, <1>2
  <2> QED
    BY <2>1, <2>2, SubSeqProperties DEF Texts
<1>4. x \o r = d
  <2>1. /\ 1 \in 1 .. Len(d) + 1 /\ k \in 1 - 1 .. Len(d) /\ Len(d) \in k .. Len(d)
        /\ d \in Seq(Tokens)
    BY <1>a, <1>2 DEF Texts
  <2>2. SubSeq(d, 1, k) \o SubSeq(d, k + 1, Len(d)) = SubSeq(d, 1, Len(d))
    BY <1>2, <2>1, ConcatAdjacentSubSeq
  <2>3. SubSeq(d, 1, Len(d)) = d
    BY <2>1, SubSeqFull
  <2> QED
    BY <1>a, <2>2, <2>3
<1> HIDE DEF r
<1>5. Len(x \o r) = Len(x) + Len(r) /\ Len(r) \in Nat
  BY <1>3, ConcatTexts
<1>6. Len(x) = k
  <2>1. \A i \in 1 .. k : d[i] \in Tokens
    <3>1. \A i \in 1 .. k : i \in 1 .. Len(d)
      BY <1>a, <1>2
    <3> QED
      BY <1>2, <3>1, ElementOfSeq DEF Texts
  <2>2. k \in Int /\ 1 <= k /\ k - 1 + 1 = k
    BY <1>a
  <2> QED
    BY <1>a, <2>1, <2>2, SubSeqProperties
<1>7. Len(x) \in Nat \ {0}
  BY <1>a, <1>6
<1> QED
  BY <1>a, <1>2, <1>3, <1>4, <1>5, <1>7

-----------------------------------------------------------------------------
(* As long as nothing is refused, what has been read begins exactly the    *)
(* texts of which the rest may still be read, and all that it begins is    *)
(* within the limits.                                                      *)
Reading(P) ==
  \A r \in Texts : Len(text) + Len(r) <= MaxText + 1 =>
    (text \o r \in Whole <=> Left(stack, phase, P, r))
(* The inductive invariant of the parser's steps: while it is undecided,   *)
(* the counts and a chain of continuations that makes what is left to read *)
(* exactly what would complete the document.                               *)
ParserIInv ==
  /\ Typed
  /\ code = "none" => Counted /\ \E P : Chained(stack, P) /\ Reading(P)
  /\ ParserIsExact

(* It holds before the first token,                                        *)
LEMMA InitParser == ParserInit => ParserIInv
<1> SUFFICES ASSUME ParserInit PROVE ParserIInv
  OBVIOUS
<1>1. text = << >> /\ stack = << >> /\ phase = "value" /\ nodes = 0 /\ code = "none"
  BY DEF ParserInit
<1>2. << >> \in Texts /\ Len(text) = 0 /\ Len(stack) = 0
  BY <1>1, EmptyText, EmptySeq
<1>3. Counted
  <2>1. Begun(text, phase = "colon") = {}
    BY <1>2 DEF Begun
  <2>2. \A W : CountOf(text, W, 0) = 0
    <3>1. \A W : {j \in 1 .. 0 : text[j] \in W} = {}
      OBVIOUS
    <3> QED
      BY <3>1, FS_EmptySet DEF CountOf
  <2>3. Around(text, 0 + 1) = 0
    BY <2>2, AroundCounts
  <2>4. Len(text) + 1 = 0 + 1
    BY <1>2
  <2> QED
    BY <1>1, <1>2, <2>1, <2>3, <2>4, FS_EmptySet DEF Counted
<1>4. \E P : Chained(stack, P) /\ Reading(P)
  <2> DEFINE P == [i \in {0} |-> {One(End)}]
  <2>1. P[0] = {One(End)}
    OBVIOUS
  <2> HIDE DEF P
  <2>2. Follows({One(End)})
    <3>1. \A Q : Follows(Q) => Follows({One(End)})
      BY FollowsAfter
    <3>2. Follows({})
      BY DEF Follows
    <3> QED
      BY <3>1, <3>2
  <2>3. Chained(stack, P)
    <3>1. \A i \in 0 .. Len(stack) : i = 0
      BY <1>2
    <3>2. \A i \in 1 .. Len(stack) : FALSE
      BY <1>2
    <3> QED
      BY <2>1, <2>2, <3>1, <3>2 DEF Chained
  <2>4. \A r \in Texts : text \o r = r
    BY <1>1, ConcatEmptySeq DEF Texts
  <2>5. \A r \in Texts : Left(stack, phase, P, r) <=> r \in Whole
    BY <1>1, <1>2, <2>1 DEF Left, Whole
  <2>6. Reading(P)
    BY <2>4, <2>5 DEF Reading
  <2> QED
    BY <2>3, <2>6
<1> QED
  BY <1>1, <1>3, <1>4, InitTyped DEF ParserIInv, ParserIsExact

(* The token moves from what is left to what has been read.                *)
LEMMA MovesOver ==
  ASSUME Typed, code = "none", NEW t \in Tokens, text' = Append(text, t),
         NEW P, Reading(P), NEW r \in Texts, Len(text') + Len(r) <= MaxText + 1
  PROVE  /\ text' \o r \in Whole <=> Left(stack, phase, P, Then(t, r))
         /\ Len(r) <= MaxText
<1>0. text \in Texts
  BY DEF Typed
<1>a. \A b \in Texts : /\ Append(text, t) \o b = text \o Then(t, b)
                       /\ Len(Append(text, t)) = Len(text) + 1
  BY <1>0, AppendIsThen
<1>1. /\ Append(text, t) \o r = text \o Then(t, r)
      /\ Len(Append(text, t)) = Len(text) + 1
      /\ Len(text) \in Nat /\ Len(r) \in Nat
  BY <1>0, <1>a, ConcatTexts
<1>2. Then(t, r) \in Texts /\ Len(Then(t, r)) = 1 + Len(r)
  BY ThenParts
<1>3. Len(text) + Len(Then(t, r)) <= MaxText + 1 /\ Len(r) <= MaxText
  BY <1>1, <1>2, ParserConstants
<1> QED
  BY <1>1, <1>2, <1>3 DEF Reading

(* is kept by a reading that leaves the right continuations,               *)
LEMMA AgreesReads ==
  ASSUME Typed, code = "none", NEW t \in Tokens, text' = Append(text, t),
         NEW P, Reading(P), Agrees(P, t)
  PROVE  (\E P1 : Chained(stack, P1) /\ Reading(P1))'
<1>1. PICK R : /\ Chained(stack', R)
               /\ \A r \in Texts : Len(r) <= MaxText =>
                    (Left(stack, phase, P, Then(t, r)) <=> Left(stack', phase', R, r))
  BY DEF Agrees
<1>2. ASSUME NEW r \in Texts, Len(text') + Len(r) <= MaxText + 1
      PROVE  text' \o r \in Whole <=> Left(stack', phase', R, r)
  <2>1. text' \o r \in Whole <=> Left(stack, phase, P, Then(t, r))
    BY <1>2, MovesOver
  <2>2. Len(r) <= MaxText
    BY <1>2, MovesOver
  <2> QED
    BY <1>1, <2>1, <2>2
<1> QED
  BY <1>1, <1>2 DEF Reading

(* A refused token begins no document. *)
LEMMA RefusedIsNoBeginning ==
  ASSUME Typed, Counted, code = "none", NEW t \in Tokens, text' = Append(text, t),
         NEW P, Chained(stack, P), Reading(P),
         \/ Hopeless(P, t)
         \/ AtValue(t) /\ (Len(stack) >= MaxDepth \/ nodes >= MaxNodes)
  PROVE  text' \notin Beginnings
<1> SUFFICES ASSUME text' \in Beginnings PROVE FALSE
  OBVIOUS
<1> DEFINE x == text'
           n == Len(text)
<1>1. /\ x \in Texts /\ Len(x) = n + 1 /\ n \in Nat /\ x = Append(text, t)
      /\ x[n + 1] = t /\ \A i \in 1 .. n : x[i] = text[i]
  BY OneMore, AppendIsThen, EmptyText DEF Typed, Texts
<1>2. PICK r \in Texts : /\ x \o r \in Documents /\ Len(x \o r) = Len(x) + Len(r)
                         /\ Len(x \o r) <= MaxText + 1 /\ Len(r) \in Nat
  BY <1>1, BeginningParts
<1>3. x \o r \in Whole /\ Fits(x \o r)
  BY <1>2, WholeTexts
<1>4. Left(stack, phase, P, Then(t, r)) /\ Len(r) <= MaxText
  BY <1>2, <1>3, MovesOver
<1>5. ~ Hopeless(P, t)
  BY <1>4 DEF Hopeless
<1>6. AtValue(t) /\ (Len(stack) >= MaxDepth \/ nodes >= MaxNodes)
  BY <1>5
<1>7. /\ stack \in Seq(Frames) /\ Len(stack) \in Nat /\ nodes \in Nat
      /\ phase = "item" \/ phase = "first" => stack # << >>
      /\ MaxDepth \in Nat /\ MaxNodes \in Nat
  BY LenProperties, ParserConstants DEF Typed
<1>8. /\ t \in Starts /\ Len(r) \in Nat \ {0} /\ r[1] # Colon
  <2>1. Follows(P[Len(stack)])
    BY <1>7, ChainedFollows
  <2>2. Then(t, r) \in ValueThen(P[Len(stack)])
    BY <1>4, <1>6, <1>7, LeftAtValue
  <2> QED
    BY <1>4, <2>1, <2>2, ValueStarts DEF Starts
<1> DEFINE d == x \o r
           begun == {i \in 1 .. Len(d) - 1 : d[i] \in Starts /\ d[i + 1] # Colon}
           before == Begun(text, phase = "colon")
<1>9. /\ Len(d) = n + 1 + Len(r) /\ d[n + 1] = t /\ d[n + 2] = r[1]
      /\ \A i \in 1 .. n : d[i] = text[i]
  <2> HIDE DEF x, n
  <2>1. \A i \in 1 .. Len(x) + Len(r) : d[i] = IF i <= Len(x) THEN x[i] ELSE r[i - Len(x)]
    BY <1>1, ConcatProperties DEF Texts
  <2> HIDE DEF d
  <2>2. d[n + 1] = t
    <3>1. n + 1 \in 1 .. Len(x) + Len(r) /\ n + 1 <= Len(x)
      BY <1>1, <1>2
    <3> QED
      BY <1>1, <2>1, <3>1
  <2>3. d[n + 2] = r[1]
    <3>1. n + 2 \in 1 .. Len(x) + Len(r) /\ ~(n + 2 <= Len(x)) /\ (n + 2) - Len(x) = 1
      BY <1>1, <1>8
    <3> QED
      BY <2>1, <3>1
  <2>4. ASSUME NEW i \in 1 .. n PROVE d[i] = text[i]
    <3>1. i \in 1 .. Len(x) + Len(r) /\ i <= Len(x)
      BY <1>1, <1>2
    <3> QED
      BY <1>1, <2>1, <3>1
  <2>5. Len(d) = n + 1 + Len(r)
    BY <1>1, <1>2 DEF d
  <2> QED
    BY <2>2, <2>3, <2>4, <2>5
<1>10. d \in Texts /\ Cardinality(begun) <= MaxNodes /\ \A i \in begun : Around(d, i) < MaxDepth
  BY <1>1, <1>3, ConcatTexts DEF Fits
<1>11. /\ Len(stack) = Around(text, n + 1) /\ nodes = Cardinality(before)
  BY DEF Counted
<1>12. IsFiniteSet(before) /\ before \in SUBSET (1 .. n)
  BY BegunFinite DEF Typed
<1>13. \A i \in before : text[i] \in Starts /\ (i < n => text[i + 1] # Colon)
  BY DEF Begun
<1> HIDE DEF d, before, x, n
<1>14. t # Colon
  BY <1>8, MarksDiffer DEF Starts
<1>15. n + 1 \in begun
  <2>1. n + 1 \in 1 .. Len(d) - 1 /\ n + 1 + 1 = n + 2
    BY <1>1, <1>8, <1>9
  <2> QED
    BY <1>8, <1>9, <2>1
<1>16. before \subseteq begun
  <2> SUFFICES ASSUME NEW i \in before PROVE i \in begun
    OBVIOUS
  <2>1. i \in 1 .. n /\ i \in 1 .. Len(d) - 1
    BY <1>1, <1>8, <1>9, <1>12
  <2>2. d[i] \in Starts
    BY <1>9, <1>13, <2>1
  <2>3. d[i + 1] # Colon
    <3>1. CASE i < n
      <4>1. i + 1 \in 1 .. n
        BY <1>1, <2>1, <3>1
      <4> QED
        BY <1>9, <1>13, <3>1, <4>1
    <3>2. CASE i = n
      BY <1>9, <1>14, <3>2
    <3> QED
      BY <1>1, <2>1, <3>1, <3>2
  <2> QED
    BY <2>1, <2>2, <2>3
<1>17. Around(d, n + 1) = Around(text, n + 1)
  BY <1>1, <1>9, AroundAgrees
<1>18. CASE Len(stack) >= MaxDepth
  <2>1. Around(d, n + 1) < MaxDepth
    BY <1>10, <1>15
  <2> QED
    BY <1>7, <1>11, <1>17, <1>18, <2>1
<1>19. CASE nodes >= MaxNodes
  <2>1. IsFiniteSet(begun) /\ Cardinality(begun) \in Nat
    <3>1. Len(d) - 1 \in Int /\ begun \in SUBSET (1 .. Len(d) - 1)
      BY <1>1, <1>8, <1>9
    <3>2. IsFiniteSet(1 .. Len(d) - 1)
      BY <3>1, FS_Interval
    <3> QED
      BY <3>1, <3>2, FS_Subset, FS_CardinalityType
  <2>2. n + 1 \notin before
    BY <1>1, <1>12
  <2>3. Cardinality(before \cup {n + 1}) = Cardinality(before) + 1
    BY <1>12, <2>2, FS_AddElement
  <2>4. before \cup {n + 1} \in SUBSET begun
    BY <1>15, <1>16
  <2> HIDE DEF begun
  <2>5. Cardinality(before \cup {n + 1}) <= Cardinality(begun)
    BY <2>1, <2>4, FS_Subset
  <2> QED
    BY <1>7, <1>10, <1>11, <1>19, <2>1, <2>3, <2>5
<1> QED
  BY <1>6, <1>18, <1>19

(* The end of the text comes after one value, and completes a document.    *)
LEMMA EndIsDocument ==
  ASSUME Typed, Counted, code = "none", text' = Append(text, End),
         NEW P, Reading(P), phase = "after", stack = << >>
  PROVE  text' \in Documents
<1> DEFINE d == text'
           n == Len(text)
<1>1. /\ d \in Texts /\ Len(d) = n + 1 /\ n \in Nat /\ d = Append(text, End)
      /\ d[n + 1] = End /\ (\A i \in 1 .. n : d[i] = text[i])
      /\ End \in Tokens /\ n <= MaxText /\ text \in Texts
  BY OneMore, AppendIsThen, EmptyText, MarksAreTokens DEF Typed, Texts
<1>2. d \in Whole
  <2>1. One(End) \in Texts /\ Len(One(End)) = 1
    BY <1>1, OneParts
  <2>2. text \o One(End) = Append(text, End)
    <3>1. Append(text, End) = text \o Then(End, << >>)
      BY <1>1, AppendIsThen, EmptyText
    <3> QED
      BY <3>1, Zenon DEF One
  <2>3. Left(stack, phase, P, One(End))
    <3>1. Len(stack) = 0
      BY EmptySeq
    <3> QED
      BY <3>1 DEF Left
  <2>4. Len(text) + Len(One(End)) <= MaxText + 1
    BY <1>1, <2>1, ParserConstants
  <2> QED
    BY <2>1, <2>2, <2>3, <2>4 DEF Reading
<1>3. Fits(d)
  <2> DEFINE begun == {i \in 1 .. Len(d) - 1 : d[i] \in Starts /\ d[i + 1] # Colon}
             before == Begun(text, phase = "colon")
  <2>1. /\ nodes = Cardinality(before) /\ \A i \in before : Around(text, i) < MaxDepth
        /\ nodes <= MaxNodes
    BY DEF Counted, Typed
  <2>2. ASSUME NEW i \in 1 .. n
        PROVE  i \in begun <=> i \in before
    <3>1. i \in before <=> text[i] \in Starts /\ (i < n => text[i + 1] # Colon)
      BY <2>2 DEF Begun
    <3>2. CASE i < n
      <4>1. i + 1 \in 1 .. n
        BY <1>1, <3>2
      <4> QED
        BY <1>1, <3>1, <3>2, <4>1
    <3>3. CASE i = n
      BY <1>1, <3>1, <3>3, MarksDiffer
    <3> QED
      BY <1>1, <3>2, <3>3
  <2>3. Len(d) - 1 = n
    BY <1>1
  <2>4. before \subseteq 1 .. n /\ begun \subseteq 1 .. n
    BY <1>1, <2>3 DEF Begun
  <2>5. begun = before
    BY <2>2, <2>4
  <2>6. ASSUME NEW i \in begun PROVE Around(d, i) < MaxDepth
    <3> DEFINE m == i - 1
    <3>1. m \in Nat /\ m + 1 = i /\ \A j \in 1 .. m : d[j] = text[j]
      BY <1>1, <2>3
    <3> HIDE DEF m
    <3>2. Around(d, m + 1) = Around(text, m + 1)
      BY <3>1, AroundAgrees
    <3> QED
      BY <2>1, <2>5, <2>6, <3>1, <3>2
  <2> HIDE DEF before
  <2>7. Cardinality(begun) <= MaxNodes
    BY <2>1, <2>5
  <2> QED
    BY <2>6, <2>7 DEF Fits
<1> QED
  BY <1>2, <1>3, WholeTexts

(* and survives every step; a step that ends the parse decides as the      *)
(* grammar does.                                                           *)
LEMMA NextParser == ParserIInv /\ [ParserNext]_parserVars => ParserIInv'
<1>1. ASSUME ParserIInv, ParserNext PROVE ParserIInv'
  <2>0. Typed /\ Typed' /\ code = "none"
    BY <1>1, NextTyped, NextParts DEF ParserIInv
  <2>1. PICK t \in Tokens : text' = Append(text, t) /\ Reads(t)
    BY <1>1, <2>0, NextParts
  <2>2. PICK P : Chained(stack, P) /\ Reading(P)
    BY <1>1, <2>0 DEF ParserIInv
  <2>3. Counted
    BY <1>1, <2>0 DEF ParserIInv
  <2>4. CASE Agrees(P, t)
    <3>1. code' = "none" /\ ~Refused
      BY <2>4 DEF Agrees, Refused
    <3>2. Counted'
      BY <2>0, <2>1, <2>3, <3>1, ReadsCounted
    <3>3. (\E P1 : Chained(stack, P1) /\ Reading(P1))'
      BY <2>0, <2>1, <2>2, <2>4, AgreesReads
    <3> QED
      BY <2>0, <3>1, <3>2, <3>3 DEF ParserIInv, ParserIsExact
  <2>5. CASE \/ Hopeless(P, t)
             \/ Refused /\ AtValue(t) /\ (Len(stack) >= MaxDepth \/ nodes >= MaxNodes)
    <3>1. Refused
      BY <2>5 DEF Hopeless
    <3>2. text' \notin Beginnings
      BY <2>0, <2>1, <2>2, <2>3, <2>5, RefusedIsNoBeginning
    <3> QED
      BY <2>0, <3>1, <3>2 DEF Refused, ParserIInv, ParserIsExact
  <2>6. CASE phase = "after" /\ stack = << >> /\ t = End /\ code' = "ok"
    <3>1. text' \in Documents
      BY <2>0, <2>1, <2>2, <2>3, <2>6, EndIsDocument
    <3> QED
      BY <2>0, <2>6, <3>1 DEF ParserIInv, ParserIsExact
  <2> QED
    BY <2>0, <2>1, <2>2, <2>4, <2>5, <2>6, ReadsLeft
<1>2. ParserIInv /\ UNCHANGED parserVars => ParserIInv'
  BY DEF parserVars, ParserIInv, Typed, Counted, Reading, ParserIsExact
<1> QED
  BY <1>1, <1>2

-----------------------------------------------------------------------------
(***************************************************************************)
(* The three together, as Inputs composes them.                            *)
(***************************************************************************)

(* Sizes and types of the window, the mirror and the history.              *)
GateSizes == seen \subseteq MessageIds /\ Len(accepted) <= MaxAccepted

(* Windows and histories stay within their bounds.                         *)
LEMMA NextGateSizes ==
  GateIInv /\ GateSizes /\ [GateNext]_gateVars => GateSizes'
<1>1. ASSUME GateIInv, GateSizes, NEW id \in MessageIds, NEW message,
             Receive(id, message)
      PROVE  GateSizes'
  <2>1. accepted \in Seq(MessageIds) /\ Len(accepted) \in Nat /\ MaxAccepted \in Nat
    BY <1>1, GateConstants, LenProperties DEF GateIInv, Recent
  <2>2. Len(accepted') <= MaxAccepted
    <3>1. CASE accepted' = accepted
      BY <1>1, <3>1 DEF GateSizes
    <3>2. CASE Len(accepted) < MaxAccepted /\ accepted' = Append(accepted, id)
      <4>1. Len(accepted') = Len(accepted) + 1
        BY <2>1, <3>2, AppendProperties
      <4> QED
        BY <2>1, <3>2, <4>1
    <3> QED
      BY <1>1, <3>1, <3>2 DEF Receive
  <2>3. seen' \subseteq MessageIds
    BY <1>1 DEF Receive, GateSizes
  <2> QED
    BY <2>2, <2>3 DEF GateSizes
<1>2. GateSizes /\ UNCHANGED gateVars => GateSizes'
  BY DEF gateVars, GateSizes
<1> QED
  BY <1>1, <1>2 DEF GateNext

(* Both together give the gate's type invariant.                           *)
LEMMA GateTyped == GateIInv /\ GateSizes => GateTypeOK
<1> SUFFICES ASSUME GateIInv, GateSizes PROVE GateTypeOK
  OBVIOUS
<1>1. /\ accepted \in Seq(MessageIds) /\ order \in Seq(MessageIds)
      /\ Len(order) = IF Len(accepted) < Capacity THEN Len(accepted) ELSE Capacity
      /\ set = {order[i] : i \in 1 .. Len(order)}
  BY DEF GateIInv, Recent, Twins
<1>2. Len(order) <= Capacity
  BY <1>1, GateConstants, LenProperties
<1>3. set \subseteq MessageIds
  BY <1>1, ElementOfSeq
<1> QED
  BY <1>1, <1>2, <1>3 DEF GateTypeOK, GateSizes

(* All three parts, of which a step changes at most one. *)
InputsIInv ==
  /\ CalendarIInv /\ ParserIInv
  /\ GateIInv /\ GateSizes /\ Remembered
  /\ given \in {"calendar", "text", "messages"}

(* The three invariants hold at the start,                                 *)
LEMMA InitInputs == Init => InputsIInv
<1> SUFFICES ASSUME Init PROVE InputsIInv
  OBVIOUS
<1>1. /\ CalendarInit /\ ParserInit /\ GateInit
      /\ given \in {"calendar", "text", "messages"}
  BY DEF Init
<1>2. GateSizes /\ Remembered
  <2>1. Len(<< >>) = 0
    BY EmptySeq
  <2> QED
    BY <1>1, <2>1, GateConstants DEF GateInit, GateSizes, Remembered
<1> QED
  BY <1>1, <1>2, InitCalendar, InitParser, InitGateIInv DEF InputsIInv

(* a step of the whole is one of each part or leaves the part alone,       *)
LEMMA StepOfOne ==
  [Next]_vars => /\ [CalendarNext]_calendarVars /\ [ParserNext]_parserVars
                 /\ [GateNext]_gateVars
                 /\ UNCHANGED given
<1>1. GiveCalendar => /\ CalendarNext /\ UNCHANGED parserVars /\ UNCHANGED gateVars
                      /\ UNCHANGED given
  BY DEF GiveCalendar
<1>2. GiveText => /\ ParserNext /\ UNCHANGED calendarVars /\ UNCHANGED gateVars
                  /\ UNCHANGED given
  BY DEF GiveText
<1>3. GiveMessages => /\ GateNext /\ UNCHANGED calendarVars /\ UNCHANGED parserVars
                      /\ UNCHANGED given
  BY DEF GiveMessages
<1>4. UNCHANGED vars => /\ UNCHANGED calendarVars /\ UNCHANGED parserVars
                        /\ UNCHANGED gateVars /\ UNCHANGED given
  BY DEF vars
<1> QED
  BY <1>1, <1>2, <1>3, <1>4, Zenon DEF Next

(* so the three survive every step together                                *)
LEMMA NextInputs == InputsIInv /\ [Next]_vars => InputsIInv'
<1> SUFFICES ASSUME InputsIInv, [Next]_vars PROVE InputsIInv'
  OBVIOUS
<1>1. /\ [CalendarNext]_calendarVars /\ [ParserNext]_parserVars
      /\ [GateNext]_gateVars /\ given' = given
  BY StepOfOne
<1>2. CalendarIInv' /\ ParserIInv'
  BY <1>1, NextCalendar, NextParser DEF InputsIInv
<1>3. GateIInv' /\ GateSizes' /\ Remembered'
  BY <1>1, NextGateIInv, NextGateSizes, NextRemembered DEF InputsIInv
<1> QED
  BY <1>1, <1>2, <1>3 DEF InputsIInv

(* and always hold.                                                        *)
LEMMA InputsAlways == Spec => []InputsIInv
  BY InitInputs, NextInputs, PTL DEF Spec

(* The types of all three parts (MaterializedSchedule, JsonParser,         *)
(* ReplayWindow): the rules in use are those of valid chains, the depth    *)
(* and the nodes of a text and the entries of the window are bounded.      *)
THEOREM InputsTyped == Spec => []TypeOK
<1>1. InputsIInv => TypeOK
  BY CalendarTyped, TypedIsTypeOK, GateTyped DEF InputsIInv, ParserIInv, TypeOK
<1> QED
  BY <1>1, InputsAlways, PTL

(* parse_json accepts exactly the texts of the grammar with unique keys    *)
(* and within its limits, whatever the limits are, and what it refuses     *)
(* begins none of them.                                                    *)
THEOREM ParserReadsTheGrammar == Spec => []ParserIsExact
<1>1. InputsIInv => ParserIsExact
  BY DEF InputsIInv, ParserIInv
<1> QED
  BY <1>1, InputsAlways, PTL

(* The rules that build_pinned_timezone_rules makes for a window tell the  *)
(* time of the records, for every instant of the window before the cutoff. *)
THEOREM RulesTellTime == Spec => []WindowTellsTime
<1>1. InputsIInv => WindowTellsTime
  BY CalendarTellsTime DEF InputsIInv
<1> QED
  BY <1>1, InputsAlways, PTL

(* materialize_next_schedule_entries gives a place to every alarm or to    *)
(* none, and says of a plan that it made none only with a reason.          *)
THEOREM PlansAreWhole == Spec => []PlanHasReason
<1>1. InputsIInv => PlanHasReason
  BY CalendarPlans DEF InputsIInv
<1> QED
  BY <1>1, InputsAlways, PTL

(* The messages among the inputs are those of the gate on its own, so that *)
(* the theorems of the gate hold of the inputs.                            *)
THEOREM InputsKeepTheGate == Spec => GateSpec
<1>1. Init => GateInit
  BY DEF Init
<1>2. [Next]_vars => [GateNext]_gateVars
  BY StepOfOne
<1> QED
  BY <1>1, <1>2, PTL DEF Spec, GateSpec
=============================================================================
