---------------------------- MODULE ScheduleFlow ----------------------------
(***************************************************************************)
(* The application's schedule flow: review, preview, token, confirmed      *)
(* apply and receipt, over the exchange that frames the messages and the   *)
(* mirror of the device's schedule, against a device that commits by       *)
(* compare-and-set behind the replay window of the envelope gate.          *)
(* Messages are lost, delayed, reordered and repeated; another client      *)
(* commits; the mirror is refreshed, restored or erased at any moment.     *)
(* Message identities are numbers; a schedule is its set of alarms.        *)
(***************************************************************************)
EXTENDS Integers, FiniteSets, SequencesExt

CONSTANTS
  None,
  Alarms,        \* the alarms a schedule may hold
  Capacity,      \* kMaxStoredAlarms
  Window,        \* capacity of the device's replay window
  MaxRequests,   \* bound: requests the application frames
  MaxAnswers,    \* bound: answers to one request
  MaxRevision,   \* bound: committed revisions
  Refreshes      \* whether the mirror changes other than by a receipt

ASSUME FlowConstants ==
  /\ Capacity \in Nat /\ Window \in Nat
  /\ MaxRequests \in Nat /\ MaxAnswers \in Nat /\ MaxRevision \in Nat
  /\ Refreshes \in BOOLEAN
  /\ None \notin Int

VARIABLES
  mirror,     \* DeviceScheduleStore: revision and alarms
  flow,       \* ScheduleFlowController: phase, diff, conflict revision
  exchange,   \* ScheduleExchange: phase, armed diff, token, conflict, seen ids
  requests,   \* requests handed to the transport: the latest, and every apply
  answers,    \* answers to the awaited request, never taken away
  current,    \* the request whose answer the caller awaits
  device      \* the commits, one for each revision, and the replay window

vars == <<mirror, flow, exchange, requests, answers, current, device>>

Schedules ==
  {s \in SUBSET Alarms : IsFiniteSet(s) /\ Cardinality(s) <= Capacity}

(* None stands for a proposal over capacity or with a repeated alarm. *)
Proposals == Schedules \cup {None}
Revisions == 0 .. MaxRevision

(* A reviewed change: from the mirror's alarms to the proposed ones. *)
Diffs == [expected : Revisions, baseline : Schedules, proposal : Schedules]

Requests == [id : 1 .. MaxRequests, type : {"preview", "apply"}, diff : Diffs]

Codes == {"revision_conflict", "duplicate_message_id", "other"}

(* id is the answer's own message identity. *)
Answers ==
  [id : 1 .. MaxAnswers, kind : {"token"}]
  \cup [id : 1 .. MaxAnswers, kind : {"receipt"},
        revision : Revisions, count : 0 .. Capacity]
  \cup [id : 1 .. MaxAnswers, kind : {"error"},
        code : Codes, revision : Revisions \cup {None}]

NewExchange == [phase |-> "idle", armed |-> None, token |-> None,
                conflict |-> None, seen |-> {}]

IdleFlow == [phase |-> "idle", diff |-> None, conflict |-> None]

CurrentRevision == Len(device.log) - 1
Commit(r) == device.log[r + 1]
Committed(r) == Commit(r).alarms

Init ==
  /\ mirror = [revision |-> 0, alarms |-> {}]
  /\ flow = IdleFlow /\ exchange = NewExchange
  /\ requests = {} /\ answers = {} /\ current = 0
  /\ device = [log |-> <<[alarms |-> {}, request |-> None]>>,
               window |-> << >>]

-----------------------------------------------------------------------------
(* The controller. *)
Move(phase) == flow' = [flow EXCEPT !.phase = phase, !.conflict = None]

Forget(phase) == flow' = [IdleFlow EXCEPT !.phase = phase]

CanCancel == flow.phase \in {"review", "previewPending",
                             "confirmationRequired", "refused"}

CanReview == flow.phase \in {"idle", "review", "refused", "applied"}

(* review: a proposal that validateProposal throws on is refused. *)
Review(proposal) ==
  /\ CanReview
  /\ exchange' = NewExchange
  /\ IF proposal # None
     THEN flow' = [phase |-> "review", conflict |-> None,
                   diff |-> [expected |-> mirror.revision,
                             baseline |-> mirror.alarms,
                             proposal |-> proposal]]
     ELSE Forget("refused")
  /\ UNCHANGED <<mirror, requests, answers, current, device>>

(* Mutant: nobody looks whether the mirror moved since the review. *)
NeverStale == FALSE

(* The mirror is no longer at the revision that was reviewed. *)
MirrorChanged == mirror.revision # flow.diff.expected

(* Applies stay in the transport for ever, and may arrive at any time; a   *)
(* preview is forgotten with the request that follows it.                  *)
Send(type) ==
  /\ current < MaxRequests
  /\ current' = current + 1 /\ answers' = {}
  /\ requests' = {m \in requests : m.type = "apply"}
                 \cup {[id |-> current', type |-> type,
                        diff |-> exchange'.armed]}

(* requestPreview: the exchange is made anew and armed before the envelope *)
(* is framed; a message identity the gate refuses leaves it armed only.    *)
RequestPreview(identityAccepted) ==
  /\ flow.phase = "review"
  /\ IF MirrorChanged
     THEN /\ Forget("refused")
          /\ UNCHANGED <<exchange, requests, answers, current>>
     ELSE IF ~identityAccepted
     THEN /\ exchange' = [NewExchange EXCEPT !.armed = flow.diff]
          /\ Move("review") /\ UNCHANGED <<requests, answers, current>>
     ELSE /\ exchange' = [NewExchange EXCEPT !.armed = flow.diff,
                                             !.phase = "previewSent"]
          /\ Send("preview") /\ Move("previewPending")
  /\ UNCHANGED <<mirror, device>>

ReceiveToken(m) ==
  /\ flow.phase = "previewPending" /\ m.kind = "token"
  /\ exchange' = [exchange EXCEPT !.token = current, !.phase = "readyToApply"]
  /\ Move("confirmationRequired")
  /\ UNCHANGED <<mirror, requests, answers, current, device>>

(* Mutant: nothing is dropped. *)
NotAborted == exchange

(* abort: the proposal, its token and a reported revision are dropped. *)
Aborted == [NewExchange EXCEPT !.seen = exchange.seen]

ConfirmApply(identityAccepted) ==
  /\ flow.phase = "confirmationRequired"
  /\ IF MirrorChanged
     THEN /\ exchange' = Aborted
          /\ Forget("refused") /\ UNCHANGED <<requests, answers, current>>
     ELSE IF ~identityAccepted
     THEN /\ Move("confirmationRequired")
          /\ UNCHANGED <<exchange, requests, answers, current>>
     ELSE /\ exchange' = [exchange EXCEPT !.phase = "applySent"]
          /\ Send("apply") /\ Move("applyPending")
  /\ UNCHANGED <<mirror, device>>

(* Mutant: the application expects the revision it proposed against. *)
ConsistentUnadvanced(m) ==
  /\ m.revision = exchange.armed.expected
  /\ m.count = Cardinality(exchange.armed.proposal)

(* The receipt advances the reviewed revision by one and counts its alarms. *)
Consistent(m) ==
  /\ m.revision = exchange.armed.expected + 1
  /\ m.count = Cardinality(exchange.armed.proposal)

(* recordApplied *)
RecordApplied(revision, alarms) ==
  mirror' = [revision |-> revision, alarms |-> alarms]

IngestReceipt(m) ==
  IF Consistent(m)
  THEN /\ RecordApplied(m.revision, exchange.armed.proposal)
       /\ exchange' = [exchange EXCEPT !.phase = "applied", !.armed = None,
                         !.token = None, !.seen = @ \cup {m.id}]
       /\ Move("applied")
  ELSE /\ exchange' = [exchange EXCEPT !.seen = @ \cup {m.id}]
       /\ Move("applyPending") /\ UNCHANGED mirror

IngestError(m) ==
  /\ IF m.code = "revision_conflict"
     THEN /\ exchange' = [Aborted EXCEPT !.phase = "needsRefresh",
                            !.conflict = m.revision, !.seen = @ \cup {m.id}]
          /\ flow' = [phase |-> "needsRefresh", diff |-> None,
                      conflict |-> m.revision]
     ELSE /\ exchange' = [Aborted EXCEPT !.seen = @ \cup {m.id}]
          /\ Move("refused")
  /\ UNCHANGED mirror

(* receive: an answer while the mirror has moved, and one seen before,     *)
(* change nothing.                                                         *)
Receive(m) ==
  /\ flow.phase = "applyPending" /\ m.kind # "token"
  /\ ~MirrorChanged /\ m.id \notin exchange.seen
  /\ IF m.kind = "receipt" THEN IngestReceipt(m) ELSE IngestError(m)
  /\ UNCHANGED <<requests, answers, current, device>>

CanAcknowledge ==
  /\ flow.phase = "needsRefresh" /\ flow.conflict # None
  /\ mirror.revision = flow.conflict

(* acknowledgeRefresh and the exchange's rebase *)
AcknowledgeRefresh ==
  /\ CanAcknowledge
  /\ exchange' = [exchange EXCEPT !.phase = "idle", !.conflict = None]
  /\ flow' = IdleFlow
  /\ UNCHANGED <<mirror, requests, answers, current, device>>

Cancel ==
  /\ CanCancel
  /\ exchange' = NewExchange /\ flow' = IdleFlow
  /\ UNCHANGED <<mirror, requests, answers, current, device>>

-----------------------------------------------------------------------------
(* The mirror changes by other paths: a refresh, a restored backup and an  *)
(* erase all leave it at some revision the device has had.                 *)
ChangeMirror ==
  /\ Refreshes
  /\ \E r \in 0 .. CurrentRevision :
       mirror' = [revision |-> r, alarms |-> Committed(r)]
  /\ UNCHANGED <<flow, exchange, requests, answers, current, device>>

(* The application restarts: controller and mirror live in memory. *)
Restart ==
  /\ Refreshes
  /\ mirror' = [revision |-> 0, alarms |-> {}]
  /\ flow' = IdleFlow /\ exchange' = NewExchange
  /\ answers' = {}
  /\ UNCHANGED <<requests, current, device>>

(* Callers correlate: only answers to the latest request reach the flow,   *)
(* in any order and any number of times.                                   *)
Deliver == \E m \in answers : ReceiveToken(m) \/ Receive(m)

-----------------------------------------------------------------------------
(* The device.  Its gate refuses a remembered identity and remembers an    *)
(* accepted one, dropping the oldest; the identity is not there yet.       *)
Remembers(id) == id \in ToSet(device.window)

(* Mutant: nothing is dropped. *)
RememberAll(window, id) == Append(window, id)

Remember(window, id) ==
  LET order == Append(window, id)
  IN  IF Len(order) <= Window THEN order ELSE Tail(order)

NextAnswer == Cardinality(answers) + 1

Answer(m, answer) ==
  IF m.id # current THEN UNCHANGED answers
  ELSE NextAnswer <= MaxAnswers /\ answers' = answers \cup {answer}

Token == [id |-> NextAnswer, kind |-> "token"]

Error(code, revision) ==
  [id |-> NextAnswer, kind |-> "error", code |-> code, revision |-> revision]

Receipt(m) ==
  [id |-> NextAnswer, kind |-> "receipt", revision |-> m.diff.expected + 1,
   count |-> Cardinality(m.diff.proposal)]

(* Mutant: the revision alone tells that the schedule is there. *)
RevisionThere(d) == CurrentRevision = d.expected + 1

(* The save of an apply: the schedule already there is a success without a *)
(* write, another revision a conflict.                                     *)
AlreadyThere(d) ==
  /\ CurrentRevision = d.expected + 1
  /\ Committed(CurrentRevision) = d.proposal

(* Mutant: the device applies whatever revision was expected. *)
CanCommitAnything(d) == CurrentRevision < MaxRevision

CanCommit(d) == CurrentRevision = d.expected /\ CurrentRevision < MaxRevision

(* A request may be refused before its identity is consumed. *)
RefuseRequest(m) ==
  /\ ~Remembers(m.id)
  /\ Answer(m, Error("other", None)) /\ UNCHANGED device

RefuseRepeated(m) ==
  /\ Remembers(m.id)
  /\ Answer(m, Error("duplicate_message_id", None)) /\ UNCHANGED device

(* A conflict reports the current revision, which the schema leaves        *)
(* optional.                                                               *)
Conflict(m) ==
  /\ ~Remembers(m.id) /\ CurrentRevision # m.diff.expected
  /\ m.type = "preview" \/ ~AlreadyThere(m.diff)
  /\ \E r \in {CurrentRevision, None} :
       Answer(m, Error("revision_conflict", r))
  /\ device' = [device EXCEPT !.window = Remember(@, m.id)]

IssueToken(m) ==
  /\ ~Remembers(m.id) /\ m.type = "preview"
  /\ CurrentRevision = m.diff.expected
  /\ Answer(m, Token)
  /\ device' = [device EXCEPT !.window = Remember(@, m.id)]

Apply(m) ==
  /\ ~Remembers(m.id) /\ m.type = "apply"
  /\ Answer(m, Receipt(m))
  /\ \/ /\ AlreadyThere(m.diff)
        /\ device' = [device EXCEPT !.window = Remember(@, m.id)]
     \/ /\ ~AlreadyThere(m.diff) /\ CanCommit(m.diff)
        /\ device' = [log |-> Append(device.log, [alarms |-> m.diff.proposal,
                                               request |-> m.id]),
                      window |-> Remember(device.window, m.id)]

Handle(m) ==
  /\ \/ RefuseRequest(m) \/ RefuseRepeated(m)
     \/ Conflict(m) \/ IssueToken(m) \/ Apply(m)
  /\ UNCHANGED <<mirror, flow, exchange, requests, current>>

HandleRequest == \E m \in requests : Handle(m)

(* The awaited request reaches the device and is answered a first time. *)
AnswerAwaited == answers = {} /\ \E m \in requests : m.id = current /\ Handle(m)

(* Another client's apply, or a confirmed disable on the device itself. *)
OtherCommit ==
  /\ CurrentRevision < MaxRevision
  /\ \E s \in Schedules :
       device' = [device EXCEPT !.log = Append(@, [alarms |-> s, request |-> None])]
  /\ UNCHANGED <<mirror, flow, exchange, requests, answers, current>>

-----------------------------------------------------------------------------
User == \/ \E proposal \in Proposals : Review(proposal)
        \/ \E accepted \in BOOLEAN : \/ RequestPreview(accepted)
                                     \/ ConfirmApply(accepted)
        \/ AcknowledgeRefresh \/ Cancel

Next == \/ User \/ Deliver \/ ChangeMirror \/ Restart
        \/ HandleRequest \/ OtherCommit

Spec == Init /\ [][Next]_vars

(* A transport that delivers: the awaited request is answered at least     *)
(* once, and an answer that changes the flow is eventually handed over.    *)
FairSpec == Spec /\ WF_vars(AnswerAwaited) /\ WF_vars(Deliver)

-----------------------------------------------------------------------------
TypeOK ==
  /\ mirror \in [revision : Revisions, alarms : Schedules]
  /\ flow \in [phase : {"idle", "review", "previewPending",
                        "confirmationRequired", "applyPending",
                        "needsRefresh", "applied", "refused"},
               diff : Diffs \cup {None}, conflict : Revisions \cup {None}]
  /\ exchange \in [phase : {"idle", "previewSent", "readyToApply",
                            "applySent", "needsRefresh", "applied"},
                   armed : Diffs \cup {None},
                   token : (1 .. MaxRequests) \cup {None},
                   conflict : Revisions \cup {None},
                   seen : SUBSET (1 .. MaxAnswers)]
  /\ requests \subseteq Requests /\ answers \subseteq Answers
  /\ current \in 0 .. MaxRequests
  /\ device.log \in Seq([alarms : Schedules,
                         request : (1 .. MaxRequests) \cup {None}])
  /\ Len(device.window) <= Window

(* The mirror never shows, for the revision it claims, a schedule the      *)
(* device did not commit at that revision: adoption, refresh and restore   *)
(* agree however answers are delayed or repeated.                          *)
MirrorIsCommitted ==
  /\ mirror.revision <= CurrentRevision
  /\ mirror.alarms = Committed(mirror.revision)

(* The controller never calls its exchange in a phase in which the         *)
(* exchange throws, because the two phases move together.                  *)
FlowFollowsExchange ==
  LET phases == [idle |-> "idle", review |-> "idle", refused |-> "idle",
                 previewPending |-> "previewSent",
                 confirmationRequired |-> "readyToApply",
                 applyPending |-> "applySent", applied |-> "applied",
                 needsRefresh |-> "needsRefresh"]
  IN  /\ exchange.phase = phases[flow.phase]
      /\ exchange.conflict = flow.conflict
      /\ flow.phase \in {"previewPending", "confirmationRequired",
                         "applyPending"} => exchange.armed = flow.diff

(* Lost-update protection: a schedule of this application replaces exactly *)
(* the schedule its user reviewed it against, whoever else committed and   *)
(* however old the request is.                                             *)
NoLostUpdate ==
  \A r \in 1 .. CurrentRevision, m \in requests :
    Commit(r).request = m.id => Committed(r - 1) = m.diff.baseline

(* A receipt takes the mirror forward by the one revision that was         *)
(* reviewed, never back past a refresh that came before it.                *)
ReceiptAdvancesMirror ==
  [][exchange.phase = "applySent" /\ exchange'.phase = "applied"
     => mirror'.revision = mirror.revision + 1]_vars

(* A framed apply, which can neither be canceled nor repeated, is settled  *)
(* by the first answer that arrives, whatever that answer is, unless the   *)
(* mirror is refreshed under it.                                           *)
ApplySettles ==
  flow.phase = "applyPending"
    ~> flow.phase # "applyPending" \/ MirrorChanged
=============================================================================
