------------------------- MODULE ScheduleFlowProofs -------------------------
(***************************************************************************)
(* Theorems about ScheduleFlow, for any alarms and capacity, any number of *)
(* requests, answers and revisions, and a replay window of any length.     *)
(***************************************************************************)
EXTENDS ScheduleFlow, FiniteSetTheorems, SequenceTheorems, TLAPS

Commits == [alarms : Schedules, request : (1 .. MaxRequests) \cup {None}]

Flows ==
  [phase : {"idle", "review", "previewPending", "confirmationRequired",
            "applyPending", "needsRefresh", "applied", "refused"},
   diff : Diffs \cup {None}, conflict : Revisions \cup {None}]

Exchanges ==
  [phase : {"idle", "previewSent", "readyToApply", "applySent",
            "needsRefresh", "applied"},
   armed : Diffs \cup {None}, token : (1 .. MaxRequests) \cup {None},
   conflict : Revisions \cup {None}, seen : SUBSET (1 .. MaxAnswers)]

Types ==
  /\ TypeOK
  /\ device \in [log : Seq(Commits), window : Seq(1 .. MaxRequests)]
  /\ CurrentRevision \in Revisions
  /\ IsFiniteSet(answers)

(* The phases in which the application has a change under way, and those   *)
(* in which its exchange is armed with it.                                 *)
Armed == {"previewPending", "confirmationRequired", "applyPending"}
Reviewing == Armed \cup {"review"}

(* The first schedule the device had, and the application knows of.        *)
BeginsEmpty == Committed(0) = {}

(* A change against a schedule the device had at the revision it expects.  *)
Genuine(diff) ==
  /\ diff \in Diffs /\ diff.expected <= CurrentRevision
  /\ diff.baseline = Committed(diff.expected)

Reviewed ==
  /\ flow.phase \in Reviewing => Genuine(flow.diff)
  /\ \A m \in requests : Genuine(m.diff)

OnlyConflicts == flow.phase # "needsRefresh" => flow.conflict = None

(* No identity is used twice, and none before it is framed.                *)
Identified ==
  /\ \A m \in requests : m.id <= current
  /\ \A m, n \in requests : m.id = n.id => m = n
  /\ \A r \in 0 .. CurrentRevision :
       Commit(r).request # None => Commit(r).request <= current

(* The request whose answer an armed exchange awaits carries its change.   *)
Awaited ==
  flow.phase \in Armed =>
    /\ current # 0
    /\ \A m \in requests : m.id = current => m.diff = exchange.armed

(* A receipt was given for what the awaited apply proposed, and the device *)
(* had committed just that at the revision it reports.                     *)
Receipted ==
  \A a \in answers : a.kind = "receipt" =>
    /\ a.revision <= CurrentRevision
    /\ \E m \in requests :
         /\ m.id = current /\ a.revision = m.diff.expected + 1
         /\ Committed(a.revision) = m.diff.proposal

IInv ==
  /\ Types /\ BeginsEmpty
  /\ FlowFollowsExchange /\ OnlyConflicts /\ Reviewed
  /\ Identified /\ Awaited /\ Receipted /\ MirrorIsCommitted /\ NoLostUpdate


-----------------------------------------------------------------------------
(* The two phases, pair by pair. *)
Paired(f, x) ==
  \/ f.phase \in {"idle", "review", "refused"} /\ x.phase = "idle"
  \/ f.phase = "previewPending" /\ x.phase = "previewSent"
  \/ f.phase = "confirmationRequired" /\ x.phase = "readyToApply"
  \/ f.phase = "applyPending" /\ x.phase = "applySent"
  \/ f.phase = "applied" /\ x.phase = "applied"
  \/ f.phase = "needsRefresh" /\ x.phase = "needsRefresh"

LEMMA PhasesPaired ==
  ASSUME flow \in Flows
  PROVE  FlowFollowsExchange <=>
           /\ Paired(flow, exchange) /\ exchange.conflict = flow.conflict
           /\ flow.phase \in Armed => exchange.armed = flow.diff
  BY DEF FlowFollowsExchange, Paired, Flows, Armed

LEMMA ScheduleSizes ==
  /\ {} \in Schedules
  /\ \A s \in Schedules : Cardinality(s) \in 0 .. Capacity
  BY FlowConstants, FS_EmptySet, FS_CardinalityType DEF Schedules

LEMMA NewRecords ==
  IdleFlow \in Flows /\ NewExchange \in Exchanges /\ None \notin Int
  BY FlowConstants
  DEF IdleFlow, Flows, NewExchange, Exchanges, Revisions

LEMMA LogIs ==
  ASSUME Types
  PROVE  /\ device.log \in Seq(Commits) /\ Len(device.log) \in Nat
         /\ Len(device.log) = CurrentRevision + 1
         /\ CurrentRevision \in 0 .. MaxRevision
<1>1. device.log \in Seq(Commits)
  BY DEF Types
<1>2. Len(device.log) \in Nat
  BY <1>1
<1>3. CurrentRevision \in 0 .. MaxRevision
  BY DEF Types, Revisions
<1> QED
  BY <1>1, <1>2, <1>3 DEF CurrentRevision

(* What the device committed stays committed under the same revision.      *)
LEMMA Appended ==
  ASSUME Types, NEW commit \in Commits,
         device'.log = Append(device.log, commit)
  PROVE  /\ CurrentRevision' = CurrentRevision + 1
         /\ \A r \in 0 .. CurrentRevision : Commit(r)' = Commit(r)
         /\ Commit(CurrentRevision)' = commit
         /\ device'.log \in Seq(Commits)
<1>1. /\ device.log \in Seq(Commits) /\ Len(device.log) \in Nat
      /\ Len(device.log) = CurrentRevision + 1
      /\ CurrentRevision \in 0 .. MaxRevision
  BY LogIs
<1>2. /\ device'.log \in Seq(Commits)
      /\ Len(device'.log) = Len(device.log) + 1
      /\ device'.log[Len(device.log) + 1] = commit
      /\ \A i \in 1 .. Len(device.log) : device'.log[i] = device.log[i]
  BY <1>1
<1>3. CurrentRevision' = CurrentRevision + 1
  BY <1>1, <1>2 DEF CurrentRevision
<1>4. \A r \in 0 .. CurrentRevision : Commit(r)' = Commit(r)
  <2> SUFFICES ASSUME NEW r \in 0 .. CurrentRevision
               PROVE  device'.log[r + 1] = device.log[r + 1]
    BY DEF Commit
  <2>1. r + 1 \in 1 .. Len(device.log)
    BY <1>1, FlowConstants
  <2> QED
    BY <1>2, <2>1
<1>5. Commit(CurrentRevision)' = commit
  BY <1>1, <1>2, <1>3 DEF Commit
<1> QED
  BY <1>2, <1>3, <1>4, <1>5

LEMMA CommitsAre ==
  ASSUME Types, NEW r \in 0 .. CurrentRevision
  PROVE  /\ Commit(r) \in Commits /\ Committed(r) \in Schedules
         /\ Commit(r).request \in (1 .. MaxRequests) \cup {None}
<1>1. r + 1 \in 1 .. Len(device.log) /\ device.log \in Seq(Commits)
  BY LogIs
<1>2. device.log[r + 1] \in Commits
  BY <1>1
<1> QED
  BY <1>2 DEF Commit, Committed, Commits

LEMMA InitIInv == Init => IInv
<1> SUFFICES ASSUME Init PROVE IInv
  OBVIOUS
<1> DEFINE first == [alarms |-> {}, request |-> None]
<1>1. /\ mirror = [revision |-> 0, alarms |-> {}]
      /\ flow = IdleFlow /\ exchange = NewExchange
      /\ requests = {} /\ answers = {} /\ current = 0
      /\ device = [log |-> <<first>>, window |-> << >>]
  BY DEF Init
<1>2. first \in Commits
  BY ScheduleSizes DEF Commits
<1>3. /\ Len(device.log) = 1 /\ device.log[1] = first
      /\ device.log \in Seq(Commits) /\ device.window = << >>
      /\ device.window \in Seq(1 .. MaxRequests)
      /\ Len(device.window) = 0
  BY <1>1, <1>2
<1> HIDE DEF first
<1>4. /\ CurrentRevision = 0 /\ Commit(0) = first /\ Committed(0) = {}
  BY <1>3 DEF CurrentRevision, Commit, Committed, first
<1>5. flow \in Flows /\ exchange \in Exchanges
  BY <1>1, NewRecords
<1>6. Types
  <2>1. mirror \in [revision : Revisions, alarms : Schedules]
    BY <1>1, ScheduleSizes, FlowConstants DEF Revisions
  <2>2. requests \subseteq Requests /\ answers \subseteq Answers
    BY <1>1
  <2>3. TypeOK
    BY <1>1, <1>3, <1>5, <2>1, <2>2, FlowConstants
    DEF TypeOK, Flows, Exchanges, Commits
  <2>4. IsFiniteSet(answers)
    BY <1>1, FS_EmptySet
  <2> QED
    BY <1>1, <1>3, <1>4, <2>3, <2>4, FlowConstants DEF Types, Revisions
<1>7. FlowFollowsExchange /\ OnlyConflicts
  BY <1>1, <1>5, PhasesPaired
  DEF IdleFlow, NewExchange, Paired, Armed, OnlyConflicts
<1>8. Reviewed /\ Identified /\ Awaited /\ Receipted
  BY <1>1, <1>4
  DEF Reviewed, Identified, Awaited, Receipted, IdleFlow, Reviewing, Armed,
      first
<1>9. MirrorIsCommitted /\ NoLostUpdate /\ BeginsEmpty
  BY <1>1, <1>4 DEF MirrorIsCommitted, NoLostUpdate, BeginsEmpty
<1> QED
  BY <1>6, <1>7, <1>8, <1>9 DEF IInv

(* A step of the application alone, that frames nothing.                   *)
LEMMA ApplicationMoves ==
  ASSUME IInv, UNCHANGED <<requests, current, device>>,
         answers' \in {answers, {}},
         mirror' \in [revision : Revisions, alarms : Schedules],
         MirrorIsCommitted',
         flow' \in Flows, exchange' \in Exchanges,
         Paired(flow', exchange'), exchange'.conflict = flow'.conflict,
         flow'.phase # "needsRefresh" => flow'.conflict = None,
         flow'.phase \in Reviewing => Genuine(flow'.diff),
         flow'.phase \in Armed =>
           /\ exchange'.armed = flow'.diff /\ current # 0
           /\ \A m \in requests : m.id = current => m.diff = flow'.diff
  PROVE  IInv'
<1>1. Types'
  BY FS_EmptySet, FlowConstants
  DEF IInv, Types, TypeOK, Flows, Exchanges, CurrentRevision, Commits
<1>2. FlowFollowsExchange'
  BY PhasesPaired DEF Armed, FlowFollowsExchange, Paired, Flows
<1>3. OnlyConflicts' /\ Reviewed' /\ Identified' /\ Awaited'
  BY DEF IInv, OnlyConflicts, Reviewed, Genuine, Identified, Awaited,
         CurrentRevision, Commit, Committed
<1>4. Receipted' /\ NoLostUpdate' /\ BeginsEmpty'
  BY DEF IInv, Receipted, NoLostUpdate, BeginsEmpty, CurrentRevision, Commit,
         Committed
<1> QED
  BY <1>1, <1>2, <1>3, <1>4 DEF IInv

(* What holds of the mirror while the application's other state moves.     *)
LEMMA MirrorStays ==
  ASSUME IInv, UNCHANGED <<mirror, device>>
  PROVE  /\ mirror' \in [revision : Revisions, alarms : Schedules]
         /\ MirrorIsCommitted'
  BY DEF IInv, Types, TypeOK, MirrorIsCommitted, CurrentRevision, Committed,
         Commit

(* The change under way, while the device commits nothing.                 *)
LEMMA ChangeIsGenuine ==
  ASSUME IInv, flow.phase \in Reviewing
  PROVE  Genuine(flow.diff) /\ flow.diff \in Diffs /\ flow.conflict = None
  BY DEF IInv, Reviewed, Genuine, OnlyConflicts, Reviewing, Armed

LEMMA ReviewKeeps ==
  ASSUME IInv, NEW proposal \in Proposals, Review(proposal)
  PROVE  IInv'
<1>1. /\ UNCHANGED <<mirror, requests, answers, current, device>>
      /\ exchange' = NewExchange
  BY DEF Review
<1>2. /\ mirror' \in [revision : Revisions, alarms : Schedules]
      /\ MirrorIsCommitted'
  BY <1>1, MirrorStays
<1>3. CASE proposal # None
  <2> DEFINE diff == [expected |-> mirror.revision,
                      baseline |-> mirror.alarms, proposal |-> proposal]
  <2>1. flow' = [phase |-> "review", conflict |-> None, diff |-> diff]
    BY <1>3 DEF Review
  <2>2. diff \in Diffs /\ proposal \in Schedules
    BY <1>3 DEF IInv, Types, TypeOK, Diffs, Proposals
  <2>3. Genuine(diff)
    BY <2>2 DEF Genuine, IInv, MirrorIsCommitted
  <2> HIDE DEF diff
  <2>4. flow' \in Flows /\ exchange' \in Exchanges
    BY <1>1, <2>1, <2>2, NewRecords DEF Flows
  <2> QED
    BY <1>1, <1>2, <2>1, <2>3, <2>4, ApplicationMoves
    DEF NewExchange, Paired, Armed
<1>4. CASE proposal = None
  <2>1. flow' = [IdleFlow EXCEPT !.phase = "refused"]
    BY <1>4 DEF Review, Forget
  <2>2. flow' \in Flows /\ exchange' \in Exchanges
    BY <1>1, <2>1, NewRecords DEF Flows
  <2> QED
    BY <1>1, <1>2, <2>1, <2>2, ApplicationMoves
    DEF NewExchange, IdleFlow, Paired, Reviewing, Armed
<1> QED
  BY <1>3, <1>4

LEMMA CancelKeeps ==
  ASSUME IInv, Cancel
  PROVE  IInv'
<1>1. /\ UNCHANGED <<mirror, requests, answers, current, device>>
      /\ exchange' = NewExchange /\ flow' = IdleFlow
  BY DEF Cancel
<1>2. flow' \in Flows /\ exchange' \in Exchanges
  BY <1>1, NewRecords
<1> QED
  BY <1>1, <1>2, MirrorStays, ApplicationMoves
  DEF NewExchange, IdleFlow, Paired, Reviewing, Armed

LEMMA AcknowledgeKeeps ==
  ASSUME IInv, AcknowledgeRefresh
  PROVE  IInv'
<1>1. /\ UNCHANGED <<mirror, requests, answers, current, device>>
      /\ exchange' = [exchange EXCEPT !.phase = "idle", !.conflict = None]
      /\ flow' = IdleFlow /\ exchange \in Exchanges
  BY DEF AcknowledgeRefresh, IInv, Types, TypeOK, Exchanges
<1>2. /\ flow' \in Flows /\ exchange' \in Exchanges
      /\ exchange'.phase = "idle" /\ exchange'.conflict = None
  BY <1>1, NewRecords DEF Exchanges
<1> QED
  BY <1>1, <1>2, MirrorStays, ApplicationMoves
  DEF IdleFlow, Paired, Reviewing, Armed

(* The mirror goes to some revision the device has had.                    *)
LEMMA ChangeMirrorKeeps ==
  ASSUME IInv, ChangeMirror
  PROVE  IInv'
<1>1. UNCHANGED <<flow, exchange, requests, answers, current, device>>
  BY DEF ChangeMirror
<1>2. PICK r \in 0 .. CurrentRevision :
        mirror' = [revision |-> r, alarms |-> Committed(r)]
  BY DEF ChangeMirror
<1>3. Committed(r) \in Schedules /\ r \in Revisions /\ r <= CurrentRevision
  BY CommitsAre, LogIs, FlowConstants DEF IInv, Revisions
<1>4. /\ mirror' \in [revision : Revisions, alarms : Schedules]
      /\ MirrorIsCommitted'
  BY <1>1, <1>2, <1>3
  DEF MirrorIsCommitted, CurrentRevision, Committed, Commit
<1>5. /\ flow \in Flows /\ exchange \in Exchanges
      /\ Paired(flow, exchange) /\ exchange.conflict = flow.conflict
      /\ flow.phase \in Armed => exchange.armed = flow.diff
  BY PhasesPaired DEF IInv, Types, TypeOK, Flows, Exchanges
<1>6. flow'.phase \in Reviewing => Genuine(flow'.diff)
  BY <1>1, ChangeIsGenuine
<1> QED
  BY <1>1, <1>4, <1>5, <1>6, ApplicationMoves
  DEF IInv, OnlyConflicts, Awaited

LEMMA RestartKeeps ==
  ASSUME IInv, Restart
  PROVE  IInv'
<1>1. /\ mirror' = [revision |-> 0, alarms |-> {}]
      /\ flow' = IdleFlow /\ exchange' = NewExchange
      /\ answers' = {} /\ UNCHANGED <<requests, current, device>>
  BY DEF Restart
<1>2. flow' \in Flows /\ exchange' \in Exchanges
  BY <1>1, NewRecords
<1>3. mirror' \in [revision : Revisions, alarms : Schedules]
  BY <1>1, ScheduleSizes, FlowConstants DEF Revisions
<1>4. MirrorIsCommitted'
  <2>1. 0 <= CurrentRevision /\ Committed(0) = {}
    BY LogIs, FlowConstants DEF IInv, BeginsEmpty
  <2> QED
    BY <1>1, <2>1 DEF MirrorIsCommitted, CurrentRevision, Committed, Commit
<1> QED
  BY <1>1, <1>2, <1>3, <1>4, ApplicationMoves
  DEF NewExchange, IdleFlow, Paired, Reviewing, Armed

LEMMA ReceiveTokenKeeps ==
  ASSUME IInv, NEW m \in answers, ReceiveToken(m)
  PROVE  IInv'
<1>1. /\ flow.phase = "previewPending"
      /\ UNCHANGED <<mirror, requests, answers, current, device>>
      /\ exchange' = [exchange EXCEPT !.token = current,
                                      !.phase = "readyToApply"]
      /\ flow' = [flow EXCEPT !.phase = "confirmationRequired",
                              !.conflict = None]
      /\ flow \in Flows /\ exchange \in Exchanges
  BY DEF ReceiveToken, Move, IInv, Types, TypeOK, Flows, Exchanges
<1>2. /\ Genuine(flow.diff) /\ current \in 1 .. MaxRequests
      /\ exchange.armed = flow.diff /\ exchange.conflict = None
      /\ \A n \in requests : n.id = current => n.diff = flow.diff
  BY <1>1, ChangeIsGenuine, PhasesPaired
  DEF IInv, Awaited, Reviewing, Armed, Types, TypeOK
<1>3. /\ flow' \in Flows /\ exchange' \in Exchanges
      /\ flow'.phase = "confirmationRequired" /\ flow'.conflict = None
      /\ flow'.diff = flow.diff /\ exchange'.armed = exchange.armed
      /\ exchange'.phase = "readyToApply" /\ exchange'.conflict = None
  BY <1>1, <1>2 DEF Flows, Exchanges
<1>4. current # 0
  BY <1>2
<1> QED
  BY <1>1, <1>2, <1>3, <1>4, MirrorStays, ApplicationMoves DEF Paired

(* What an answer to an apply does: adopt the receipt, or give up.         *)
LEMMA ReceiveKeeps ==
  ASSUME IInv, NEW m \in answers, Receive(m)
  PROVE  IInv'
<1>1. /\ flow.phase = "applyPending" /\ m.kind # "token"
      /\ UNCHANGED <<requests, answers, current, device>>
      /\ flow \in Flows /\ exchange \in Exchanges /\ m \in Answers
  BY DEF Receive, IInv, Types, TypeOK, Flows, Exchanges
<1>2. /\ Genuine(flow.diff) /\ current # 0 /\ flow.diff \in Diffs
      /\ exchange.armed = flow.diff /\ exchange.conflict = None
      /\ exchange.phase = "applySent"
      /\ \A n \in requests : n.id = current => n.diff = flow.diff
  BY <1>1, ChangeIsGenuine, PhasesPaired
  DEF IInv, Awaited, Reviewing, Armed, Paired
<1>3. m.id \in 1 .. MaxAnswers
  BY <1>1 DEF Answers
<1>4. CASE m.kind = "receipt" /\ Consistent(m)
  <2>1. /\ mirror' = [revision |-> m.revision, alarms |-> flow.diff.proposal]
        /\ exchange' = [exchange EXCEPT !.phase = "applied", !.armed = None,
                          !.token = None, !.seen = @ \cup {m.id}]
        /\ flow' = [flow EXCEPT !.phase = "applied", !.conflict = None]
        /\ m.revision = flow.diff.expected + 1
    BY <1>2, <1>4
    DEF Receive, IngestReceipt, RecordApplied, Move, Consistent
  <2>2. /\ flow' \in Flows /\ exchange' \in Exchanges
        /\ flow'.phase = "applied" /\ flow'.conflict = None
        /\ exchange'.phase = "applied" /\ exchange'.conflict = None
    BY <1>1, <1>2, <1>3, <2>1 DEF Flows, Exchanges
  <2>3. /\ m.revision <= CurrentRevision
        /\ Committed(m.revision) = flow.diff.proposal
    BY <1>2, <1>4 DEF IInv, Receipted
  <2>4. m.revision \in Revisions /\ flow.diff.proposal \in Schedules
    BY <1>1, <1>2, <1>4 DEF Answers, Diffs
  <2>5. /\ mirror' \in [revision : Revisions, alarms : Schedules]
        /\ MirrorIsCommitted'
    BY <1>1, <2>1, <2>3, <2>4
    DEF MirrorIsCommitted, CurrentRevision, Committed, Commit
  <2> QED
    BY <1>1, <2>2, <2>5, ApplicationMoves DEF Paired, Reviewing, Armed
<1>5. CASE m.kind = "receipt" /\ ~Consistent(m)
  <2>1. /\ UNCHANGED mirror
        /\ exchange' = [exchange EXCEPT !.seen = @ \cup {m.id}]
        /\ flow' = [flow EXCEPT !.phase = "applyPending", !.conflict = None]
    BY <1>5 DEF Receive, IngestReceipt, Move
  <2>2. /\ flow' \in Flows /\ exchange' \in Exchanges
        /\ flow'.phase = "applyPending" /\ flow'.conflict = None
        /\ flow'.diff = flow.diff /\ exchange'.armed = flow.diff
        /\ exchange'.phase = "applySent" /\ exchange'.conflict = None
    BY <1>1, <1>2, <1>3, <2>1 DEF Flows, Exchanges
  <2> QED
    BY <1>1, <1>2, <2>1, <2>2, MirrorStays, ApplicationMoves DEF Paired
<1>6. CASE m.kind = "error" /\ m.code = "revision_conflict"
  <2>1. /\ UNCHANGED mirror
        /\ exchange' = [Aborted EXCEPT !.phase = "needsRefresh",
                          !.conflict = m.revision, !.seen = @ \cup {m.id}]
        /\ flow' = [phase |-> "needsRefresh", diff |-> None,
                    conflict |-> m.revision]
    BY <1>6 DEF Receive, IngestError
  <2>2. m.revision \in Revisions \cup {None}
    BY <1>1, <1>6 DEF Answers
  <2>3. Aborted \in Exchanges
    BY <1>1, NewRecords DEF Aborted, Exchanges
  <2>4. /\ flow' \in Flows /\ exchange' \in Exchanges
        /\ flow'.phase = "needsRefresh" /\ flow'.conflict = m.revision
        /\ exchange'.phase = "needsRefresh"
        /\ exchange'.conflict = m.revision
    BY <1>1, <1>3, <2>1, <2>2, <2>3 DEF Flows, Exchanges
  <2> QED
    BY <1>1, <2>1, <2>4, MirrorStays, ApplicationMoves
    DEF Paired, Reviewing, Armed
<1>7. CASE m.kind = "error" /\ m.code # "revision_conflict"
  <2>1. /\ UNCHANGED mirror
        /\ exchange' = [Aborted EXCEPT !.seen = @ \cup {m.id}]
        /\ flow' = [flow EXCEPT !.phase = "refused", !.conflict = None]
    BY <1>7 DEF Receive, IngestError, Move
  <2>2. /\ Aborted \in Exchanges /\ Aborted.phase = "idle"
        /\ Aborted.conflict = None
    BY <1>1, NewRecords DEF Aborted, NewExchange, Exchanges
  <2>3. /\ flow' \in Flows /\ exchange' \in Exchanges
        /\ flow'.phase = "refused" /\ flow'.conflict = None
        /\ exchange'.phase = "idle" /\ exchange'.conflict = None
    BY <1>1, <1>3, <2>1, <2>2 DEF Flows, Exchanges
  <2> QED
    BY <1>1, <2>1, <2>3, MirrorStays, ApplicationMoves
    DEF Paired, Reviewing, Armed
<1> QED
  BY <1>1, <1>4, <1>5, <1>6, <1>7 DEF Answers

(* A framed request has a new identity and the change of the moment.       *)
LEMMA SendKeeps ==
  ASSUME IInv, NEW type \in {"preview", "apply"}, Send(type),
         UNCHANGED <<mirror, device>>, flow.phase \in Reviewing,
         flow' \in Flows, exchange' \in Exchanges,
         Paired(flow', exchange'), flow'.phase \in Armed,
         flow'.conflict = None, exchange'.conflict = None,
         flow'.diff = flow.diff, exchange'.armed = flow.diff
  PROVE  IInv'
<1> DEFINE new == [id |-> current + 1, type |-> type, diff |-> flow.diff]
<1>1. /\ current \in 0 .. MaxRequests /\ current < MaxRequests
      /\ current' = current + 1 /\ answers' = {}
      /\ requests' = {m \in requests : m.type = "apply"} \cup {new}
      /\ requests \subseteq Requests
  BY DEF Send, IInv, Types, TypeOK
<1>2. Genuine(flow.diff) /\ flow.diff \in Diffs
  BY ChangeIsGenuine
<1>3. current' \in 1 .. MaxRequests /\ current' # 0 /\ current < current'
  BY <1>1, FlowConstants
<1>4. /\ new \in Requests /\ new.id = current' /\ new.diff = flow.diff
  BY <1>1, <1>2, <1>3 DEF Requests
<1>5. \A m \in requests : m.id \in Int /\ m.id <= current /\ Genuine(m.diff)
  BY <1>1 DEF IInv, Identified, Reviewed, Requests
<1> HIDE DEF new
<1>6. Types'
  <2>1. requests' \subseteq Requests
    BY <1>1, <1>4
  <2>2. current' \in 0 .. MaxRequests
    BY <1>1, <1>3, FlowConstants
  <2> QED
    BY <1>1, <2>1, <2>2, FS_EmptySet, MirrorStays
    DEF IInv, Types, TypeOK, Flows, Exchanges, CurrentRevision
<1>7. FlowFollowsExchange' /\ OnlyConflicts' /\ MirrorIsCommitted'
  <2>1. FlowFollowsExchange'
    BY DEF FlowFollowsExchange, Paired, Flows, Armed
  <2> QED
    BY <2>1, MirrorStays DEF OnlyConflicts
<1>8. Reviewed'
  <2>1. \A m \in requests' : Genuine(m.diff)
    BY <1>1, <1>2, <1>4, <1>5
  <2> QED
    BY <1>2, <2>1
    DEF Reviewed, Genuine, CurrentRevision, Committed, Commit
<1>9. Identified'
  <2>1. \A m \in requests' : m = new \/ (m \in requests /\ m.id <= current)
    BY <1>1, <1>5
  <2>2. \A m \in requests' : m.id <= current'
    BY <1>1, <1>3, <1>4, <1>5, <2>1
  <2>3. \A m, n \in requests' : m.id = n.id => m = n
    BY <1>1, <1>3, <1>4, <1>5, <2>1 DEF IInv, Identified
  <2>4. \A r \in 0 .. CurrentRevision :
          Commit(r).request # None => Commit(r).request <= current'
    BY <1>1, CommitsAre DEF IInv, Identified
  <2> QED
    BY <2>2, <2>3, <2>4 DEF Identified, CurrentRevision, Commit
<1>10. Awaited' /\ Receipted'
  <2>1. \A m \in requests' : m.id = current' => m = new
    BY <1>1, <1>3, <1>5
  <2> QED
    BY <1>1, <1>3, <1>4, <2>1 DEF Awaited, Receipted
<1>11. NoLostUpdate' /\ BeginsEmpty'
  <2>1. ASSUME NEW r \in 1 .. CurrentRevision, NEW m \in requests',
               Commit(r).request = m.id
        PROVE  Committed(r - 1) = m.diff.baseline
    <3>1. r \in 0 .. CurrentRevision
      BY LogIs, FlowConstants DEF IInv
    <3>2. m.id \in 1 .. MaxRequests /\ m.id # None
      BY <1>1, <1>4, NewRecords DEF Requests
    <3>3. m.id <= current
      BY <2>1, <3>1, <3>2 DEF IInv, Identified
    <3>4. m \in requests
      BY <1>1, <1>3, <1>4, <3>2, <3>3
    <3> QED
      BY <2>1, <3>4 DEF IInv, NoLostUpdate
  <2> QED
    BY <2>1
    DEF IInv, NoLostUpdate, BeginsEmpty, CurrentRevision, Committed, Commit
<1> QED
  BY <1>6, <1>7, <1>8, <1>9, <1>10, <1>11 DEF IInv

LEMMA RequestPreviewKeeps ==
  ASSUME IInv, NEW accepted \in BOOLEAN, RequestPreview(accepted)
  PROVE  IInv'
<1>1. /\ flow.phase = "review" /\ UNCHANGED <<mirror, device>>
      /\ flow \in Flows /\ exchange \in Exchanges
      /\ Genuine(flow.diff) /\ flow.diff \in Diffs /\ flow.conflict = None
  BY ChangeIsGenuine
  DEF RequestPreview, IInv, Types, TypeOK, Flows, Exchanges, Reviewing
<1>2. CASE MirrorChanged
  <2>1. /\ flow' = [IdleFlow EXCEPT !.phase = "refused"]
        /\ UNCHANGED <<exchange, requests, answers, current>>
    BY <1>2 DEF RequestPreview, Forget
  <2>2. /\ flow' \in Flows /\ flow'.phase = "refused"
        /\ flow'.conflict = None
    BY <2>1, NewRecords DEF IdleFlow, Flows
  <2>3. exchange.phase = "idle" /\ exchange.conflict = None
    BY <1>1, PhasesPaired DEF IInv, Paired
  <2> QED
    BY <1>1, <2>1, <2>2, <2>3, MirrorStays, ApplicationMoves
    DEF Paired, Reviewing, Armed
<1>3. CASE ~MirrorChanged /\ ~accepted
  <2>1. /\ exchange' = [NewExchange EXCEPT !.armed = flow.diff]
        /\ flow' = [flow EXCEPT !.phase = "review", !.conflict = None]
        /\ UNCHANGED <<requests, answers, current>>
    BY <1>3 DEF RequestPreview, Move
  <2>2. /\ flow' \in Flows /\ flow'.phase = "review"
        /\ flow'.conflict = None /\ flow'.diff = flow.diff
    BY <1>1, <2>1 DEF Flows
  <2>3. /\ exchange' \in Exchanges /\ exchange'.phase = "idle"
        /\ exchange'.conflict = None
    BY <1>1, <2>1, NewRecords DEF NewExchange, Exchanges
  <2> QED
    BY <1>1, <2>1, <2>2, <2>3, MirrorStays, ApplicationMoves
    DEF Paired, Armed
<1>4. CASE ~MirrorChanged /\ accepted
  <2>1. /\ exchange' = [NewExchange EXCEPT !.armed = flow.diff,
                                           !.phase = "previewSent"]
        /\ flow' = [flow EXCEPT !.phase = "previewPending",
                                !.conflict = None]
        /\ Send("preview")
    BY <1>4 DEF RequestPreview, Move
  <2>2. /\ flow' \in Flows /\ flow'.phase = "previewPending"
        /\ flow'.conflict = None /\ flow'.diff = flow.diff
    BY <1>1, <2>1 DEF Flows
  <2>3. /\ exchange' \in Exchanges /\ exchange'.phase = "previewSent"
        /\ exchange'.conflict = None /\ exchange'.armed = flow.diff
    BY <1>1, <2>1, NewRecords DEF NewExchange, Exchanges
  <2> QED
    BY <1>1, <2>1, <2>2, <2>3, SendKeeps DEF Paired, Armed, Reviewing
<1> QED
  BY <1>2, <1>3, <1>4

LEMMA ConfirmApplyKeeps ==
  ASSUME IInv, NEW accepted \in BOOLEAN, ConfirmApply(accepted)
  PROVE  IInv'
<1>1. /\ flow.phase = "confirmationRequired" /\ UNCHANGED <<mirror, device>>
      /\ flow \in Flows /\ exchange \in Exchanges
      /\ Genuine(flow.diff) /\ flow.diff \in Diffs /\ flow.conflict = None
  BY ChangeIsGenuine
  DEF ConfirmApply, IInv, Types, TypeOK, Flows, Exchanges, Reviewing, Armed
<1>2. /\ exchange.phase = "readyToApply" /\ exchange.conflict = None
      /\ exchange.armed = flow.diff /\ current # 0
      /\ \A n \in requests : n.id = current => n.diff = flow.diff
  BY <1>1, PhasesPaired DEF IInv, Paired, Awaited, Armed
<1>3. CASE MirrorChanged
  <2>1. /\ flow' = [IdleFlow EXCEPT !.phase = "refused"]
        /\ exchange' = Aborted
        /\ UNCHANGED <<requests, answers, current>>
    BY <1>1, <1>3 DEF ConfirmApply, Forget
  <2>2. /\ flow' \in Flows /\ flow'.phase = "refused"
        /\ flow'.conflict = None
    BY <2>1, NewRecords DEF IdleFlow, Flows
  <2>3. /\ exchange' \in Exchanges /\ exchange'.phase = "idle"
        /\ exchange'.conflict = None
    BY <1>1, <2>1, NewRecords DEF Aborted, NewExchange, Exchanges
  <2> QED
    BY <1>1, <2>1, <2>2, <2>3, MirrorStays, ApplicationMoves
    DEF Paired, Reviewing, Armed
<1>4. CASE ~MirrorChanged /\ ~accepted
  <2>1. /\ flow' = [flow EXCEPT !.phase = "confirmationRequired",
                                !.conflict = None]
        /\ UNCHANGED <<exchange, requests, answers, current>>
    BY <1>4 DEF ConfirmApply, Move
  <2>2. /\ flow' \in Flows /\ flow'.phase = "confirmationRequired"
        /\ flow'.conflict = None /\ flow'.diff = flow.diff
    BY <1>1, <2>1 DEF Flows
  <2> QED
    BY <1>1, <1>2, <2>1, <2>2, MirrorStays, ApplicationMoves DEF Paired
<1>5. CASE ~MirrorChanged /\ accepted
  <2>1. /\ exchange' = [exchange EXCEPT !.phase = "applySent"]
        /\ flow' = [flow EXCEPT !.phase = "applyPending", !.conflict = None]
        /\ Send("apply")
    BY <1>5 DEF ConfirmApply, Move
  <2>2. /\ flow' \in Flows /\ flow'.phase = "applyPending"
        /\ flow'.conflict = None /\ flow'.diff = flow.diff
    BY <1>1, <2>1 DEF Flows
  <2>3. /\ exchange' \in Exchanges /\ exchange'.phase = "applySent"
        /\ exchange'.conflict = None /\ exchange'.armed = flow.diff
    BY <1>1, <1>2, <2>1 DEF Exchanges
  <2> QED
    BY <1>1, <2>1, <2>2, <2>3, SendKeeps DEF Paired, Armed, Reviewing
<1> QED
  BY <1>3, <1>4, <1>5

-----------------------------------------------------------------------------
(* The window forgets the oldest identity, and never more than it must.    *)
LEMMA RememberBounds ==
  ASSUME NEW window \in Seq(1 .. MaxRequests), Len(window) <= Window,
         NEW number \in 1 .. MaxRequests
  PROVE  /\ Remember(window, number) \in Seq(1 .. MaxRequests)
         /\ Len(Remember(window, number)) <= Window
<1> DEFINE order == Append(window, number)
<1>1. /\ order \in Seq(1 .. MaxRequests) /\ Len(order) = Len(window) + 1
      /\ Len(window) \in Nat
  OBVIOUS
<1>2. order # << >>
  BY <1>1
<1>3. Tail(order) \in Seq(1 .. MaxRequests) /\ Len(Tail(order)) = Len(window)
  BY <1>1, <1>2, HeadTailProperties
<1> HIDE DEF order
<1>4. Remember(window, number) =
        IF Len(order) <= Window THEN order ELSE Tail(order)
  BY DEF Remember, order
<1> QED
  BY <1>1, <1>3, <1>4

(* An answer to the awaited request joins the others, or none does.        *)
LEMMA AnswerJoins ==
  ASSUME IInv, NEW m \in requests, NEW answer, Answer(m, answer),
         NextAnswer \in 1 .. MaxAnswers => answer \in Answers
  PROVE  /\ answers' \subseteq Answers /\ IsFiniteSet(answers')
         /\ \A a \in answers' : a \in answers \/ (a = answer /\ m.id = current)
<1>1. CASE m.id # current
  BY <1>1 DEF Answer, IInv, Types, TypeOK
<1>2. CASE m.id = current
  <2>1. NextAnswer <= MaxAnswers /\ answers' = answers \cup {answer}
    BY <1>2 DEF Answer
  <2>2. Cardinality(answers) \in Nat /\ IsFiniteSet(answers')
    BY <2>1, FS_CardinalityType, FS_AddElement DEF IInv, Types
  <2>3. NextAnswer \in 1 .. MaxAnswers
    BY <2>1, <2>2, FlowConstants DEF NextAnswer
  <2> QED
    BY <1>2, <2>1, <2>2, <2>3 DEF IInv, Types, TypeOK
<1> QED
  BY <1>1, <1>2

(* A request that is answered and commits nothing.                         *)
LEMMA AnsweredKeeps ==
  ASSUME IInv, UNCHANGED <<mirror, flow, exchange, requests, current>>,
         NEW m \in requests, NEW answer, Answer(m, answer),
         NextAnswer \in 1 .. MaxAnswers => answer \in Answers,
         device' = device
           \/ device' = [device EXCEPT !.window = Remember(@, m.id)],
         answer.kind = "receipt" =>
           /\ answer.revision = m.diff.expected + 1
           /\ answer.revision <= CurrentRevision
           /\ Committed(answer.revision) = m.diff.proposal
  PROVE  IInv'
<1>1. /\ answers' \subseteq Answers /\ IsFiniteSet(answers')
      /\ \A a \in answers' : a \in answers \/ (a = answer /\ m.id = current)
  BY AnswerJoins
<1>2. /\ device' \in [log : Seq(Commits), window : Seq(1 .. MaxRequests)]
      /\ Len(device'.window) <= Window /\ device'.log = device.log
  <2>1. /\ device \in [log : Seq(Commits), window : Seq(1 .. MaxRequests)]
        /\ Len(device.window) <= Window /\ m.id \in 1 .. MaxRequests
    BY DEF IInv, Types, TypeOK, Requests
  <2> QED
    BY <2>1, RememberBounds
<1>3. /\ CurrentRevision' = CurrentRevision
      /\ \A r : Commit(r)' = Commit(r) /\ Committed(r)' = Committed(r)
  BY <1>2 DEF CurrentRevision, Commit, Committed
<1>4. Types'
  BY <1>1, <1>2, <1>3 DEF IInv, Types, TypeOK, Commits
<1>5. Receipted'
  <2> SUFFICES ASSUME NEW a \in answers', a.kind = "receipt"
               PROVE  /\ a.revision <= CurrentRevision
                      /\ \E n \in requests :
                           /\ n.id = current
                           /\ a.revision = n.diff.expected + 1
                           /\ Committed(a.revision) = n.diff.proposal
    BY <1>3 DEF Receipted
  <2> QED
    BY <1>1 DEF IInv, Receipted
<1>6. FlowFollowsExchange' /\ OnlyConflicts' /\ Awaited' /\ BeginsEmpty'
  BY <1>3 DEF IInv, FlowFollowsExchange, OnlyConflicts, Awaited, BeginsEmpty
<1>7. Reviewed' /\ Identified' /\ MirrorIsCommitted' /\ NoLostUpdate'
  BY <1>3
  DEF IInv, Reviewed, Genuine, Identified, MirrorIsCommitted, NoLostUpdate
<1> QED
  BY <1>4, <1>5, <1>6, <1>7 DEF IInv

(* One more commit, of whomever, on top of those the device has.           *)
LEMMA CommitKeeps ==
  ASSUME IInv, UNCHANGED <<mirror, flow, exchange, requests, current>>,
         CurrentRevision < MaxRevision, NEW commit \in Commits,
         device' \in [log : Seq(Commits), window : Seq(1 .. MaxRequests)],
         device'.log = Append(device.log, commit),
         Len(device'.window) <= Window,
         commit.request # None =>
           /\ commit.request <= current
           /\ \A m \in requests : m.id = commit.request =>
                m.diff.baseline = Committed(CurrentRevision),
         answers' \subseteq Answers, IsFiniteSet(answers'),
         \A a \in answers' : a.kind = "receipt" =>
           \/ a \in answers
           \/ /\ a.revision = CurrentRevision + 1
              /\ \E m \in requests :
                   /\ m.id = current /\ a.revision = m.diff.expected + 1
                   /\ commit.alarms = m.diff.proposal
  PROVE  IInv'
<1>1. /\ CurrentRevision' = CurrentRevision + 1
      /\ \A r \in 0 .. CurrentRevision :
           Commit(r)' = Commit(r) /\ Committed(r)' = Committed(r)
      /\ Commit(CurrentRevision)' = commit
  BY Appended DEF IInv, Committed
<1>2. CurrentRevision \in 0 .. MaxRevision /\ MaxRevision \in Nat
  BY LogIs, FlowConstants DEF IInv
<1>3. \A r \in 0 .. CurrentRevision' :
        r \in 0 .. CurrentRevision \/ r = CurrentRevision'
  BY <1>1, <1>2
<1>4. Types'
  BY <1>1, <1>2 DEF IInv, Types, TypeOK, Revisions, Commits
<1>5. FlowFollowsExchange' /\ OnlyConflicts' /\ Awaited'
  BY DEF IInv, FlowFollowsExchange, OnlyConflicts, Awaited
<1>6. BeginsEmpty'
  BY <1>1, <1>2 DEF IInv, BeginsEmpty
<1>7. ASSUME NEW diff, Genuine(diff)
      PROVE  Genuine(diff)'
  <2>1. /\ diff \in Diffs /\ diff.expected \in 0 .. CurrentRevision
        /\ diff.baseline = Committed(diff.expected)
    BY <1>2, <1>7 DEF Genuine, Diffs, Revisions
  <2>2. diff.expected <= CurrentRevision'
    BY <1>1, <1>2, <2>1
  <2> QED
    BY <1>1, <2>1, <2>2 DEF Genuine
<1>8. Reviewed'
  <2>1. flow.phase \in Reviewing => Genuine(flow.diff)'
    <3> SUFFICES ASSUME flow.phase \in Reviewing PROVE Genuine(flow.diff)'
      OBVIOUS
    <3>1. PICK diff : diff = flow.diff /\ Genuine(diff)
      BY DEF IInv, Reviewed
    <3>2. Genuine(diff)'
      BY <1>7, <3>1
    <3> QED
      BY <3>1, <3>2 DEF Genuine
  <2>2. \A m \in requests : Genuine(m.diff)'
    BY <1>7 DEF IInv, Reviewed
  <2> QED
    BY <2>1, <2>2 DEF Reviewed
<1>9. Identified'
  <2>1. \A r \in 0 .. CurrentRevision' :
          Commit(r)'.request # None => Commit(r)'.request <= current
    BY <1>1, <1>3 DEF IInv, Identified
  <2> QED
    BY <2>1 DEF IInv, Identified
<1>10. Receipted'
  <2> SUFFICES ASSUME NEW a \in answers', a.kind = "receipt"
               PROVE  /\ a.revision <= CurrentRevision'
                      /\ \E m \in requests :
                           /\ m.id = current
                           /\ a.revision = m.diff.expected + 1
                           /\ Committed(a.revision)' = m.diff.proposal
    BY DEF Receipted
  <2>1. CASE a \in answers
    <3>1. /\ a.revision <= CurrentRevision /\ a.revision \in Revisions
          /\ \E m \in requests :
               /\ m.id = current /\ a.revision = m.diff.expected + 1
               /\ Committed(a.revision) = m.diff.proposal
      BY <2>1 DEF IInv, Receipted, Types, TypeOK, Answers
    <3>2. a.revision \in 0 .. CurrentRevision
      BY <1>2, <3>1 DEF Revisions
    <3> QED
      BY <1>1, <1>2, <3>1, <3>2
  <2>2. CASE a \notin answers
    <3>1. a.revision = CurrentRevision'
      BY <1>1, <2>2
    <3>2. Committed(a.revision)' = commit.alarms
      BY <1>1, <3>1 DEF Committed
    <3> QED
      BY <1>1, <1>2, <2>2, <3>1, <3>2
  <2> QED
    BY <2>1, <2>2
<1>11. MirrorIsCommitted'
  <2>1. mirror.revision \in 0 .. CurrentRevision
    BY <1>2 DEF IInv, MirrorIsCommitted, Types, TypeOK, Revisions
  <2>2. mirror.revision <= CurrentRevision'
    BY <1>1, <1>2, <2>1
  <2> QED
    BY <1>1, <2>1, <2>2 DEF IInv, MirrorIsCommitted
<1>12. NoLostUpdate'
  <2> SUFFICES ASSUME NEW r \in 1 .. CurrentRevision', NEW m \in requests,
                      Commit(r)'.request = m.id
               PROVE  Committed(r - 1)' = m.diff.baseline
    BY DEF NoLostUpdate
  <2>1. m.id # None
    BY NewRecords DEF IInv, Types, TypeOK, Requests
  <2>2. CASE r \in 0 .. CurrentRevision
    <3>1. r \in 1 .. CurrentRevision /\ r - 1 \in 0 .. CurrentRevision
      BY <1>2, <2>2
    <3> QED
      BY <1>1, <2>2, <3>1 DEF IInv, NoLostUpdate
  <2>3. CASE r = CurrentRevision'
    <3>1. commit.request = m.id
      BY <1>1, <2>3
    <3>2. r - 1 = CurrentRevision /\ r - 1 \in 0 .. CurrentRevision
      BY <1>1, <1>2, <2>3
    <3> QED
      BY <1>1, <2>1, <3>1, <3>2
  <2>4. r \in 0 .. CurrentRevision'
    BY <1>1, <1>2
  <2> QED
    BY <1>3, <2>2, <2>3, <2>4
<1> QED
  BY <1>4, <1>5, <1>6, <1>8, <1>9, <1>10, <1>11, <1>12 DEF IInv

LEMMA ErrorIsAnswer ==
  ASSUME NEW code \in Codes, NEW revision \in Revisions \cup {None},
         NextAnswer \in 1 .. MaxAnswers
  PROVE  Error(code, revision) \in Answers
  BY DEF Error, Answers

LEMMA HandleKeeps ==
  ASSUME IInv, NEW m \in requests, Handle(m)
  PROVE  IInv'
<1>1. /\ UNCHANGED <<mirror, flow, exchange, requests, current>>
      /\ m \in Requests /\ m.diff \in Diffs /\ m.id \in 1 .. MaxRequests
      /\ Genuine(m.diff) /\ CurrentRevision \in Revisions
      /\ CurrentRevision \in 0 .. MaxRevision /\ MaxRevision \in Nat
  BY FlowConstants
  DEF Handle, IInv, Types, TypeOK, Requests, Reviewed, Revisions
<1>2. ASSUME NEW code \in Codes, NEW revision \in Revisions \cup {None},
             Answer(m, Error(code, revision)),
             device' = device
               \/ device' = [device EXCEPT !.window = Remember(@, m.id)]
      PROVE  IInv'
  <2>1. NextAnswer \in 1 .. MaxAnswers => Error(code, revision) \in Answers
    BY ErrorIsAnswer
  <2>2. Error(code, revision).kind # "receipt"
    BY DEF Error
  <2>3. PICK answer : answer = Error(code, revision)
    OBVIOUS
  <2> QED
    BY <1>1, <1>2, <2>1, <2>2, <2>3, AnsweredKeeps
<1>3. CASE RefuseRequest(m) \/ RefuseRepeated(m) \/ Conflict(m)
  BY <1>1, <1>2, <1>3 DEF RefuseRequest, RefuseRepeated, Conflict, Codes
<1>4. CASE IssueToken(m)
  <2>1. PICK answer : answer = Token
    OBVIOUS
  <2>2. NextAnswer \in 1 .. MaxAnswers => answer \in Answers
    BY <2>1 DEF Token, Answers
  <2>3. answer.kind # "receipt"
    BY <2>1 DEF Token
  <2> QED
    BY <1>1, <1>4, <2>1, <2>2, <2>3, AnsweredKeeps DEF IssueToken
<1>5. CASE Apply(m)
  <2>1. PICK answer : answer = Receipt(m)
    OBVIOUS
  <2>2. /\ Answer(m, answer) /\ answer.kind = "receipt"
        /\ answer.revision = m.diff.expected + 1
    BY <1>5, <2>1 DEF Apply, Receipt
  <2>3. /\ m.diff.expected \in Revisions /\ m.diff.proposal \in Schedules
        /\ Cardinality(m.diff.proposal) \in 0 .. Capacity
    BY <1>1, ScheduleSizes DEF Diffs
  <2>4. m.diff.expected + 1 \in Revisions =>
          (NextAnswer \in 1 .. MaxAnswers => answer \in Answers)
    BY <2>1, <2>3 DEF Receipt, Answers
  <2>5. CASE /\ AlreadyThere(m.diff)
             /\ device' = [device EXCEPT !.window = Remember(@, m.id)]
    <3>1. /\ CurrentRevision = m.diff.expected + 1
          /\ Committed(CurrentRevision) = m.diff.proposal
      BY <2>5 DEF AlreadyThere
    <3>2. /\ answer.revision <= CurrentRevision
          /\ Committed(answer.revision) = m.diff.proposal
      BY <1>1, <2>2, <3>1
    <3>3. NextAnswer \in 1 .. MaxAnswers => answer \in Answers
      BY <1>1, <2>4, <3>1
    <3> QED
      BY <1>1, <2>2, <2>5, <3>2, <3>3, AnsweredKeeps
  <2>6. CASE /\ CanCommit(m.diff)
             /\ device' = [log |-> Append(device.log,
                                     [alarms |-> m.diff.proposal,
                                      request |-> m.id]),
                           window |-> Remember(device.window, m.id)]
    <3>1. /\ CurrentRevision = m.diff.expected
          /\ CurrentRevision < MaxRevision
      BY <2>6 DEF CanCommit
    <3>2. PICK commit : commit = [alarms |-> m.diff.proposal,
                                  request |-> m.id]
      OBVIOUS
    <3>3. commit \in Commits
      BY <1>1, <2>3, <3>2 DEF Commits
    <3>4. /\ device' \in [log : Seq(Commits), window : Seq(1 .. MaxRequests)]
          /\ device'.log = Append(device.log, commit)
          /\ Len(device'.window) <= Window
      <4>1. /\ device \in [log : Seq(Commits), window : Seq(1 .. MaxRequests)]
            /\ Len(device.window) <= Window
        BY DEF IInv, Types, TypeOK
      <4>2. /\ Remember(device.window, m.id) \in Seq(1 .. MaxRequests)
            /\ Len(Remember(device.window, m.id)) <= Window
        BY <1>1, <4>1, RememberBounds
      <4>3. Append(device.log, commit) \in Seq(Commits)
        BY <3>3, <4>1
      <4> QED
        BY <2>6, <3>2, <4>2, <4>3
    <3>5. m.diff.expected + 1 \in Revisions
      BY <1>1, <3>1 DEF Revisions
    <3>6. /\ answers' \subseteq Answers /\ IsFiniteSet(answers')
          /\ \A a \in answers' :
               a \in answers \/ (a = answer /\ m.id = current)
      BY <2>2, <2>4, <3>5, AnswerJoins
    <3>7. /\ m.id <= current
          /\ \A n \in requests : n.id = m.id =>
               n.diff.baseline = Committed(CurrentRevision)
      BY <1>1, <3>1 DEF IInv, Identified, Genuine
    <3> QED
      BY <1>1, <2>2, <3>1, <3>2, <3>3, <3>4, <3>6, <3>7, CommitKeeps
  <2> QED
    BY <1>5, <2>5, <2>6 DEF Apply
<1> QED
  BY <1>3, <1>4, <1>5 DEF Handle

LEMMA OtherCommitKeeps ==
  ASSUME IInv, OtherCommit
  PROVE  IInv'
<1>1. /\ UNCHANGED <<mirror, flow, exchange, requests, answers, current>>
      /\ CurrentRevision < MaxRevision
  BY DEF OtherCommit
<1>2. PICK s \in Schedules :
        device' = [device EXCEPT
                     !.log = Append(@, [alarms |-> s, request |-> None])]
  BY DEF OtherCommit
<1>3. PICK commit : commit = [alarms |-> s, request |-> None]
  OBVIOUS
<1>4. commit \in Commits /\ commit.request = None
  BY <1>3 DEF Commits
<1>5. /\ device' \in [log : Seq(Commits), window : Seq(1 .. MaxRequests)]
      /\ device'.log = Append(device.log, commit)
      /\ Len(device'.window) <= Window
  <2>1. /\ device \in [log : Seq(Commits), window : Seq(1 .. MaxRequests)]
        /\ Len(device.window) <= Window
    BY DEF IInv, Types, TypeOK
  <2>2. Append(device.log, commit) \in Seq(Commits)
    BY <1>4, <2>1
  <2>3. device' = [device EXCEPT !.log = Append(device.log, commit)]
    BY <1>2, <1>3
  <2> QED
    BY <2>1, <2>2, <2>3
<1>6. answers' \subseteq Answers /\ IsFiniteSet(answers')
  BY <1>1 DEF IInv, Types, TypeOK
<1> QED
  BY <1>1, <1>4, <1>5, <1>6, CommitKeeps

LEMMA NextIInv == IInv /\ [Next]_vars => IInv'
<1> SUFFICES ASSUME IInv, [Next]_vars PROVE IInv'
  OBVIOUS
<1>1. CASE User
  BY <1>1, ReviewKeeps, RequestPreviewKeeps, ConfirmApplyKeeps,
     AcknowledgeKeeps, CancelKeeps DEF User
<1>2. CASE Deliver
  BY <1>2, ReceiveTokenKeeps, ReceiveKeeps DEF Deliver
<1>3. CASE ChangeMirror \/ Restart
  BY <1>3, ChangeMirrorKeeps, RestartKeeps
<1>4. CASE HandleRequest
  BY <1>4, HandleKeeps DEF HandleRequest
<1>5. CASE OtherCommit
  BY <1>5, OtherCommitKeeps
<1>6. CASE UNCHANGED vars
  <2>1. /\ flow \in Flows /\ exchange \in Exchanges
        /\ Paired(flow, exchange) /\ exchange.conflict = flow.conflict
        /\ flow.phase \in Armed => exchange.armed = flow.diff
    BY PhasesPaired DEF IInv, Types, TypeOK, Flows, Exchanges
  <2>2. flow.phase \in Reviewing => Genuine(flow.diff)
    BY ChangeIsGenuine
  <2> QED
    BY <1>6, <2>1, <2>2, MirrorStays, ApplicationMoves
    DEF vars, IInv, OnlyConflicts, Awaited
<1> QED
  BY <1>1, <1>2, <1>3, <1>4, <1>5, <1>6 DEF Next

LEMMA SpecIInv == Spec => []IInv
  BY InitIInv, NextIInv, PTL DEF Spec

-----------------------------------------------------------------------------
(* Every variable keeps its type: what review, the exchange, the device    *)
(* and its replay window build has every field of a diff, a request, an    *)
(* answer and a commit, and the window is never longer than its capacity.  *)
THEOREM TypeCorrectness == Spec => []TypeOK
<1>1. IInv => TypeOK
  BY DEF IInv, Types
<1> QED
  BY <1>1, SpecIInv, PTL

(* ScheduleFlowController and ScheduleExchange move together: none of the  *)
(* calls of the controller finds its exchange in a phase in which it       *)
(* throws, and the change a user confirms is the one that was previewed.   *)
THEOREM PhasesMoveTogether == Spec => []FlowFollowsExchange
<1>1. IInv => FlowFollowsExchange
  BY DEF IInv
<1> QED
  BY <1>1, SpecIInv, PTL

(* DeviceScheduleStore never shows, for the revision it claims, alarms the *)
(* device did not commit at that revision, however answers are delayed,    *)
(* reordered or repeated and whatever other clients commit meanwhile.      *)
THEOREM MirrorShowsCommitted == Spec => []MirrorIsCommitted
<1>1. IInv => MirrorIsCommitted
  BY DEF IInv
<1> QED
  BY <1>1, SpecIInv, PTL

(* An apply of this application, however late or often it arrives,         *)
(* replaces exactly the schedule its user reviewed it against.             *)
THEOREM UpdatesAreNotLost == Spec => []NoLostUpdate
<1>1. IInv => NoLostUpdate
  BY DEF IInv
<1> QED
  BY <1>1, SpecIInv, PTL

(* recordApplied takes the mirror one revision further than the one that   *)
(* was reviewed, and so than the one it is at: a receipt that comes after  *)
(* a refresh is not adopted.                                               *)
THEOREM ReceiptsGoForward == Spec => ReceiptAdvancesMirror
<1>1. /\ IInv /\ [Next]_vars
      => [exchange.phase = "applySent" /\ exchange'.phase = "applied"
          => mirror'.revision = mirror.revision + 1]_vars
  <2> SUFFICES ASSUME IInv, Next, exchange.phase = "applySent",
                      exchange'.phase = "applied"
               PROVE  mirror'.revision = mirror.revision + 1
    OBVIOUS
  <2>1. /\ exchange \in Exchanges /\ flow \in Flows
        /\ flow.phase = "applyPending" /\ exchange.armed = flow.diff
    BY PhasesPaired DEF IInv, Types, TypeOK, Flows, Exchanges, Paired, Armed
  <2>2. ASSUME NEW m \in answers, Receive(m)
        PROVE  mirror'.revision = mirror.revision + 1
    <3>1. m.kind = "receipt" /\ Consistent(m)
      BY <2>1, <2>2
      DEF Receive, IngestReceipt, IngestError, Aborted, NewExchange, Exchanges
    <3> QED
      BY <2>1, <2>2, <3>1
      DEF Receive, IngestReceipt, RecordApplied, Consistent, MirrorChanged
  <2>3. ~User
    BY <2>1
    DEF User, Review, RequestPreview, ConfirmApply, AcknowledgeRefresh,
        CanAcknowledge, Cancel, CanCancel, CanReview
  <2>4. ~(ChangeMirror \/ Restart \/ HandleRequest \/ OtherCommit)
    BY DEF ChangeMirror, Restart, NewExchange, HandleRequest, Handle,
           OtherCommit
  <2> QED
    BY <2>1, <2>2, <2>3, <2>4 DEF Next, Deliver, ReceiveToken
<1> QED
  BY <1>1, SpecIInv, PTL DEF Spec, ReceiptAdvancesMirror
=============================================================================
