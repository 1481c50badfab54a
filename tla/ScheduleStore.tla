--------------------------- MODULE ScheduleStore ---------------------------
(***************************************************************************)
(* AtomicScheduleStore (schedule_store.cpp) over NvsSlotStorage            *)
(* (nvs_slot_storage.cpp): the committed record kept in two slots, each    *)
(* transaction split at the storage calls between which power may fail or  *)
(* another task may try the partition.                                     *)
(*                                                                         *)
(* A slot has a durable content (flash) and the content reads see (view):  *)
(* a set or commit that fails may change either, and only a reboot brings  *)
(* them together again.                                                    *)
(***************************************************************************)
EXTENDS Integers, FiniteSets

CONSTANTS
  Tasks,           \* tasks that call the store
  None,            \* nothing
  Schedules,       \* alarm lists with their timezone-rules version
  Journals,        \* occurrence states that validate_snapshot accepts
  EmptyJournal,    \* the one of a schedule saved into an empty store
  InitialFlash,    \* what the slots may hold at the first boot
  MaxGeneration,   \* largest std::uint64_t, for the storage generation
  MaxRevision,     \* largest std::uint64_t, for the schedule revision
  MaxBoots,        \* bound: boot sessions
  MaxRot           \* bound: slots corrupted by the medium

Slots == {"a", "b"}

Forms == {"empty", "torn", "v1", "v2", "future"}

Snapshots ==
  [revision : 1 .. MaxRevision, defs : Schedules, occ : Journals]

(* What a slot holds: nothing, bytes that do not decode, or a record.      *)
Content(form, generation, data) ==
  [form |-> form, generation |-> generation, data |-> data]
Empty == Content("empty", 0, None)
Torn  == Content("torn", 0, None)

Contents ==
  {Empty, Torn}
  \cup [form : {"v1", "v2"}, generation : 1 .. MaxGeneration,
        data : Snapshots]
  \cup [form : {"future"}, generation : 1 .. MaxGeneration, data : {None}]

ASSUME StoreConstants ==
  /\ None \notin Tasks
  /\ EmptyJournal \in Journals
  /\ MaxGeneration \in Nat \ {0} /\ MaxRevision \in Nat \ {0}
  /\ MaxBoots \in Nat \ {0} /\ MaxRot \in Nat
  /\ InitialFlash \subseteq [Slots -> Contents]
  /\ None \notin [generation : 1 .. MaxGeneration, data : Snapshots]

VARIABLES
  flash,        \* durable content of the slots
  view,         \* content of the slots as this boot reads it
  initialized,  \* the partition was initialised in this boot
  uncertain,    \* write_uncertain
  owner,        \* transaction_owner
  task,         \* per task: step, request, record found, result
  known,        \* per task: the record it last learned of, or None
  boot,         \* boot sessions so far
  rot           \* slots corrupted so far

vars == <<flash, view, initialized, uncertain, owner, task, known, boot, rot>>

IdleTask ==
  [pc |-> "idle", request |-> None, found |-> None, write |-> None,
   result |-> "none"]

Init ==
  /\ flash \in InitialFlash
  /\ view = flash
  /\ initialized = FALSE /\ uncertain = FALSE /\ owner = None
  /\ task = [t \in Tasks |-> IdleTask]
  /\ known = [t \in Tasks |-> None]
  /\ boot = 1 /\ rot = 0

-----------------------------------------------------------------------------
(* load_unlocked: the newest record that decodes, unless an intact record  *)
(* of a newer schema is at least as new, or two records disagree under one *)
(* generation.                                                             *)
Readable(slots) == {s \in Slots : slots[s].form \in {"v1", "v2"}}

(* What a store of this or of a newer firmware leaves: every save goes to  *)
(* the slot that is not the newest and counts one generation more, and a   *)
(* firmware that writes a newer schema goes on doing so.                   *)
WrittenInTurn(slots) ==
  \A s \in Slots, u \in Readable(slots) : s # u =>
    /\ s \in Readable(slots) =>
         slots[s].generation - slots[u].generation \in {-1, 1}
    /\ slots[s].form = "future" => slots[u].generation < slots[s].generation

ASSUME DevicesWereWrittenInTurn ==
  \A slots \in InitialFlash : WrittenInTurn(slots)

Newest(slots) ==
  CHOOSE s \in Readable(slots) :
    \A t \in Readable(slots) \ {s} :
      \/ slots[t].generation < slots[s].generation
      \/ slots[t].generation = slots[s].generation /\ s = "a"

Ambiguous(slots) ==
  /\ Readable(slots) = Slots
  /\ slots["a"].generation = slots["b"].generation
  /\ slots["a"] # slots["b"]

(* Mutant: a record of a newer schema is taken for an empty slot. *)
SupportedAnyway(slots) == FALSE

Unsupported(slots) ==
  \E s \in Slots :
    /\ slots[s].form = "future"
    /\ \/ Readable(slots) = {}
       \/ slots[s].generation >= slots[Newest(slots)].generation

LoadStatus(slots) ==
  IF Unsupported(slots)           THEN "unsupported_schema"
  ELSE IF Ambiguous(slots)        THEN "ambiguous"
  ELSE IF Readable(slots) # {}    THEN "loaded"
  ELSE IF slots # [s \in Slots |-> Empty] THEN "corrupt"
  ELSE "empty"

Record(content) == [generation |-> content.generation, data |-> content.data]

(* The record a load of these slots returns, or None. *)
Loaded(slots) ==
  IF LoadStatus(slots) = "loaded" THEN Record(slots[Newest(slots)]) ELSE None

-----------------------------------------------------------------------------
(* Unsigned increments: one wraps, the other is refused by its callers.    *)
NextRevision(revision) == IF revision = MaxRevision THEN 0 ELSE revision + 1

(* Mutant: the generation is allowed to wrap. *)
CanAdvanceAlways(generation) == TRUE

CanAdvance(generation) == generation < MaxGeneration

(* Mutants: the newest slot is overwritten; the generation is not raised.  *)
SameSlot(slot) == slot
SameGeneration(record) == record.generation

Opposite(slot) == IF slot = "a" THEN "b" ELSE "a"

NextGeneration(record) == record.generation + 1

(* Requests.  A caller derives its expected revision and generation from   *)
(* the record it last learned of; a repeated request is a retry.           *)
LoadRequest    == [kind |-> "load"]
MigrateRequest == [kind |-> "migrate"]

KnownRevision(t) == IF known[t] = None THEN 0 ELSE known[t].data.revision

SaveRequest(t, defs) ==
  [kind |-> "save", expected |-> KnownRevision(t),
   snapshot |-> [revision |-> NextRevision(KnownRevision(t)), defs |-> defs,
                 occ |-> IF known[t] = None THEN EmptyJournal
                         ELSE known[t].data.occ]]

JournalRequest(t, occ) ==
  [kind |-> "journal", expected |-> known[t].data.revision,
   generation |-> known[t].generation, occ |-> occ]

Requests(t) ==
  {LoadRequest, MigrateRequest}
  \cup {SaveRequest(t, defs) : defs \in Schedules}
  \cup (IF known[t] = None THEN {}
        ELSE {JournalRequest(t, occ) : occ \in Journals})

(* A verdict is a status, or the content to write and its destination.     *)
Refuse(status) == [status |-> status, slot |-> None, content |-> None]

Replace(slots, data) ==
  LET current == Loaded(slots) IN
  IF current = None
  THEN [status |-> "write", slot |-> "a", content |-> Content("v2", 1, data)]
  ELSE IF ~CanAdvance(current.generation) THEN Refuse("invalid_snapshot")
  ELSE [status |-> "write", slot |-> Opposite(Newest(slots)),
        content |-> Content("v2", NextGeneration(current), data)]

Broken(slots) ==
  LoadStatus(slots) \in {"corrupt", "unsupported_schema", "ambiguous"}

MigrateVerdict(slots) ==
  IF Broken(slots) THEN Refuse("corrupt_store")
  ELSE IF Loaded(slots) = None \/ slots[Newest(slots)].form = "v2"
  THEN Refuse("unchanged")
  ELSE Replace(slots, Loaded(slots).data)

SaveVerdict(slots, request) ==
  LET current   == Loaded(slots)
      revision  == IF current = None THEN 0 ELSE current.data.revision
      expected  == request.expected
      committed == IF current = None THEN request.snapshot
                   ELSE [request.snapshot EXCEPT !.occ = current.data.occ]
  IN  IF Broken(slots) THEN Refuse("corrupt_store")
      ELSE IF /\ current # None /\ current.data = committed
              /\ \/ expected = revision
                 \/ expected # MaxRevision /\ expected + 1 = revision
      THEN Refuse("unchanged")
      ELSE IF revision # expected     THEN Refuse("revision_conflict")
      ELSE IF committed.revision = 0  THEN Refuse("invalid_snapshot")
      ELSE Replace(slots, committed)

JournalVerdict(slots, request) ==
  LET current == Loaded(slots)
      updated == [current.data EXCEPT !.occ = request.occ]
  IN  IF Broken(slots) THEN Refuse("corrupt_store")
      ELSE IF current = None \/ current.data.revision # request.expected
      THEN Refuse("revision_conflict")
      ELSE IF /\ updated = current.data
              /\ \/ current.generation = request.generation
                 \/ /\ request.generation # MaxGeneration
                    /\ current.generation = request.generation + 1
      THEN Refuse("unchanged")
      ELSE IF current.generation # request.generation
      THEN Refuse("generation_conflict")
      ELSE Replace(slots, updated)

Verdict(slots, request) ==
  CASE request.kind = "load"    -> Refuse(LoadStatus(slots))
    [] request.kind = "migrate" -> MigrateVerdict(slots)
    [] request.kind = "save"    -> SaveVerdict(slots, request)
    [] request.kind = "journal" -> JournalVerdict(slots, request)

-----------------------------------------------------------------------------
(* Mutant: a transaction does not exclude another. *)
MayBeginShared == initialized /\ ~uncertain

(* begin_transaction succeeds only if the lock is free, the partition      *)
(* initialised and no write of this boot is in doubt.                      *)
MayBegin == owner = None /\ initialized /\ ~uncertain

(* initialize(), from app_main or a later attempt; it may fail instead.    *)
Initialize ==
  /\ ~initialized /\ owner = None /\ ~uncertain
  /\ initialized' = TRUE
  /\ UNCHANGED <<flash, view, uncertain, owner, task, known, boot, rot>>

(* A call that cannot begin returns io_error and changes nothing.          *)
Begin(t) ==
  /\ task[t].pc = "idle"
  /\ MayBegin
  /\ owner' = t
  /\ \E request \in Requests(t) :
       task' = [task EXCEPT ![t].pc = "read", ![t].request = request]
  /\ UNCHANGED <<flash, view, initialized, uncertain, known, boot, rot>>

Finish(t, result) ==
  task' = [task EXCEPT ![t].pc = "end", ![t].result = result]

(* Both slots are read; an error of either read ends the call.             *)
ReadSlots(t) ==
  /\ task[t].pc = "read"
  /\ \/ Finish(t, "io_error")
     \/ \E verdict \in {Verdict(view, task[t].request)} :
          IF verdict.status = "write"
          THEN task' = [task EXCEPT ![t].pc = "write", ![t].write = verdict]
          ELSE task' = [task EXCEPT ![t].pc = "end",
                                    ![t].result = verdict.status,
                                    ![t].found = Loaded(view)]
  /\ UNCHANGED <<flash, view, initialized, uncertain, owner, known, boot, rot>>

(* Mutant: a write that failed does not make the partition unavailable.    *)
LatchNothing == uncertain' = uncertain

LatchUncertain == uncertain' = TRUE

(* write: one slot is set and committed.  A failure leaves its durable and *)
(* its visible content in doubt.                                           *)
WriteSlot(t) ==
  /\ task[t].pc = "write"
  /\ LET slot == task[t].write.slot
         new  == task[t].write.content
     IN \/ /\ flash' = [flash EXCEPT ![slot] = new]
           /\ view' = [view EXCEPT ![slot] = new]
           /\ task' = [task EXCEPT ![t].pc = "verify"]
           /\ UNCHANGED uncertain
        \/ /\ \E durable \in {flash[slot], new, Torn} :
                flash' = [flash EXCEPT ![slot] = durable]
           /\ \E visible \in {view[slot], new} :
                view' = [view EXCEPT ![slot] = visible]
           /\ Finish(t, "io_error")
           /\ LatchUncertain
  /\ UNCHANGED <<initialized, owner, known, boot, rot>>

(* The slot is read back and compared with what was written.               *)
Verify(t) ==
  /\ task[t].pc = "verify"
  /\ LET new == task[t].write.content IN
     \/ Finish(t, "io_error")
     \/ /\ view[task[t].write.slot] = new
        /\ task' = [task EXCEPT ![t].pc = "end", ![t].result = "stored",
                                ![t].found = Record(new)]
     \/ /\ view[task[t].write.slot] # new
        /\ Finish(t, "verification_failed")
  /\ UNCHANGED <<flash, view, initialized, uncertain, owner, known, boot, rot>>

(* end_transaction, and the result reaches the caller.                     *)
Return(t) ==
  /\ task[t].pc = "end"
  /\ owner' = None
  /\ known' = IF /\ task[t].result \in {"loaded", "stored", "unchanged"}
                 /\ task[t].found # None
              THEN [known EXCEPT ![t] = task[t].found]
              ELSE known
  /\ task' = [task EXCEPT ![t] = IdleTask]
  /\ UNCHANGED <<flash, view, initialized, uncertain, boot, rot>>

-----------------------------------------------------------------------------
(* Power fails between any two storage calls (a write cut short is one     *)
(* that fails), and the medium loses a slot.                               *)
Reboot ==
  /\ boot < MaxBoots
  /\ boot' = boot + 1
  /\ view' = flash
  /\ initialized' = FALSE /\ uncertain' = FALSE /\ owner' = None
  /\ task' = [t \in Tasks |-> IdleTask]
  /\ known' = [t \in Tasks |-> None]
  /\ UNCHANGED <<flash, rot>>

Rot(slot) ==
  /\ rot < MaxRot
  /\ flash[slot].form \notin {"empty", "torn"}
  /\ rot' = rot + 1
  /\ flash' = [flash EXCEPT ![slot] = Torn]
  /\ view' = [view EXCEPT ![slot] = Torn]
  /\ UNCHANGED <<initialized, uncertain, owner, task, known, boot>>

Next ==
  \/ Initialize
  \/ \E t \in Tasks :
       Begin(t) \/ ReadSlots(t) \/ WriteSlot(t) \/ Verify(t) \/ Return(t)
  \/ Reboot
  \/ \E slot \in Slots : Rot(slot)

Spec == Init /\ [][Next]_vars
-----------------------------------------------------------------------------
TypeOK ==
  /\ flash \in [Slots -> Contents] /\ view \in [Slots -> Contents]
  /\ initialized \in BOOLEAN /\ uncertain \in BOOLEAN
  /\ owner \in Tasks \cup {None}
  /\ \A t \in Tasks :
       /\ task[t].pc \in {"idle", "read", "write", "verify", "end"}
       /\ known[t] \in [generation : 1 .. MaxGeneration, data : Snapshots]
                       \cup {None}
  /\ boot \in 1 .. MaxBoots /\ rot \in 0 .. MaxRot

(* Whatever a caller was ever told is committed survives any power loss:   *)
(* until the medium loses a slot, a reboot at this moment would load that  *)
(* record or a later one.                                                  *)
ReportedIsDurable ==
  \A t \in Tasks : rot = 0 /\ known[t] # None =>
    LET durable == Loaded(flash) IN
    /\ durable # None
    /\ durable.generation >= known[t].generation
    /\ durable.generation = known[t].generation => durable = known[t]

(* The store never makes itself unreadable: no sequence of commits, failed *)
(* writes, corrupted slots and reboots leaves two records that disagree    *)
(* under one generation, which every later call would refuse.              *)
NeverAmbiguous == ~Ambiguous(flash)

(* What a corrupt newest slot falls back to is the record right before it, *)
(* never an older one.                                                     *)
FallbackIsPrevious ==
  Readable(flash) = Slots =>
    \A s \in Slots \ {Newest(flash)} :
      flash[s].generation = flash[Newest(flash)].generation - 1

(* A record of a newer schema that is not older than what this firmware    *)
(* can read is never overwritten by it.                                    *)
FutureRecordKept ==
  [][\A s \in Slots :
       /\ flash[s].form = "future"
       /\ \A u \in Readable(flash) :
            flash[u].generation <= flash[s].generation
       => flash'[s] = flash[s] \/ rot' > rot]_vars

(* The two slots behave as one compare-and-set register, until the medium  *)
(* loses one of them.                                                      *)
Register == INSTANCE CasRegister
  WITH Callers <- Tasks,
       Absent  <- None,
       record  <- Loaded(flash),
       known   <- known
ImplementsRegister ==
  /\ Register!RegisterInit
  /\ [][rot' = 0 => Register!RegisterNext]_<<Loaded(flash), known>>
=============================================================================
