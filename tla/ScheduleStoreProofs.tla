------------------------ MODULE ScheduleStoreProofs ------------------------
(***************************************************************************)
(* Theorems about ScheduleStore, for any number of tasks, schedules,       *)
(* journals, generations, boots and corrupted slots, from every device     *)
(* that was written in turn.                                               *)
(***************************************************************************)
EXTENDS ScheduleStore, TLAPS

Records == [generation : 1 .. MaxGeneration, data : Snapshots]

SaveRequests ==
  [kind : {"save"}, expected : 0 .. MaxRevision,
   snapshot : [revision : 0 .. MaxRevision, defs : Schedules, occ : Journals]]

JournalRequests ==
  [kind : {"journal"}, expected : 1 .. MaxRevision,
   generation : 1 .. MaxGeneration, occ : Journals]

AllRequests ==
  {LoadRequest, MigrateRequest} \cup SaveRequests \cup JournalRequests

(* What a refused call answers; a call that knew the record, or nothing.   *)
Refusals ==
  {"unsupported_schema", "ambiguous", "loaded", "corrupt", "empty",
   "corrupt_store", "unchanged", "invalid_snapshot", "revision_conflict",
   "generation_conflict"}

Results == Refusals \cup {"none", "io_error", "stored", "verification_failed"}

Telling == {"loaded", "stored", "unchanged"}

Writes == [status : {"write"}, slot : Slots, content : Contents]

TaskStates ==
  [pc : {"idle", "read", "write", "verify", "end"},
   request : AllRequests \cup {None}, found : Records \cup {None},
   write : Writes \cup {None}, result : Results]

Types ==
  /\ flash \in [Slots -> Contents] /\ view \in [Slots -> Contents]
  /\ initialized \in BOOLEAN /\ uncertain \in BOOLEAN
  /\ owner \in Tasks \cup {None}
  /\ task \in [Tasks -> TaskStates]
  /\ known \in [Tasks -> Records \cup {None}]
  /\ boot \in 1 .. MaxBoots /\ rot \in 0 .. MaxRot

(* One transaction at a time, on slots that are what they seem. *)
Locked ==
  /\ \A t \in Tasks : task[t].pc # "idle" => owner = t
  /\ ~uncertain => view = flash
  /\ \A t \in Tasks : task[t].pc \in {"read", "write", "verify"} => ~uncertain

(* A request is still what its caller derives from what it knows. *)
FromKnown ==
  \A t \in Tasks :
    task[t].pc \in {"read", "write"} => task[t].request \in Requests(t)

(* A write goes one generation further and over nothing of a newer schema; *)
(* while no slot rots it is still what the slots ask for.                  *)
Planned(state) ==
  /\ state.write \in Writes /\ state.write.content.form = "v2"
  /\ \A s \in Slots : flash[s].form # "future"
  /\ Opposite(state.write.slot) \in Readable(flash) =>
       state.write.content.generation =
         flash[Opposite(state.write.slot)].generation + 1
  /\ rot = 0 => state.write = Verdict(flash, state.request)

(* What is read back is a record of this schema. *)
Verifiable(state) ==
  state.pc = "verify" =>
    state.write \in Writes /\ state.write.content.form = "v2"

(* What is about to be told is committed. *)
Truthful(state) ==
  /\ state.pc = "verify" => Loaded(flash) = Record(state.write.content)
  /\ state.pc = "end" /\ state.result \in Telling /\ state.found # None =>
       state.found = Loaded(flash)

(* A reboot would load this record or a later one. *)
Survives(record) ==
  /\ Loaded(flash) # None
  /\ Loaded(flash).generation >= record.generation
  /\ Loaded(flash).generation = record.generation => Loaded(flash) = record

IInv ==
  /\ Types /\ WrittenInTurn(flash) /\ Locked /\ FromKnown
  /\ \A t \in Tasks : task[t].pc = "write" => Planned(task[t])
  /\ \A t \in Tasks : Verifiable(task[t])
  /\ rot = 0 => \A t \in Tasks :
       Truthful(task[t]) /\ (known[t] # None => Survives(known[t]))

-----------------------------------------------------------------------------
(* The slots of one moment. *)
AnySlots == [Slots -> Contents]

LEMMA ContentFields ==
  ASSUME NEW c \in Contents
  PROVE  /\ c.form \in {"empty", "torn", "v1", "v2", "future"}
         /\ c.generation \in Nat
         /\ c.form \in {"v1", "v2"} => Record(c) \in Records
         /\ c.form = "empty" => c = Empty
  BY StoreConstants DEF Contents, Content, Empty, Torn, Record, Records

LEMMA NoneIsNoRecord == None \notin Records
  BY StoreConstants DEF Records

LEMMA Opposites ==
  ASSUME NEW s \in Slots
  PROVE  /\ Opposite(s) \in Slots /\ Opposite(s) # s
         /\ Opposite(Opposite(s)) = s
         /\ \A u \in Slots : u = s \/ u = Opposite(s)
  BY DEF Slots, Opposite

(* Written in turn, of two records one is the newer. *)
LEMMA InTurnOrder ==
  ASSUME NEW slots \in AnySlots, WrittenInTurn(slots),
         NEW s \in Readable(slots), NEW u \in Readable(slots), s # u
  PROVE  \/ slots[u].generation = slots[s].generation - 1
         \/ slots[s].generation = slots[u].generation - 1
<1>1. s \in Slots /\ u \in Slots
  BY DEF Readable
<1>2. slots[s].generation \in Nat /\ slots[u].generation \in Nat
  BY <1>1, ContentFields DEF AnySlots
<1>3. slots[s].generation - slots[u].generation \in {-1, 1}
  BY <1>1 DEF WrittenInTurn
<1> QED
  BY <1>2, <1>3

LEMMA NotAmbiguous ==
  ASSUME NEW slots \in AnySlots, WrittenInTurn(slots)
  PROVE  ~Ambiguous(slots)
<1> SUFFICES ASSUME Ambiguous(slots) PROVE FALSE
  OBVIOUS
<1>1. /\ "a" \in Readable(slots) /\ "b" \in Readable(slots)
      /\ slots["a"].generation = slots["b"].generation
  BY DEF Ambiguous, Slots
<1>2. slots["a"].generation \in Nat
  BY ContentFields DEF AnySlots, Slots
<1> QED
  BY <1>1, <1>2, InTurnOrder

(* The record with the highest generation is the newest. *)
LEMMA NewestIs ==
  ASSUME NEW slots \in AnySlots, NEW s \in Readable(slots),
         \A u \in Readable(slots) \ {s} :
           slots[u].generation < slots[s].generation
  PROVE  Newest(slots) = s
<1> DEFINE IsNewest(r) ==
      \A u \in Readable(slots) \ {r} :
        \/ slots[u].generation < slots[r].generation
        \/ slots[u].generation = slots[r].generation /\ r = "a"
<1>1. IsNewest(s)
  OBVIOUS
<1>2. \A u \in Readable(slots) : slots[u].generation \in Nat
  BY ContentFields DEF AnySlots, Readable
<1>3. ASSUME NEW r \in Readable(slots), IsNewest(r)
      PROVE  r = s
  <2> SUFFICES ASSUME r # s PROVE FALSE
    OBVIOUS
  <2>1. slots[r].generation < slots[s].generation
    OBVIOUS
  <2>2. slots[s].generation <= slots[r].generation
    BY <1>2, <1>3
  <2> QED
    BY <1>2, <2>1, <2>2
<1> HIDE DEF IsNewest
<1>4. Newest(slots) = CHOOSE r \in Readable(slots) : IsNewest(r)
  BY DEF Newest, IsNewest
<1> QED
  BY <1>1, <1>3, <1>4

LEMMA NewestExists ==
  ASSUME NEW slots \in AnySlots, WrittenInTurn(slots), Readable(slots) # {}
  PROVE  /\ Newest(slots) \in Readable(slots)
         /\ \A u \in Readable(slots) \ {Newest(slots)} :
              slots[u].generation = slots[Newest(slots)].generation - 1
<1>1. Readable(slots) \subseteq Slots
  BY DEF Readable
<1>2. \A u \in Readable(slots) : slots[u].generation \in Nat
  BY <1>1, ContentFields DEF AnySlots
<1>3. PICK s \in Readable(slots) :
        \A u \in Readable(slots) \ {s} :
          slots[u].generation = slots[s].generation - 1
  <2>1. PICK r \in Readable(slots) : TRUE
    OBVIOUS
  <2>2. CASE \A u \in Readable(slots) \ {r} :
               slots[u].generation = slots[r].generation - 1
    BY <2>1, <2>2
  <2>3. CASE ~ \A u \in Readable(slots) \ {r} :
               slots[u].generation = slots[r].generation - 1
    <3>1. PICK u \in Readable(slots) \ {r} :
            slots[u].generation # slots[r].generation - 1
      BY <2>3
    <3>2. slots[r].generation = slots[u].generation - 1
      BY <2>1, <3>1, InTurnOrder
    <3>3. \A v \in Readable(slots) \ {u} : v = r
      BY <1>1, <2>1, <3>1, Opposites
    <3> QED
      BY <3>1, <3>2, <3>3
  <2> QED
    BY <2>2, <2>3
<1>4. \A u \in Readable(slots) \ {s} :
        slots[u].generation < slots[s].generation
  BY <1>2, <1>3
<1>5. Newest(slots) = s
  BY <1>4, NewestIs
<1> QED
  BY <1>3, <1>5

(* The newest record is loaded, unless a newer schema is there. *)
LEMMA LoadsNewest ==
  ASSUME NEW slots \in AnySlots, WrittenInTurn(slots),
         \A s \in Slots : slots[s].form # "future",
         NEW s \in Readable(slots),
         \A u \in Readable(slots) \ {s} :
           slots[u].generation < slots[s].generation
  PROVE  Loaded(slots) = Record(slots[s]) /\ Loaded(slots) \in Records
<1>1. Newest(slots) = s
  BY NewestIs
<1>2. LoadStatus(slots) = "loaded"
  BY NotAmbiguous DEF LoadStatus, Unsupported
<1>3. Record(slots[s]) \in Records
  BY ContentFields DEF Readable, AnySlots
<1> QED
  BY <1>1, <1>2, <1>3 DEF Loaded

(* What a load returns, it returns for no other reason. *)
LEMMA LoadedIs ==
  ASSUME NEW slots \in AnySlots, WrittenInTurn(slots), Loaded(slots) # None
  PROVE  /\ Newest(slots) \in Readable(slots)
         /\ Loaded(slots) = Record(slots[Newest(slots)])
         /\ Loaded(slots) \in Records
         /\ \A s \in Slots : slots[s].form # "future"
         /\ \A u \in Readable(slots) \ {Newest(slots)} :
              slots[u].generation = slots[Newest(slots)].generation - 1
<1>1. LoadStatus(slots) = "loaded"
  BY DEF Loaded
<1>2. Readable(slots) # {} /\ ~Unsupported(slots)
  BY <1>1 DEF LoadStatus
<1>3. /\ Newest(slots) \in Readable(slots)
      /\ \A u \in Readable(slots) \ {Newest(slots)} :
           slots[u].generation = slots[Newest(slots)].generation - 1
  BY <1>2, NewestExists
<1>4. \A s \in Slots : slots[s].form # "future"
  <2> SUFFICES ASSUME NEW s \in Slots, slots[s].form = "future" PROVE FALSE
    OBVIOUS
  <2>1. s # Newest(slots)
    BY <1>3 DEF Readable
  <2>2. slots[Newest(slots)].generation < slots[s].generation
    BY <1>3, <2>1 DEF WrittenInTurn
  <2>3. /\ slots[s].generation \in Nat
        /\ slots[Newest(slots)].generation \in Nat
    BY <1>3, ContentFields DEF AnySlots, Readable
  <2>4. slots[s].generation >= slots[Newest(slots)].generation
    BY <2>2, <2>3
  <2> QED
    BY <1>2, <2>4 DEF Unsupported
<1>5. Loaded(slots) = Record(slots[Newest(slots)])
  BY <1>1 DEF Loaded
<1>6. Record(slots[Newest(slots)]) \in Records
  BY <1>3, ContentFields DEF Readable, AnySlots
<1> QED
  BY <1>3, <1>4, <1>5, <1>6

(* A store that is neither broken nor loaded is empty. *)
LEMMA NothingLoaded ==
  ASSUME NEW slots \in AnySlots, WrittenInTurn(slots),
         Loaded(slots) = None, ~Broken(slots)
  PROVE  \A s \in Slots : slots[s] = Empty
<1>1. LoadStatus(slots) # "loaded"
  <2> SUFFICES ASSUME LoadStatus(slots) = "loaded" PROVE FALSE
    OBVIOUS
  <2>1. Readable(slots) # {}
    BY DEF LoadStatus
  <2>2. Newest(slots) \in Readable(slots)
    BY <2>1, NewestExists
  <2>3. Loaded(slots) \in Records
    BY <2>2, ContentFields DEF Loaded, Readable, AnySlots
  <2> QED
    BY <2>3, NoneIsNoRecord
<1>2. LoadStatus(slots) = "empty"
  BY <1>1 DEF LoadStatus, Broken
<1>3. slots = [s \in Slots |-> Empty]
  BY <1>2 DEF LoadStatus
<1> QED
  BY <1>3

-----------------------------------------------------------------------------
(* What a call writes: one generation further, away from the newest.       *)
LEMMA ReplaceIs ==
  ASSUME NEW slots \in AnySlots, WrittenInTurn(slots), ~Broken(slots),
         NEW data \in Snapshots, Replace(slots, data).status = "write"
  PROVE  LET write == Replace(slots, data) IN
         /\ write \in Writes
         /\ write.content.form = "v2" /\ write.content.data = data
         /\ \A s \in Slots : slots[s].form # "future"
         /\ Loaded(slots) = None =>
              /\ \A s \in Slots : slots[s] = Empty
              /\ write.content.generation = 1
         /\ Loaded(slots) # None =>
              /\ Opposite(write.slot) = Newest(slots)
              /\ write.content.generation = Loaded(slots).generation + 1
<1> DEFINE write == Replace(slots, data)
<1>1. CASE Loaded(slots) = None
  <2>1. \A s \in Slots : slots[s] = Empty
    BY <1>1, NothingLoaded
  <2>2. write = [status |-> "write", slot |-> "a",
                 content |-> Content("v2", 1, data)]
    BY <1>1 DEF Replace
  <2>3. Content("v2", 1, data) \in Contents
    BY StoreConstants DEF Content, Contents
  <2>4. \A s \in Slots : slots[s].form # "future"
    BY <2>1 DEF Empty, Content
  <2> QED
    BY <1>1, <2>1, <2>2, <2>3, <2>4 DEF Writes, Slots, Content
<1>2. CASE Loaded(slots) # None
  <2>1. /\ Newest(slots) \in Slots /\ Loaded(slots) \in Records
        /\ \A s \in Slots : slots[s].form # "future"
    BY <1>2, LoadedIs DEF Readable
  <2> DEFINE generation == Loaded(slots).generation
  <2>2. generation \in 1 .. MaxGeneration /\ CanAdvance(generation)
    BY <1>2, <2>1 DEF Replace, Refuse, Records
  <2>3. generation + 1 \in 1 .. MaxGeneration
    BY <2>2, StoreConstants DEF CanAdvance
  <2>4. write = [status |-> "write", slot |-> Opposite(Newest(slots)),
                 content |-> Content("v2", generation + 1, data)]
    BY <1>2, <2>2 DEF Replace, NextGeneration
  <2>5. Content("v2", generation + 1, data) \in Contents
    BY <2>3 DEF Content, Contents
  <2>6. /\ Opposite(Newest(slots)) \in Slots
        /\ Opposite(Opposite(Newest(slots))) = Newest(slots)
    BY <2>1, Opposites
  <2> HIDE DEF generation
  <2>7. write \in Writes
    BY <2>4, <2>5, <2>6 DEF Writes
  <2> QED
    BY <1>2, <2>1, <2>4, <2>6, <2>7 DEF Content, generation
<1> QED
  BY <1>1, <1>2

LEMMA MigrateWrites ==
  ASSUME NEW slots \in AnySlots, WrittenInTurn(slots),
         MigrateVerdict(slots).status = "write"
  PROVE  /\ ~Broken(slots) /\ Loaded(slots) # None
         /\ Loaded(slots).data \in Snapshots
         /\ MigrateVerdict(slots) = Replace(slots, Loaded(slots).data)
<1>1. /\ ~Broken(slots) /\ Loaded(slots) # None
      /\ MigrateVerdict(slots) = Replace(slots, Loaded(slots).data)
  BY DEF MigrateVerdict, Refuse
<1> QED
  BY <1>1, LoadedIs DEF Records

(* A schedule is saved over the revision it expected, with the journal of  *)
(* the moment.                                                             *)
LEMMA SaveWrites ==
  ASSUME NEW slots \in AnySlots, WrittenInTurn(slots),
         NEW request \in SaveRequests,
         SaveVerdict(slots, request).status = "write"
  PROVE  /\ ~Broken(slots)
         /\ request.expected = IF Loaded(slots) = None THEN 0
                               ELSE Loaded(slots).data.revision
         /\ \E data \in Snapshots :
              /\ data.revision = request.snapshot.revision
              /\ Loaded(slots) # None => data.occ = Loaded(slots).data.occ
              /\ SaveVerdict(slots, request) = Replace(slots, data)
<1> DEFINE committed == IF Loaded(slots) = None THEN request.snapshot
             ELSE [request.snapshot EXCEPT !.occ = Loaded(slots).data.occ]
           revision == IF Loaded(slots) = None THEN 0
                       ELSE Loaded(slots).data.revision
<1>1. /\ ~Broken(slots) /\ revision = request.expected
      /\ committed.revision # 0
      /\ SaveVerdict(slots, request) = Replace(slots, committed)
  BY DEF SaveVerdict, Refuse
<1>2. request.snapshot \in [revision : 0 .. MaxRevision, defs : Schedules,
                            occ : Journals]
  BY DEF SaveRequests
<1>3. Loaded(slots) # None => Loaded(slots).data.occ \in Journals
  BY LoadedIs DEF Records, Snapshots
<1>4. /\ committed.revision = request.snapshot.revision
      /\ committed.defs = request.snapshot.defs
      /\ committed.occ \in Journals
      /\ Loaded(slots) # None => committed.occ = Loaded(slots).data.occ
  BY <1>2, <1>3
<1>5. committed = [revision |-> committed.revision,
                   defs |-> committed.defs, occ |-> committed.occ]
  BY <1>2
<1> HIDE DEF committed
<1>6. committed.revision \in 1 .. MaxRevision
  BY <1>1, <1>2, <1>4, StoreConstants
<1>7. committed \in Snapshots
  BY <1>2, <1>4, <1>5, <1>6 DEF Snapshots
<1> QED
  BY <1>1, <1>4, <1>7

(* A journal is saved over the very record it was derived from. *)
LEMMA JournalWrites ==
  ASSUME NEW slots \in AnySlots, WrittenInTurn(slots),
         NEW request \in JournalRequests,
         JournalVerdict(slots, request).status = "write"
  PROVE  /\ ~Broken(slots) /\ Loaded(slots) # None
         /\ Loaded(slots).data.revision = request.expected
         /\ Loaded(slots).generation = request.generation
         /\ [Loaded(slots).data EXCEPT !.occ = request.occ] \in Snapshots
         /\ JournalVerdict(slots, request) =
              Replace(slots, [Loaded(slots).data EXCEPT !.occ = request.occ])
<1>1. /\ ~Broken(slots) /\ Loaded(slots) # None
      /\ Loaded(slots).data.revision = request.expected
      /\ Loaded(slots).generation = request.generation
      /\ JournalVerdict(slots, request) =
           Replace(slots, [Loaded(slots).data EXCEPT !.occ = request.occ])
  BY DEF JournalVerdict, Refuse
<1>2. Loaded(slots).data \in Snapshots /\ request.occ \in Journals
  BY <1>1, LoadedIs DEF Records, JournalRequests
<1>3. [Loaded(slots).data EXCEPT !.occ = request.occ] \in Snapshots
  BY <1>2 DEF Snapshots
<1> QED
  BY <1>1, <1>3

(* What is answered, and that what is written replaces the record.         *)
LEMMA VerdictIs ==
  ASSUME NEW slots \in AnySlots, WrittenInTurn(slots),
         NEW request \in AllRequests
  PROVE  \/ Verdict(slots, request).status \in Refusals
         \/ /\ Verdict(slots, request).status = "write" /\ ~Broken(slots)
            /\ \E data \in Snapshots :
                 Verdict(slots, request) = Replace(slots, data)
<1>1. \A data : Replace(slots, data).status \in {"write", "invalid_snapshot"}
  BY DEF Replace, Refuse
<1>2. CASE request = LoadRequest
  <2>1. Verdict(slots, request) = Refuse(LoadStatus(slots))
    BY <1>2 DEF Verdict, LoadRequest
  <2> QED
    BY <2>1 DEF Refuse, LoadStatus, Refusals
<1>3. CASE request = MigrateRequest
  <2>1. Verdict(slots, request) = MigrateVerdict(slots)
    BY <1>3 DEF Verdict, MigrateRequest
  <2>2. MigrateVerdict(slots).status \in Refusals \cup {"write"}
    BY <1>1 DEF MigrateVerdict, Refuse, Refusals
  <2> QED
    BY <2>1, <2>2, MigrateWrites
<1>4. CASE request \in SaveRequests
  <2>1. Verdict(slots, request) = SaveVerdict(slots, request)
    BY <1>4 DEF Verdict, SaveRequests
  <2>2. SaveVerdict(slots, request).status \in Refusals \cup {"write"}
    BY <1>1 DEF SaveVerdict, Refuse, Refusals
  <2> QED
    BY <1>4, <2>1, <2>2, SaveWrites
<1>5. CASE request \in JournalRequests
  <2>1. Verdict(slots, request) = JournalVerdict(slots, request)
    BY <1>5 DEF Verdict, JournalRequests
  <2>2. JournalVerdict(slots, request).status \in Refusals \cup {"write"}
    BY <1>1 DEF JournalVerdict, Refuse, Refusals
  <2> QED
    BY <1>5, <2>1, <2>2, JournalWrites
<1> QED
  BY <1>2, <1>3, <1>4, <1>5 DEF AllRequests

-----------------------------------------------------------------------------
(* A slot that is overwritten one generation further, or torn.             *)
LEMMA AfterWrite ==
  ASSUME NEW slots \in AnySlots, WrittenInTurn(slots),
         NEW slot \in Slots, NEW new \in Contents, new.form = "v2",
         \A s \in Slots : slots[s].form # "future",
         Opposite(slot) \in Readable(slots) =>
           new.generation = slots[Opposite(slot)].generation + 1,
         NEW after, after = [slots EXCEPT ![slot] = new]
  PROVE  /\ after \in AnySlots /\ WrittenInTurn(after)
         /\ \A s \in Slots : after[s].form # "future"
         /\ Loaded(after) = Record(new) /\ Loaded(after) \in Records
<1> DEFINE other == Opposite(slot)
<1>1. other \in Slots /\ other # slot /\ \A u \in Slots : u \in {slot, other}
  BY Opposites
<1> HIDE DEF other
<1>2. after[slot] = new /\ after[other] = slots[other] /\ after \in AnySlots
  BY <1>1 DEF AnySlots
<1>3. \A s \in Slots : after[s].form # "future"
  BY <1>1, <1>2
<1>4. other \in Readable(after) =>
        new.generation = slots[other].generation + 1
  BY <1>1, <1>2 DEF Readable, other
<1>5. slots[other].generation \in Nat /\ new.generation \in Nat
  BY <1>1, ContentFields DEF AnySlots
<1>6. WrittenInTurn(after)
  <2> SUFFICES ASSUME NEW s \in Slots, NEW u \in Readable(after), s # u,
                      s \in Readable(after)
               PROVE  after[s].generation - after[u].generation \in {-1, 1}
    BY <1>3 DEF WrittenInTurn
  <2>1. \/ s = slot /\ u = other
        \/ s = other /\ u = slot
    BY <1>1 DEF Readable
  <2> QED
    BY <1>2, <1>4, <1>5, <2>1
<1>7. slot \in Readable(after)
  BY <1>2 DEF Readable
<1>8. \A u \in Readable(after) \ {slot} :
        after[u].generation < after[slot].generation
  <2> SUFFICES ASSUME NEW u \in Readable(after), u # slot
               PROVE  after[u].generation < after[slot].generation
    OBVIOUS
  <2>1. u = other
    BY <1>1 DEF Readable
  <2> QED
    BY <1>2, <1>4, <1>5, <2>1
<1>9. Loaded(after) = Record(after[slot]) /\ Loaded(after) \in Records
  BY <1>2, <1>3, <1>6, <1>7, <1>8, LoadsNewest
<1> QED
  BY <1>2, <1>3, <1>6, <1>9

LEMMA AfterTear ==
  ASSUME NEW slots \in AnySlots, WrittenInTurn(slots), NEW slot \in Slots,
         NEW after, after = [slots EXCEPT ![slot] = Torn]
  PROVE  /\ after \in AnySlots /\ WrittenInTurn(after)
         /\ Readable(after) = Readable(slots) \ {slot}
<1>1. Torn \in Contents /\ Torn.form = "torn"
  BY DEF Contents, Torn, Content
<1>2. /\ after \in AnySlots /\ after[slot] = Torn
      /\ \A u \in Slots \ {slot} : after[u] = slots[u]
  BY <1>1 DEF AnySlots
<1>3. Readable(after) = Readable(slots) \ {slot}
  BY <1>1, <1>2 DEF Readable
<1>4. WrittenInTurn(after)
  <2> SUFFICES ASSUME NEW s \in Slots, NEW u \in Readable(after), s # u
               PROVE  /\ s \in Readable(after) =>
                           after[s].generation - after[u].generation \in {-1, 1}
                      /\ after[s].form = "future" =>
                           after[u].generation < after[s].generation
    BY DEF WrittenInTurn
  <2>1. u \in Readable(slots) /\ u # slot /\ u \in Slots
    BY <1>3 DEF Readable
  <2>2. CASE s = slot
    BY <1>1, <1>2, <1>3, <2>2
  <2>3. CASE s # slot
    BY <1>2, <1>3, <2>1, <2>3 DEF WrittenInTurn
  <2> QED
    BY <2>2, <2>3
<1> QED
  BY <1>2, <1>3, <1>4

(* Tearing the slot that is not loaded loses nothing. *)
LEMMA AfterTearOfOlder ==
  ASSUME NEW slots \in AnySlots, WrittenInTurn(slots), NEW slot \in Slots,
         \/ \A s \in Slots : slots[s] = Empty
         \/ Loaded(slots) # None /\ Newest(slots) = Opposite(slot),
         NEW after, after = [slots EXCEPT ![slot] = Torn]
  PROVE  Loaded(after) = Loaded(slots)
<1>1. /\ after \in AnySlots /\ WrittenInTurn(after)
      /\ Readable(after) = Readable(slots) \ {slot}
  BY AfterTear
<1>2. CASE \A s \in Slots : slots[s] = Empty
  <2>1. Readable(slots) = {} /\ Readable(after) = {}
    BY <1>1, <1>2 DEF Readable, Empty, Content
  <2>2. LoadStatus(slots) # "loaded" /\ LoadStatus(after) # "loaded"
    BY <2>1 DEF LoadStatus
  <2> QED
    BY <2>2 DEF Loaded
<1>3. CASE Loaded(slots) # None /\ Newest(slots) = Opposite(slot)
  <2> DEFINE other == Opposite(slot)
  <2>1. other \in Slots /\ other # slot /\ \A u \in Slots : u \in {slot, other}
    BY Opposites
  <2>2. /\ other \in Readable(slots) /\ Loaded(slots) = Record(slots[other])
        /\ \A s \in Slots : slots[s].form # "future"
    BY <1>3, LoadedIs
  <2> HIDE DEF other
  <2>3. after[other] = slots[other] /\ after[slot] = Torn
    BY <2>1 DEF AnySlots
  <2>4. Readable(after) = {other}
    BY <1>1, <2>1, <2>2 DEF Readable
  <2>5. \A s \in Slots : after[s].form # "future"
    BY <2>1, <2>2, <2>3 DEF Torn, Content
  <2>6. Loaded(after) = Record(after[other])
    BY <1>1, <2>4, <2>5, LoadsNewest
  <2> QED
    BY <2>2, <2>3, <2>6
<1> QED
  BY <1>2, <1>3

-----------------------------------------------------------------------------
LEMMA RequestsAreTyped ==
  ASSUME Types, NEW t \in Tasks, NEW request \in Requests(t)
  PROVE  request \in AllRequests
<1>1. KnownRevision(t) \in 0 .. MaxRevision
  BY StoreConstants DEF KnownRevision, Types, Records, Snapshots
<1>2. \A revision \in 0 .. MaxRevision :
        NextRevision(revision) \in 0 .. MaxRevision
  BY StoreConstants DEF NextRevision
<1>3. (IF known[t] = None THEN EmptyJournal ELSE known[t].data.occ) \in Journals
  BY StoreConstants DEF Types, Records, Snapshots
<1>4. \A defs \in Schedules : SaveRequest(t, defs) \in SaveRequests
  BY <1>1, <1>2, <1>3 DEF SaveRequest, SaveRequests
<1>5. known[t] # None =>
        \A occ \in Journals : JournalRequest(t, occ) \in JournalRequests
  BY DEF Types, Records, Snapshots, JournalRequest, JournalRequests
<1> QED
  BY <1>4, <1>5 DEF Requests, AllRequests

(* A request is the same as long as its caller learns nothing. *)
LEMMA RequestsStay ==
  ASSUME NEW t \in Tasks, known'[t] = known[t]
  PROVE  Requests(t)' = Requests(t)
  BY DEF Requests, SaveRequest, JournalRequest, KnownRevision

LEMMA InitIInv == Init => IInv
<1> SUFFICES ASSUME Init PROVE IInv
  OBVIOUS
<1>1. Types
  <2>1. IdleTask \in TaskStates
    BY DEF IdleTask, TaskStates, Results
  <2>2. flash \in [Slots -> Contents] /\ view \in [Slots -> Contents]
    BY StoreConstants DEF Init
  <2>3. boot \in 1 .. MaxBoots /\ rot \in 0 .. MaxRot
    BY StoreConstants DEF Init
  <2>4. task \in [Tasks -> TaskStates] /\ known \in [Tasks -> {None}]
    BY <2>1 DEF Init
  <2> QED
    BY <2>2, <2>3, <2>4 DEF Init, Types
<1>2. WrittenInTurn(flash)
  BY DevicesWereWrittenInTurn DEF Init
<1>3. \A t \in Tasks : task[t] = IdleTask /\ known[t] = None
  BY DEF Init
<1> QED
  BY <1>1, <1>2, <1>3
  DEF IInv, Init, Locked, FromKnown, Verifiable, Truthful, IdleTask

(* A step of a task that leaves the slots alone. *)
LEMMA TaskMoves ==
  ASSUME IInv, NEW t \in Tasks, NEW next \in TaskStates,
         task' = [task EXCEPT ![t] = next],
         UNCHANGED <<flash, view, initialized, uncertain, known, boot, rot>>,
         owner' = t, \A u \in Tasks : task[u].pc # "idle" => u = t,
         next.pc # "verify", next.pc \in {"read", "write"} => ~uncertain,
         next.pc \in {"read", "write"} => next.request \in Requests(t),
         next.pc = "write" => Planned(next),
         rot = 0 => Truthful(next)
  PROVE  IInv'
<1>1. /\ task'[t] = next
      /\ \A u \in Tasks \ {t} : task'[u] = task[u] /\ task[u].pc = "idle"
  BY DEF IInv, Types
<1>2. Types'
  BY DEF IInv, Types
<1>3. WrittenInTurn(flash)'
  BY DEF IInv
<1>4. Locked'
  BY <1>1 DEF IInv, Locked
<1>5. FromKnown'
  <2>1. \A u \in Tasks : Requests(u)' = Requests(u)
    BY RequestsStay
  <2> QED
    BY <1>1, <2>1 DEF IInv, FromKnown
<1>6. (\A u \in Tasks :
         (task[u].pc = "write" => Planned(task[u])) /\ Verifiable(task[u]))'
  BY <1>1 DEF IInv, Planned, Verifiable
<1>7. (rot = 0 => \A u \in Tasks :
         Truthful(task[u]) /\ (known[u] # None => Survives(known[u])))'
  BY <1>1 DEF IInv, Truthful, Survives
<1> QED
  BY <1>2, <1>3, <1>4, <1>5, <1>6, <1>7 DEF IInv

LEMMA BeginKeeps ==
  ASSUME IInv, NEW t \in Tasks, Begin(t)
  PROVE  IInv'
<1>1. PICK request \in Requests(t) :
        task' = [task EXCEPT ![t].pc = "read", ![t].request = request]
  BY DEF Begin
<1> DEFINE next == [task[t] EXCEPT !.pc = "read", !.request = request]
<1>2. task[t] \in TaskStates /\ request \in AllRequests
  BY RequestsAreTyped DEF IInv, Types
<1>3. /\ next \in TaskStates /\ next.pc = "read" /\ next.request = request
      /\ task' = [task EXCEPT ![t] = next]
  BY <1>1, <1>2 DEF TaskStates, IInv, Types
<1>4. \A u \in Tasks : task[u].pc = "idle"
  BY StoreConstants DEF Begin, MayBegin, IInv, Locked
<1>5. Truthful(next)
  BY <1>3 DEF Truthful
<1>6. /\ owner' = t /\ ~uncertain
      /\ UNCHANGED <<flash, view, initialized, uncertain, known, boot, rot>>
  BY DEF Begin, MayBegin
<1> HIDE DEF next
<1> QED
  BY <1>3, <1>4, <1>5, <1>6, TaskMoves

LEMMA ReadSlotsKeeps ==
  ASSUME IInv, NEW t \in Tasks, ReadSlots(t)
  PROVE  IInv'
<1>1. /\ task[t].pc = "read" /\ ~uncertain /\ view = flash /\ owner = t
      /\ task[t] \in TaskStates /\ task[t].request \in Requests(t)
      /\ task[t].request \in AllRequests
      /\ flash \in AnySlots /\ WrittenInTurn(flash)
  BY RequestsAreTyped
  DEF ReadSlots, IInv, Types, Locked, FromKnown, AnySlots
<1>2. /\ owner' = t
      /\ \A u \in Tasks : task[u].pc # "idle" => u = t
      /\ UNCHANGED <<flash, view, initialized, uncertain, known, boot, rot>>
  BY <1>1 DEF ReadSlots, IInv, Locked
<1> DEFINE verdict == Verdict(flash, task[t].request)
<1>3. CASE Finish(t, "io_error")
  <2> DEFINE next == [task[t] EXCEPT !.pc = "end", !.result = "io_error"]
  <2>1. /\ next \in TaskStates /\ task' = [task EXCEPT ![t] = next]
        /\ next.pc = "end" /\ next.result = "io_error"
    BY <1>1, <1>3 DEF TaskStates, Results, Finish, IInv, Types
  <2>2. Truthful(next)
    BY <2>1 DEF Truthful, Telling
  <2> HIDE DEF next
  <2> QED
    BY <1>2, <2>1, <2>2, TaskMoves
<1>4. CASE /\ verdict.status = "write"
           /\ task' = [task EXCEPT ![t].pc = "write", ![t].write = verdict]
  <2> DEFINE next == [task[t] EXCEPT !.pc = "write", !.write = verdict]
  <2>1. PICK data \in Snapshots :
          verdict = Replace(flash, data) /\ ~Broken(flash)
    BY <1>1, <1>4, VerdictIs DEF Refusals
  <2>2. /\ verdict \in Writes /\ verdict.content.form = "v2"
        /\ \A s \in Slots : flash[s].form # "future"
        /\ Loaded(flash) = None => \A s \in Slots : flash[s] = Empty
        /\ Loaded(flash) # None =>
             /\ Opposite(verdict.slot) = Newest(flash)
             /\ verdict.content.generation = Loaded(flash).generation + 1
    BY <1>1, <1>4, <2>1, ReplaceIs
  <2> HIDE DEF verdict
  <2>3. Opposite(verdict.slot) \in Readable(flash) =>
          verdict.content.generation =
            flash[Opposite(verdict.slot)].generation + 1
    <3>1. CASE Loaded(flash) = None
      BY <2>2, <3>1 DEF Readable, Empty, Content
    <3>2. CASE Loaded(flash) # None
      <4>1. Loaded(flash) = Record(flash[Newest(flash)])
        BY <1>1, <3>2, LoadedIs
      <4> QED
        BY <2>2, <3>2, <4>1 DEF Record
    <3> QED
      BY <3>1, <3>2
  <2>4. /\ next \in TaskStates /\ task' = [task EXCEPT ![t] = next]
        /\ next.pc = "write" /\ next.write = verdict
        /\ next.request = task[t].request
    BY <1>1, <1>4, <2>2 DEF TaskStates, IInv, Types
  <2> HIDE DEF next
  <2>5. Planned(next)
    BY <2>2, <2>3, <2>4 DEF Planned, verdict
  <2>6. Truthful(next)
    BY <2>4 DEF Truthful
  <2> QED
    BY <1>1, <1>2, <2>4, <2>5, <2>6, TaskMoves
<1>5. CASE /\ verdict.status # "write"
           /\ task' = [task EXCEPT ![t].pc = "end",
                                   ![t].result = verdict.status,
                                   ![t].found = Loaded(flash)]
  <2> DEFINE next == [task[t] EXCEPT !.pc = "end",
                        !.result = verdict.status, !.found = Loaded(flash)]
  <2>1. verdict.status \in Results
    BY <1>1, <1>5, VerdictIs DEF Results
  <2>2. Loaded(flash) \in Records \cup {None}
    BY <1>1, LoadedIs
  <2> HIDE DEF verdict
  <2>3. /\ next \in TaskStates /\ task' = [task EXCEPT ![t] = next]
        /\ next.pc = "end" /\ next.found = Loaded(flash)
    BY <1>1, <1>5, <2>1, <2>2 DEF TaskStates, IInv, Types
  <2> HIDE DEF next
  <2>4. Truthful(next)
    BY <2>3 DEF Truthful
  <2> QED
    BY <1>2, <2>3, <2>4, TaskMoves
<1> QED
  BY <1>1, <1>3, <1>4, <1>5 DEF ReadSlots

(* A record that is newer than the one loaded survives what it did. *)
LEMMA SurvivesNewer ==
  ASSUME IInv, NEW old \in Records, Survives(old), NEW now \in Records,
         now.generation > Loaded(flash).generation, Loaded(flash') = now
  PROVE  Survives(old)'
<1>1. /\ Loaded(flash).generation \in Nat /\ now.generation \in Nat
      /\ old.generation \in Nat
  <2>1. Loaded(flash) \in Records
    BY LoadedIs DEF IInv, Types, AnySlots, Survives
  <2> QED
    BY <2>1 DEF Records
<1>2. now # None
  BY NoneIsNoRecord
<1> QED
  BY <1>1, <1>2 DEF Survives

LEMMA WriteSlotKeeps ==
  ASSUME IInv, NEW t \in Tasks, WriteSlot(t)
  PROVE  IInv'
<1> DEFINE slot == task[t].write.slot
           new  == task[t].write.content
<1>1. /\ task[t].pc = "write" /\ owner = t /\ ~uncertain /\ view = flash
      /\ task[t] \in TaskStates /\ Planned(task[t])
      /\ flash \in AnySlots /\ WrittenInTurn(flash)
      /\ task[t].request \in AllRequests
      /\ \A u \in Tasks : task[u].pc # "idle" => u = t
  BY RequestsAreTyped
  DEF WriteSlot, IInv, Types, Locked, FromKnown, AnySlots
<1>2. /\ slot \in Slots /\ new \in Contents /\ new.form = "v2"
      /\ task[t].write.status = "write"
      /\ \A s \in Slots : flash[s].form # "future"
      /\ Opposite(slot) \in Readable(flash) =>
           new.generation = flash[Opposite(slot)].generation + 1
  BY <1>1 DEF Planned, Writes
<1>3. rot = 0 =>
        /\ ~Broken(flash)
        /\ Loaded(flash) = None => \A s \in Slots : flash[s] = Empty
        /\ Loaded(flash) # None =>
             /\ Opposite(slot) = Newest(flash)
             /\ new.generation = Loaded(flash).generation + 1
  <2> SUFFICES ASSUME rot = 0
               PROVE  /\ ~Broken(flash)
                      /\ Loaded(flash) = None =>
                           \A s \in Slots : flash[s] = Empty
                      /\ Loaded(flash) # None =>
                           /\ Opposite(slot) = Newest(flash)
                           /\ new.generation = Loaded(flash).generation + 1
    OBVIOUS
  <2>1. task[t].write = Verdict(flash, task[t].request)
    BY <1>1 DEF Planned
  <2>2. PICK data \in Snapshots :
          task[t].write = Replace(flash, data) /\ ~Broken(flash)
    BY <1>1, <1>2, <2>1, VerdictIs DEF Refusals
  <2> QED
    BY <1>1, <1>2, <2>2, ReplaceIs
<1> HIDE DEF slot, new
<1>4. /\ UNCHANGED <<initialized, owner, known, boot, rot>>
      /\ \A u \in Tasks : Requests(u)' = Requests(u)
  BY RequestsStay DEF WriteSlot
<1>5. ASSUME NEW after, after = [flash EXCEPT ![slot] = new], rot = 0,
             NEW u \in Tasks, known[u] # None, flash' = after
      PROVE  Survives(known[u])'
  <2>1. Loaded(after) = Record(new) /\ Loaded(after) \in Records
    BY <1>1, <1>2, <1>5, AfterWrite
  <2>2. PICK old \in Records : old = known[u] /\ Survives(old)
    BY <1>5 DEF IInv, Types
  <2>3. Loaded(flash) # None /\ Loaded(flash) \in Records
    BY <1>1, <2>2, LoadedIs DEF Survives
  <2>4. Loaded(after).generation = Loaded(flash).generation + 1
    BY <1>3, <1>5, <2>1, <2>3 DEF Record
  <2>5. Loaded(after).generation > Loaded(flash).generation
    BY <2>3, <2>4 DEF Records
  <2>6. Survives(old)'
    BY <1>5, <2>1, <2>2, <2>5, SurvivesNewer
  <2> QED
    BY <1>4, <2>2, <2>6 DEF Survives
<1>6. CASE /\ flash' = [flash EXCEPT ![slot] = new]
           /\ view' = [view EXCEPT ![slot] = new]
           /\ task' = [task EXCEPT ![t].pc = "verify"]
           /\ UNCHANGED uncertain
  <2> DEFINE next == [task[t] EXCEPT !.pc = "verify"]
  <2>1. /\ next \in TaskStates /\ next.pc = "verify"
        /\ next.write = task[t].write
        /\ task'[t] = next /\ \A u \in Tasks \ {t} : task'[u] = task[u]
        /\ task' \in [Tasks -> TaskStates]
    BY <1>1, <1>6 DEF TaskStates, IInv, Types
  <2> HIDE DEF next
  <2>2. /\ flash' \in AnySlots /\ WrittenInTurn(flash')
        /\ Loaded(flash') = Record(new)
    BY <1>1, <1>2, <1>6, AfterWrite
  <2>3. Types'
    BY <1>1, <1>4, <1>6, <2>1, <2>2 DEF IInv, Types, AnySlots
  <2>4. Locked'
    BY <1>1, <1>4, <1>6, <2>1 DEF Locked
  <2>5. FromKnown'
    BY <1>1, <1>4, <2>1 DEF FromKnown
  <2>6. \A u \in Tasks : task'[u].pc # "write"
    BY <1>1, <2>1
  <2>7. \A u \in Tasks : Verifiable(task[u])' /\ Truthful(task[u])'
    BY <1>1, <1>2, <2>1, <2>2 DEF Verifiable, Truthful, Planned, new
  <2>8. rot = 0 => \A u \in Tasks : known'[u] # None => Survives(known[u])'
    BY <1>5, <1>4, <1>6
  <2> QED
    BY <1>4, <2>2, <2>3, <2>4, <2>5, <2>6, <2>7, <2>8 DEF IInv
<1>7. CASE /\ \E durable \in {flash[slot], new, Torn} :
                flash' = [flash EXCEPT ![slot] = durable]
           /\ \E visible \in {view[slot], new} :
                view' = [view EXCEPT ![slot] = visible]
           /\ Finish(t, "io_error") /\ LatchUncertain
  <2> DEFINE next == [task[t] EXCEPT !.pc = "end", !.result = "io_error"]
  <2>1. /\ next \in TaskStates /\ next.pc = "end" /\ next.result = "io_error"
        /\ task'[t] = next /\ \A u \in Tasks \ {t} : task'[u] = task[u]
        /\ task' \in [Tasks -> TaskStates] /\ uncertain' = TRUE
    BY <1>1, <1>7 DEF TaskStates, Results, Finish, LatchUncertain, IInv, Types
  <2> HIDE DEF next
  <2>2. view' \in [Slots -> Contents]
    BY <1>2, <1>7 DEF IInv, Types
  <2>3. \/ flash' = flash
        \/ flash' = [flash EXCEPT ![slot] = new]
        \/ flash' = [flash EXCEPT ![slot] = Torn]
    <3>1. PICK durable \in {flash[slot], new, Torn} :
            flash' = [flash EXCEPT ![slot] = durable]
      BY <1>7
    <3>2. flash = [flash EXCEPT ![slot] = flash[slot]]
      BY <1>1 DEF AnySlots
    <3> QED
      BY <3>1, <3>2
  <2>4. /\ flash' \in AnySlots /\ WrittenInTurn(flash')
        /\ rot = 0 => \A u \in Tasks : known[u] # None => Survives(known[u])'
    <3>1. CASE flash' = flash
      BY <1>1, <1>4, <3>1 DEF IInv, Survives
    <3>2. CASE flash' = [flash EXCEPT ![slot] = new]
      BY <1>1, <1>2, <1>5, <3>2, AfterWrite
    <3>3. CASE flash' = [flash EXCEPT ![slot] = Torn]
      <4>1. flash' \in AnySlots /\ WrittenInTurn(flash')
        BY <1>1, <1>2, <3>3, AfterTear
      <4>2. ASSUME rot = 0 PROVE Loaded(flash') = Loaded(flash)
        BY <1>1, <1>2, <1>3, <3>3, <4>2, AfterTearOfOlder
      <4> QED
        BY <1>4, <4>1, <4>2 DEF IInv, Survives
    <3> QED
      BY <2>3, <3>1, <3>2, <3>3
  <2>5. Types'
    BY <1>1, <1>4, <2>1, <2>2, <2>4 DEF IInv, Types, AnySlots
  <2>6. Locked' /\ FromKnown'
    BY <1>1, <1>4, <2>1 DEF Locked, FromKnown
  <2>7. \A u \in Tasks : task'[u].pc # "write"
    BY <1>1, <2>1
  <2>8. \A u \in Tasks : Verifiable(task[u])' /\ Truthful(task[u])'
    BY <1>1, <2>1 DEF Verifiable, Truthful, Telling
  <2> QED
    BY <1>4, <2>4, <2>5, <2>6, <2>7, <2>8 DEF IInv
<1> QED
  BY <1>6, <1>7 DEF WriteSlot, slot, new

LEMMA VerifyKeeps ==
  ASSUME IInv, NEW t \in Tasks, Verify(t)
  PROVE  IInv'
<1> DEFINE new == task[t].write.content
<1>1. /\ task[t].pc = "verify" /\ ~uncertain /\ view = flash /\ owner = t
      /\ task[t] \in TaskStates
      /\ flash \in AnySlots /\ WrittenInTurn(flash)
  BY DEF Verify, IInv, Types, Locked, AnySlots
<1>2. /\ owner' = t
      /\ \A u \in Tasks : task[u].pc # "idle" => u = t
      /\ UNCHANGED <<flash, view, initialized, uncertain, known, boot, rot>>
  BY <1>1 DEF Verify, IInv, Locked
<1>3. ASSUME NEW result \in {"io_error", "verification_failed"},
             Finish(t, result)
      PROVE  IInv'
  <2> DEFINE next == [task[t] EXCEPT !.pc = "end", !.result = result]
  <2>1. /\ next \in TaskStates /\ task' = [task EXCEPT ![t] = next]
        /\ next.pc = "end" /\ next.result = result
    BY <1>1, <1>3 DEF TaskStates, Results, Finish, IInv, Types
  <2>2. Truthful(next)
    BY <2>1 DEF Truthful, Telling
  <2> HIDE DEF next
  <2> QED
    BY <1>2, <2>1, <2>2, TaskMoves
<1>4. CASE task' = [task EXCEPT ![t].pc = "end", ![t].result = "stored",
                                ![t].found = Record(new)]
  <2> DEFINE next == [task[t] EXCEPT !.pc = "end", !.result = "stored",
                                     !.found = Record(new)]
  <2>1. /\ new \in Contents /\ new.form = "v2"
        /\ rot = 0 => Loaded(flash) = Record(new)
    BY <1>1 DEF IInv, Verifiable, Truthful, Writes
  <2>2. Record(new) \in Records
    BY <2>1, ContentFields
  <2> HIDE DEF new
  <2>3. /\ next \in TaskStates /\ task' = [task EXCEPT ![t] = next]
        /\ next.pc = "end" /\ next.found = Record(new)
    BY <1>1, <1>4, <2>2 DEF TaskStates, Results, IInv, Types
  <2> HIDE DEF next
  <2>4. rot = 0 => Truthful(next)
    BY <2>1, <2>3 DEF Truthful
  <2> QED
    BY <1>2, <2>3, <2>4, TaskMoves
<1> QED
  BY <1>3, <1>4 DEF Verify

LEMMA InitializeKeeps ==
  ASSUME IInv, Initialize
  PROVE  IInv'
<1>1. UNCHANGED <<flash, view, uncertain, owner, task, known, boot, rot>>
  BY DEF Initialize
<1>2. Types' /\ Locked'
  BY <1>1 DEF Initialize, IInv, Types, Locked
<1>3. FromKnown'
  BY <1>1, RequestsStay DEF IInv, FromKnown
<1> QED
  BY <1>1, <1>2, <1>3 DEF IInv, Planned, Verifiable, Truthful, Survives

(* What a call tells its caller is what the slots hold. *)
LEMMA ReturnKeeps ==
  ASSUME IInv, NEW t \in Tasks, Return(t)
  PROVE  IInv'
<1>1. /\ task[t].pc = "end" /\ task[t] \in TaskStates
      /\ UNCHANGED <<flash, view, initialized, uncertain, boot, rot>>
      /\ owner' = None
      /\ \A u \in Tasks : task[u].pc # "idle" => u = t
  BY DEF Return, IInv, Types, Locked
<1>2. /\ IdleTask \in TaskStates
      /\ task' = [task EXCEPT ![t] = IdleTask]
      /\ \A u \in Tasks : task'[u].pc = "idle"
  BY <1>1 DEF Return, IdleTask, TaskStates, Results, IInv, Types
<1>3. \/ known' = known
      \/ /\ task[t].result \in Telling /\ task[t].found # None
         /\ known' = [known EXCEPT ![t] = task[t].found]
  BY DEF Return, Telling
<1>4. Types'
  BY <1>1, <1>2, <1>3 DEF IInv, Types, TaskStates
<1>5. Locked' /\ FromKnown'
  BY <1>1, <1>2 DEF IInv, Locked, FromKnown
<1>6. (\A u \in Tasks :
         /\ task[u].pc = "write" => Planned(task[u])
         /\ Verifiable(task[u]) /\ Truthful(task[u]))'
  BY <1>2 DEF Verifiable, Truthful
<1>7. rot = 0 => \A u \in Tasks : known'[u] # None => Survives(known[u])'
  <2> SUFFICES ASSUME rot = 0, NEW u \in Tasks, known'[u] # None
               PROVE  Survives(known[u])'
    OBVIOUS
  <2>1. CASE known'[u] = known[u]
    BY <1>1, <2>1 DEF IInv, Survives
  <2>2. CASE known'[u] # known[u]
    <3>1. known'[u] = task[t].found /\ task[t].found = Loaded(flash)
      BY <1>1, <1>3, <2>2 DEF IInv, Types, Truthful
    <3>2. Loaded(flash) \in Records /\ Loaded(flash) # None
      BY <3>1, LoadedIs DEF IInv, Types, AnySlots
    <3>3. Loaded(flash').generation >= Loaded(flash).generation
      BY <1>1, <3>2 DEF Records
    <3> QED
      BY <1>1, <3>1, <3>2, <3>3 DEF Survives
  <2> QED
    BY <2>1, <2>2
<1> QED
  BY <1>1, <1>4, <1>5, <1>6, <1>7 DEF IInv

LEMMA RebootKeeps ==
  ASSUME IInv, Reboot
  PROVE  IInv'
<1>1. /\ view' = flash /\ UNCHANGED <<flash, rot>>
      /\ uncertain' = FALSE /\ initialized' = FALSE /\ owner' = None
      /\ boot' = boot + 1 /\ boot < MaxBoots
  BY DEF Reboot
<1>2. /\ IdleTask \in TaskStates
      /\ task' \in [Tasks -> TaskStates] /\ known' \in [Tasks -> {None}]
      /\ \A u \in Tasks : task'[u].pc = "idle" /\ known'[u] = None
  BY DEF Reboot, IdleTask, TaskStates, Results
<1>3. Types'
  <2>1. known' \in [Tasks -> Records \cup {None}]
    BY <1>2
  <2>2. boot' \in 1 .. MaxBoots
    BY <1>1, StoreConstants DEF IInv, Types
  <2> QED
    BY <1>1, <1>2, <2>1, <2>2 DEF IInv, Types
<1>4. Locked' /\ FromKnown'
  BY <1>1, <1>2 DEF Locked, FromKnown
<1>5. WrittenInTurn(flash)'
  BY <1>1 DEF IInv
<1>6. (\A u \in Tasks :
         /\ task[u].pc = "write" => Planned(task[u])
         /\ Verifiable(task[u]) /\ Truthful(task[u]))'
  BY <1>2 DEF Verifiable, Truthful
<1>7. \A u \in Tasks : known'[u] # None => Survives(known[u])'
  BY <1>2
<1> QED
  BY <1>3, <1>4, <1>5, <1>6, <1>7 DEF IInv

(* A rotten slot leaves the other one as it was. *)
LEMMA RotKeeps ==
  ASSUME IInv, NEW slot \in Slots, Rot(slot)
  PROVE  IInv'
<1>1. /\ flash' = [flash EXCEPT ![slot] = Torn]
      /\ view' = [view EXCEPT ![slot] = Torn]
      /\ rot' = rot + 1 /\ rot < MaxRot
      /\ UNCHANGED <<initialized, uncertain, owner, task, known, boot>>
      /\ flash \in AnySlots /\ WrittenInTurn(flash)
  BY DEF Rot, IInv, Types, AnySlots
<1>2. /\ flash' \in AnySlots /\ WrittenInTurn(flash')
      /\ Readable(flash') = Readable(flash) \ {slot}
  BY <1>1, AfterTear
<1>3. Torn \in Contents /\ Torn.form = "torn"
  BY DEF Contents, Torn, Content
<1>4. Types'
  BY <1>1, <1>2, <1>3, StoreConstants DEF IInv, Types, AnySlots
<1>5. Locked'
  BY <1>1 DEF IInv, Locked
<1>6. FromKnown'
  BY <1>1, RequestsStay DEF IInv, FromKnown
<1>7. rot' # 0
  BY <1>1 DEF IInv, Types
<1>8. ASSUME NEW u \in Tasks, task[u].pc = "write"
      PROVE  Planned(task[u])'
  <2>1. Planned(task[u])
    BY <1>8 DEF IInv
  <2>2. \A s \in Slots : flash'[s].form # "future"
    BY <1>1, <1>3, <2>1 DEF Planned, AnySlots
  <2>3. \A s \in Readable(flash') : flash'[s] = flash[s]
    BY <1>1, <1>2 DEF AnySlots, Readable
  <2> QED
    BY <1>1, <1>2, <1>7, <2>1, <2>2, <2>3 DEF Planned
<1>9. (\A u \in Tasks :
         (task[u].pc = "write" => Planned(task[u])) /\ Verifiable(task[u]))'
  BY <1>1, <1>8 DEF IInv, Verifiable
<1> QED
  BY <1>2, <1>4, <1>5, <1>6, <1>7, <1>9 DEF IInv

LEMMA NextIInv == IInv /\ [Next]_vars => IInv'
<1> SUFFICES ASSUME IInv, [Next]_vars PROVE IInv'
  OBVIOUS
<1>1. CASE Initialize
  BY <1>1, InitializeKeeps
<1>2. ASSUME NEW t \in Tasks,
             Begin(t) \/ ReadSlots(t) \/ WriteSlot(t) \/ Verify(t) \/ Return(t)
      PROVE  IInv'
  BY <1>2, BeginKeeps, ReadSlotsKeeps, WriteSlotKeeps, VerifyKeeps,
     ReturnKeeps
<1>3. CASE Reboot
  BY <1>3, RebootKeeps
<1>4. ASSUME NEW slot \in Slots, Rot(slot)
      PROVE  IInv'
  BY <1>4, RotKeeps
<1>5. CASE UNCHANGED vars
  BY <1>5, RequestsStay
  DEF vars, IInv, Types, Locked, FromKnown, Planned, Verifiable, Truthful,
      Survives
<1> QED
  BY <1>1, <1>2, <1>3, <1>4, <1>5 DEF Next

LEMMA SpecIInv == Spec => []IInv
  BY InitIInv, NextIInv, PTL DEF Spec

-----------------------------------------------------------------------------
(* Every variable keeps its type: whatever the power, the medium and the   *)
(* callers do, save, save_occurrence_state and migrate write only records  *)
(* they could read again, with a generation and a revision that fit.       *)
THEOREM TypeCorrectness == Spec => []TypeOK
<1>1. IInv => TypeOK
  BY DEF IInv, Types, TypeOK, TaskStates, Records
<1> QED
  BY <1>1, SpecIInv, PTL

(* The store never makes itself unreadable: load_unlocked finds no two     *)
(* records that disagree under one generation, whatever was cut short.     *)
THEOREM StoreNeverAmbiguous == Spec => []NeverAmbiguous
<1>1. IInv => NeverAmbiguous
  BY NotAmbiguous DEF IInv, Types, AnySlots, NeverAmbiguous
<1> QED
  BY <1>1, SpecIInv, PTL

(* When the newest slot turns out corrupt, the record load_unlocked falls  *)
(* back to is the one right before it: save writes the opposite slot with  *)
(* the next generation, also after a write that failed.                    *)
THEOREM FallsBackByOne == Spec => []FallbackIsPrevious
<1>1. ASSUME IInv PROVE FallbackIsPrevious
  <2> SUFFICES ASSUME Readable(flash) = Slots
               PROVE  \A s \in Slots \ {Newest(flash)} :
                        flash[s].generation =
                          flash[Newest(flash)].generation - 1
    BY DEF FallbackIsPrevious
  <2>1. Readable(flash) # {}
    BY DEF Slots
  <2> QED
    BY <1>1, <2>1, NewestExists DEF IInv, Types, AnySlots
<1> QED
  BY <1>1, SpecIInv, PTL

(* Whatever load, save, save_occurrence_state or migrate ever told a       *)
(* caller is committed survives any later failure of power: until the      *)
(* medium loses a slot, a reboot would load that record or a later one.    *)
THEOREM ReportedSurvives == Spec => []ReportedIsDurable
<1>1. IInv => ReportedIsDurable
  BY DEF IInv, Survives, ReportedIsDurable
<1> QED
  BY <1>1, SpecIInv, PTL

(* A record of a newer schema that load_unlocked would not pass over is    *)
(* never overwritten: replace, migrate and the two saves refuse while one  *)
(* is there, and nothing comes between the refusal and the write.          *)
THEOREM FutureRecordIsKept == Spec => FutureRecordKept
<1>1. /\ IInv /\ [Next]_vars
      => [\A s \in Slots :
            /\ flash[s].form = "future"
            /\ \A u \in Readable(flash) :
                 flash[u].generation <= flash[s].generation
            => flash'[s] = flash[s] \/ rot' > rot]_vars
  <2> SUFFICES ASSUME IInv, Next, NEW s \in Slots, flash[s].form = "future"
               PROVE  flash'[s] = flash[s] \/ rot' > rot
    OBVIOUS
  <2>1. ASSUME NEW t \in Tasks, WriteSlot(t)
        PROVE  FALSE
    BY <2>1 DEF WriteSlot, IInv, Planned
  <2>2. ASSUME NEW slot \in Slots, Rot(slot)
        PROVE  rot' > rot
    BY <2>2 DEF Rot, IInv, Types
  <2> QED
    BY <2>1, <2>2 DEF Next, Initialize, Begin, ReadSlots, Verify, Return,
                      Reboot
<1> QED
  BY <1>1, SpecIInv, PTL DEF Spec, FutureRecordKept

-----------------------------------------------------------------------------
(* Replacing the record of the register is what writing a slot amounts to. *)
LEMMA ReplaceStores ==
  ASSUME NEW slots \in AnySlots, WrittenInTurn(slots), ~Broken(slots),
         NEW data \in Snapshots, NEW write, write = Replace(slots, data),
         write.status = "write",
         NEW after, after = [slots EXCEPT ![write.slot] = write.content]
  PROVE  Loaded(after) =
           [generation |-> IF Loaded(slots) = None THEN 1
                           ELSE Loaded(slots).generation + 1,
            data |-> data]
<1>1. /\ write.slot \in Slots /\ write.content \in Contents
      /\ write.content.form = "v2" /\ write.content.data = data
      /\ \A s \in Slots : slots[s].form # "future"
      /\ Loaded(slots) = None =>
           /\ \A s \in Slots : slots[s] = Empty
           /\ write.content.generation = 1
      /\ Loaded(slots) # None =>
           /\ Opposite(write.slot) = Newest(slots)
           /\ write.content.generation = Loaded(slots).generation + 1
  BY ReplaceIs DEF Writes
<1>2. Opposite(write.slot) \in Readable(slots) =>
        write.content.generation =
          slots[Opposite(write.slot)].generation + 1
  <2>1. CASE Loaded(slots) = None
    BY <1>1, <2>1 DEF Readable, Empty, Content
  <2>2. CASE Loaded(slots) # None
    <3>1. Loaded(slots) = Record(slots[Newest(slots)])
      BY <2>2, LoadedIs
    <3> QED
      BY <1>1, <2>2, <3>1 DEF Record
  <2> QED
    BY <2>1, <2>2
<1>3. Loaded(after) = Record(write.content)
  BY <1>1, <1>2, AfterWrite
<1> QED
  BY <1>1, <1>3 DEF Record

(* A slot that is written is a commit its caller asked for, on the record  *)
(* the caller compared with.                                               *)
LEMMA WriteIsCommit ==
  ASSUME IInv, rot = 0, NEW t \in Tasks, task[t].pc = "write",
         flash' = [flash EXCEPT ![task[t].write.slot] = task[t].write.content],
         known' = known
  PROVE  Register!RegisterNext
<1>1. /\ flash \in AnySlots /\ WrittenInTurn(flash)
      /\ task[t].request \in Requests(t) /\ task[t].request \in AllRequests
      /\ task[t].write = Verdict(flash, task[t].request)
      /\ task[t].write.status = "write"
  BY RequestsAreTyped DEF IInv, Types, AnySlots, FromKnown, Planned, Writes
<1>2. known[t] \in Records \cup {None}
  BY DEF IInv, Types
<1>3. Loaded(flash) # None => Loaded(flash) \in Records
  BY <1>1, LoadedIs
<1>4. ASSUME NEW data \in Snapshots, task[t].write = Replace(flash, data),
             ~Broken(flash)
      PROVE  Register!Stored(data)
  <2>1. Loaded(flash') =
          [generation |-> IF Loaded(flash) = None THEN 1
                          ELSE Loaded(flash).generation + 1,
           data |-> data]
    BY <1>1, <1>4, ReplaceStores
  <2> QED
    BY <2>1 DEF Register!Stored
<1>5. CASE task[t].request = LoadRequest
  <2>1. Verdict(flash, LoadRequest) = Refuse(LoadStatus(flash))
    BY DEF Verdict, LoadRequest
  <2>2. LoadStatus(flash) # "write"
    BY DEF LoadStatus
  <2> QED
    BY <1>1, <1>5, <2>1, <2>2 DEF Refuse
<1>6. CASE task[t].request = MigrateRequest
  <2>1. task[t].write = MigrateVerdict(flash)
    BY <1>1, <1>6 DEF Verdict, MigrateRequest
  <2>2. /\ ~Broken(flash) /\ Loaded(flash) # None
        /\ Loaded(flash).data \in Snapshots
        /\ task[t].write = Replace(flash, Loaded(flash).data)
    BY <1>1, <2>1, MigrateWrites
  <2>3. Register!Stored(Loaded(flash).data)
    BY <1>4, <2>2
  <2> QED
    BY <2>2, <2>3 DEF Register!RegisterNext, Register!Migrate
<1>7. ASSUME NEW defs \in Schedules, task[t].request = SaveRequest(t, defs)
      PROVE  Register!RegisterNext
  <2> DEFINE request == task[t].request
  <2>1. /\ request \in SaveRequests
        /\ request.expected = KnownRevision(t)
        /\ request.snapshot.revision = NextRevision(KnownRevision(t))
        /\ task[t].write = SaveVerdict(flash, request)
    BY <1>1, <1>7
    DEF Verdict, SaveRequest, AllRequests, LoadRequest, MigrateRequest,
        JournalRequests
  <2>2. PICK data \in Snapshots :
          /\ data.revision = request.snapshot.revision
          /\ Loaded(flash) # None => data.occ = Loaded(flash).data.occ
          /\ task[t].write = Replace(flash, data) /\ ~Broken(flash)
          /\ request.expected = IF Loaded(flash) = None THEN 0
                                ELSE Loaded(flash).data.revision
    BY <1>1, <2>1, SaveWrites
  <2> HIDE DEF request
  <2>3. Register!Stored(data)
    BY <1>4, <2>2
  <2>4. data.revision = KnownRevision(t) + 1
    BY <2>1, <2>2, StoreConstants DEF NextRevision, Snapshots
  <2>5. CASE Loaded(flash) = None
    <3>1. known[t] = None /\ data.revision = 1
      BY <1>2, <2>1, <2>2, <2>4, <2>5 DEF KnownRevision, Records, Snapshots
    <3> QED
      BY <2>3, <2>5, <3>1 DEF Register!RegisterNext, Register!FirstSchedule
  <2>6. CASE Loaded(flash) # None
    <3>1. Loaded(flash).data.revision \in 1 .. MaxRevision
      BY <1>3, <2>6 DEF Records, Snapshots
    <3>2. /\ known[t] # None
          /\ known[t].data.revision = Loaded(flash).data.revision
      BY <2>1, <2>2, <2>6, <3>1 DEF KnownRevision
    <3>3. /\ data.revision = Loaded(flash).data.revision + 1
          /\ data.occ = Loaded(flash).data.occ
      BY <2>2, <2>4, <2>6, <3>2 DEF KnownRevision
    <3> QED
      BY <2>3, <2>6, <3>2, <3>3 DEF Register!RegisterNext, Register!Schedule
  <2> QED
    BY <2>5, <2>6
<1>8. ASSUME NEW occ \in Journals, known[t] # None,
             task[t].request = JournalRequest(t, occ)
      PROVE  Register!RegisterNext
  <2> DEFINE data == [Loaded(flash).data EXCEPT !.occ = occ]
  <2>1. /\ task[t].request \in JournalRequests
        /\ task[t].request.generation = known[t].generation
        /\ task[t].request.occ = occ
        /\ task[t].write = JournalVerdict(flash, task[t].request)
    BY <1>1, <1>8
    DEF Verdict, JournalRequest, AllRequests, LoadRequest, MigrateRequest,
        SaveRequests
  <2>2. /\ ~Broken(flash) /\ Loaded(flash) # None
        /\ Loaded(flash).generation = known[t].generation
        /\ data \in Snapshots /\ task[t].write = Replace(flash, data)
    BY <1>1, <2>1, JournalWrites
  <2>3. known[t] = Loaded(flash)
    BY <1>8, <2>2 DEF IInv, Survives
  <2>4. data = [Loaded(flash).data EXCEPT !.occ = data.occ]
    BY <1>3, <2>2 DEF Records, Snapshots
  <2> HIDE DEF data
  <2>5. Register!Stored(data)
    BY <1>4, <2>2
  <2> QED
    BY <2>2, <2>3, <2>4, <2>5 DEF Register!RegisterNext, Register!Journal
<1> QED
  BY <1>1, <1>5, <1>6, <1>7, <1>8 DEF Requests

LEMMA NextIsRegisterStep ==
  ASSUME IInv, [Next]_vars, rot' = 0
  PROVE  Register!RegisterNext \/ UNCHANGED <<Loaded(flash), known>>
<1>1. rot = 0
  <2>1. \A t \in Tasks :
          Begin(t) \/ ReadSlots(t) \/ WriteSlot(t) \/ Verify(t) \/ Return(t)
          => rot' = rot
    BY DEF Begin, ReadSlots, WriteSlot, Verify, Return
  <2>2. Initialize \/ Reboot \/ UNCHANGED vars => rot' = rot
    BY DEF Initialize, Reboot, vars
  <2>3. ~ \E slot \in Slots : Rot(slot)
    BY DEF Rot, IInv, Types
  <2> QED
    BY <2>1, <2>2, <2>3 DEF Next
<1>2. ASSUME NEW t \in Tasks, WriteSlot(t)
      PROVE  Register!RegisterNext \/ UNCHANGED <<Loaded(flash), known>>
  <2> DEFINE slot == task[t].write.slot
             new  == task[t].write.content
  <2>1. /\ task[t].pc = "write" /\ UNCHANGED known /\ Planned(task[t])
        /\ flash \in AnySlots /\ WrittenInTurn(flash) /\ slot \in Slots
        /\ task[t].request \in AllRequests
    BY <1>2, RequestsAreTyped
    DEF WriteSlot, IInv, Types, AnySlots, FromKnown, Planned, Writes
  <2>2. PICK after \in {flash[slot], new, Torn} :
          flash' = [flash EXCEPT ![slot] = after]
    BY <1>2 DEF WriteSlot
  <2>3. CASE after = new
    BY <1>1, <2>1, <2>2, <2>3, WriteIsCommit
  <2>4. CASE after = flash[slot]
    <3>1. flash' = flash
      BY <2>1, <2>2, <2>4 DEF AnySlots
    <3> QED
      BY <2>1, <3>1
  <2>5. CASE after = Torn
    <3>1. task[t].write = Verdict(flash, task[t].request)
      BY <1>1, <2>1 DEF Planned
    <3>2. task[t].write.status = "write"
      BY <2>1 DEF Planned, Writes
    <3>3. PICK data \in Snapshots :
            task[t].write = Replace(flash, data) /\ ~Broken(flash)
      BY <2>1, <3>1, <3>2, VerdictIs DEF Refusals
    <3>4. /\ Loaded(flash) = None => \A s \in Slots : flash[s] = Empty
          /\ Loaded(flash) # None => Newest(flash) = Opposite(slot)
      BY <2>1, <3>2, <3>3, ReplaceIs
    <3>5. Loaded(flash') = Loaded(flash)
      BY <2>1, <2>2, <2>5, <3>4, AfterTearOfOlder
    <3> QED
      BY <2>1, <3>5
  <2> QED
    BY <2>2, <2>3, <2>4, <2>5
<1>3. ASSUME NEW t \in Tasks, Return(t)
      PROVE  Register!RegisterNext \/ UNCHANGED <<Loaded(flash), known>>
  <2>1. /\ UNCHANGED flash /\ task[t].pc = "end"
        /\ \/ known' = known
           \/ /\ task[t].result \in Telling /\ task[t].found # None
              /\ known' = [known EXCEPT ![t] = task[t].found]
    BY <1>3 DEF Return, Telling
  <2>2. CASE known' = known
    BY <2>1, <2>2
  <2>3. CASE known' # known
    <3>1. task[t].found = Loaded(flash)
      BY <1>1, <2>1, <2>3 DEF IInv, Truthful
    <3> QED
      BY <2>1, <2>3, <3>1 DEF Register!RegisterNext, Register!Learn
  <2> QED
    BY <2>2, <2>3
<1>4. CASE Reboot
  <2>1. UNCHANGED flash /\ known' = [t \in Tasks |-> None]
    BY <1>4 DEF Reboot
  <2> QED
    BY <2>1 DEF Register!RegisterNext, Register!Restart
<1>5. ASSUME NEW t \in Tasks, Begin(t) \/ ReadSlots(t) \/ Verify(t)
      PROVE  UNCHANGED <<Loaded(flash), known>>
  BY <1>5 DEF Begin, ReadSlots, Verify
<1>6. CASE Initialize \/ UNCHANGED vars
  BY <1>6 DEF Initialize, vars
<1>7. ~ \E slot \in Slots : Rot(slot)
  BY DEF Rot, IInv, Types
<1> QED
  BY <1>2, <1>3, <1>4, <1>5, <1>6, <1>7 DEF Next

(* The two slots of AtomicScheduleStore, with its retries, refusals and    *)
(* failed writes, are one compare-and-set register: a schedule commit      *)
(* replaces the revision its caller expected and keeps the journal, a      *)
(* journal commit replaces the very record it was derived from and keeps   *)
(* the schedule, until the medium loses a slot.                            *)
THEOREM StoreImplementsRegister == Spec => ImplementsRegister
<1>1. Init => Register!RegisterInit
  <2> SUFFICES ASSUME Init PROVE Register!RegisterInit
    OBVIOUS
  <2>1. IInv
    BY InitIInv
  <2>2. Loaded(flash) \in Records \cup {None}
    BY <2>1, LoadedIs DEF IInv, Types, AnySlots
  <2> QED
    BY <2>2, StoreConstants DEF Init, Register!RegisterInit, Records
<1>2. /\ IInv /\ [Next]_vars
      => [rot' = 0 => Register!RegisterNext]_<<Loaded(flash), known>>
  BY NextIsRegisterStep
<1> QED
  BY <1>1, <1>2, SpecIInv, PTL DEF Spec, ImplementsRegister
=============================================================================
