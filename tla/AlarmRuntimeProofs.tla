------------------------- MODULE AlarmRuntimeProofs -------------------------
(***************************************************************************)
(* For every instance of AlarmRuntime, any number of alarms, reboots and   *)
(* storage failures, with tick, disable and schedule commits interleaved   *)
(* at their storage calls: whatever was computed from an earlier load and  *)
(* is still to be saved is either what the record decides now, or refused. *)
(***************************************************************************)
EXTENDS AlarmRuntime, AlarmEngineProofs, FiniteMinimum

Schedules == [AlarmIds -> AlarmDefinitions \cup {None}]
Edges     == [edge : {"start", "stop"}, who : OccurrenceIds]

(* IsCommitted of a given schedule. *)
CommittedIn(defs, occ) ==
  /\ defs[occ.alarm] # None
  /\ defs[occ.alarm].enabled
  /\ occ = MakeOccurrenceId(occ.alarm, defs[occ.alarm])

(* A transition decides a journal s, of which done have outcomes, on a     *)
(* schedule: the active occurrence goes on or ends, or an idle journal     *)
(* admits or misses what the schedule has armed.                           *)
Decides(s, defs, done, next) ==
  \/ /\ s.active # None
     /\ ContinuesOrEnds(s, next.occ)
     /\ next.outcomes = IF next.occ.active = None
                        THEN {s.active.occurrence_id} ELSE {}
  \/ /\ s.active = None
     /\ Good(next.occ, done \cup next.outcomes)
     /\ \A occ \in next.outcomes : CommittedIn(defs, occ)
     /\ next.occ.active # None =>
          /\ CommittedIn(defs, next.occ.active.occurrence_id)
          /\ next.occ.active.occurrence_id \notin done \cup next.outcomes

(* The occurrence that a state lets ring, if any. *)
Rings(s) == IF IsRinging(s) THEN s.active.occurrence_id ELSE None

(* A transition that waits for its save: the store would agree to write    *)
(* it, and its edge tells what the state will ring.                        *)
Written(next) ==
  /\ Storable(next.occ)
  /\ next.edge \in {"start", "stop", "none"}
  /\ next.edge # "none" => next.who \in OccurrenceIds
  /\ Rings(next.occ) = IF next.edge = "start" THEN next.who ELSE None

(* It decides the record, unless the record has changed since the load.    *)
Awaits(revision, generation, next) ==
  /\ Written(next)
  /\ generation <= disk.generation
  /\ revision = disk.revision /\ generation = disk.generation =>
       Decides(disk.occ, disk.defs, ended, next)

Saving == {"settle", "batch", "save"}

TickTyped ==
  tick \in [pc : Saving \cup {"idle", "reconcile", "evaluate", "expose"},
            revision : Nat, generation : Nat, queue : Seq(AlarmIds),
            defs : {tick.defs}, next : {tick.next}, edges : Seq(Edges)]

TickPending ==
  IF tick.pc \in Saving
  THEN Awaits(tick.revision, tick.generation, tick.next)
  ELSE tick.next = NoTransition

(* The schedule that is evaluated is the committed one of its revision.    *)
TickSchedule ==
  tick.pc = "save" =>
    /\ tick.defs \in Schedules
    /\ \A i \in 1 .. Len(tick.queue) : tick.defs[tick.queue[i]] # None
    /\ tick.revision <= disk.revision
    /\ tick.revision = disk.revision => tick.defs = disk.defs

DisableTyped ==
  disable \in [pc : {"idle", "dismiss", "define", "expose"},
               id : AlarmIds \cup {None}, revision : Nat, generation : Nat,
               defs : {disable.defs}, next : {disable.next}]

DisablePending ==
  /\ disable.pc \in {"dismiss", "define"} =>
       /\ disable.defs \in Schedules
       /\ disable.revision < MaxRevision
  /\ disable.pc = "dismiss" =>
       /\ disable.id \in AlarmIds /\ disable.defs[disable.id] # None
       /\ Awaits(disable.revision, disable.generation, disable.next)

(* The committed record. *)
Record ==
  /\ disk \in [revision : 1 .. MaxRevision, defs : Schedules,
               occ : {disk.occ}, generation : Nat \ {0}]
  /\ Good(disk.occ, ended)
  /\ Storable(disk.occ)

Surroundings ==
  /\ fault \in BOOLEAN /\ failures \in 0 .. MaxFailures
  /\ clock \in [wall : Nat, mono : Nat, valid : BOOLEAN, boot : 1 .. MaxBoots,
                off : Nat]
  /\ coord \in [handled : Nat \cup {None}, pending : BOOLEAN]
  /\ report \in {"none", "frozen", "blocked", "evaluated", "error", "conflict"}
  /\ alert \in OccurrenceIds \cup {None}

TickInv    == TickTyped /\ TickPending /\ TickSchedule
DisableInv == DisableTyped /\ DisablePending

(* The inductive invariant. *)
IInv == Record /\ Surroundings /\ TickInv /\ DisableInv

-----------------------------------------------------------------------------
(* With one task at a time (~Concurrent), what a tick has still to show is *)
(* settled by the steps it has made: at most one start edge is collected,  *)
(* and no other transition of the same tick follows it.                    *)
Started(edges) == \E i \in 1 .. Len(edges) : edges[i].edge = "start"

OneStart(edges) ==
  \A i, j \in 1 .. Len(edges) :
    edges[i].edge = "start" /\ edges[j].edge = "start" => i = j

Unmoved(s) == s.active # None /\ ~AdvanceActive(s, clock.mono).persist

Sequential ==
  /\ TickIdle \/ DisableIdle
  /\ OneStart(tick.edges)
  /\ tick.pc \in {"idle", "settle"} => tick.edges = << >>
  /\ tick.pc \in {"batch", "save"} => ~Started(tick.edges)
  /\ tick.pc \in {"reconcile", "evaluate"} /\ Started(tick.edges) =>
       Unmoved(disk.occ)
  /\ tick.pc = "settle" /\ tick.next.edge = "start" =>
       Unmoved(tick.next.occ)

(* A dismissal that is durable and will be shown. *)
Dismissed ==
  \/ disable.pc = "expose"
  \/ disable.pc = "define" /\ disable.next # NoTransition

(* The occurrence that sounds once everything durable has been shown.      *)
Shown == IF Dismissed THEN None ELSE AlertAfter(alert, tick.edges)

(* The recovery of an occurrence is marked with the boot it happened in.   *)
RecoveredBy(s, boot) ==
  s.active # None /\ s.active.last_recovery_boot # None =>
    s.active.last_recovery_boot <= boot

(* Before the boot is handled nothing sounds and nothing has been          *)
(* recovered in it; from then on what sounds is what the record rings,     *)
(* unless a failed write has made the record unknown.                      *)
Heard(shown) ==
  /\ RecoveredBy(disk.occ, clock.boot)
  /\ BootPending =>
       /\ shown = None
       /\ ~fault /\ Active # None => Active.last_recovery_boot # clock.boot
  /\ ~BootPending /\ ~fault => shown = Rings(disk.occ)

(* A transition without an edge waits only while nothing sounds. *)
Unheard(next, shown) ==
  /\ RecoveredBy(next.occ, clock.boot)
  /\ next.edge = "none" => shown = None

(* A transition that ends the active occurrence and silences it. *)
Ending(next) ==
  /\ next.occ.active = None
  /\ next = Transition(next.occ, "stop", next.who, next.outcomes)

Sounding ==
  /\ Heard(Shown)
  /\ BootPending => tick.pc \in {"idle", "settle"}
  /\ tick.pc \in Saving => Unheard(tick.next, Shown)
  /\ disable.pc = "dismiss" => Ending(disable.next)
  /\ report = "evaluated" => ~fault /\ ~BootPending /\ DisableIdle

-----------------------------------------------------------------------------
(* What a step of any action does to the committed record: outcomes come   *)
(* from the schedule of that very step, the ledger takes a step of its own *)
(* or none, and a record that was written shows it in its generation.      *)
JustifiedOutcomes ==
  /\ NewlyActive => IsCommitted(disk'.occ.active.occurrence_id)
  /\ \A occ \in ended' \ ended :
       \/ Active # None /\ occ = Active.occurrence_id
       \/ IsCommitted(occ)

LedgerStep == Ledger!LedgerNext \/ UNCHANGED Ledger!ledger

RecordStep ==
  /\ Record'
  /\ disk.revision <= disk'.revision
  /\ disk'.revision = disk.revision => disk'.defs = disk.defs
  /\ UNCHANGED <<disk, ended>> \/ disk.generation < disk'.generation
  /\ LedgerStep /\ JustifiedOutcomes

LEMMA UntouchedRecord ==
  ASSUME Record, UNCHANGED <<disk, ended>>
  PROVE  RecordStep
  <1>1. Record'
    BY DEF Record, Good, Storable, StateOK, ActiveAboveWatermark, Covered
  <1>2. LedgerStep
    BY DEF LedgerStep, Ledger!ledger, Active
  <1>3. JustifiedOutcomes
    BY DEF JustifiedOutcomes, NewlyActive, Active
  <1>4. disk.revision <= disk'.revision
    BY DEF Record
  <1> QED
    BY <1>1, <1>2, <1>3, <1>4 DEF RecordStep

(* Writing a transition that decides the record. *)
LEMMA DecidedStep ==
  ASSUME Record, NEW next, Written(next),
         Decides(disk.occ, disk.defs, ended, next),
         disk'.occ = next.occ, ended' = ended \cup next.outcomes
  PROVE  Good(next.occ, ended \cup next.outcomes)
         /\ LedgerStep /\ JustifiedOutcomes
  <1>1. Good(disk.occ, ended)
    BY DEF Record
  <1>2. CASE disk.occ.active # None
    <2>1. /\ ContinuesOrEnds(disk.occ, next.occ)
          /\ next.outcomes = IF next.occ.active = None
                             THEN {disk.occ.active.occurrence_id} ELSE {}
      BY <1>2 DEF Decides
    <2>2. /\ Good(next.occ, IF next.occ.active = None
                    THEN ended \cup {disk.occ.active.occurrence_id} ELSE ended)
          /\ disk.occ.active.occurrence_id \in OccurrenceIds
          /\ next.occ.active # None =>
               next.occ.active.occurrence_id = disk.occ.active.occurrence_id
      BY <1>1, <1>2, <2>1, GoodContinuesOrEnds
    <2>3. Good(next.occ, ended \cup next.outcomes)
      <3>1. (IF next.occ.active = None
             THEN ended \cup {disk.occ.active.occurrence_id} ELSE ended)
              = ended \cup next.outcomes
        BY <2>1
      <3> QED
        BY <2>2, <3>1
    <2>4. disk.occ.active.occurrence_id # None
      BY <2>2, NoneIsNoIdentity
    <2>5. LedgerStep
      <3>1. CASE next.occ.active = None
        <4>1. Ledger!Finish
          BY <1>2, <2>1, <2>4, <3>1 DEF Ledger!Finish, Active
        <4> QED
          BY <4>1 DEF LedgerStep, Ledger!LedgerNext
      <3>2. CASE next.occ.active # None
        BY <1>2, <2>1, <2>2, <3>2 DEF LedgerStep, Ledger!ledger, Active
      <3> QED
        BY <3>1, <3>2
    <2>6. JustifiedOutcomes
      BY <1>2, <2>1, <2>2 DEF JustifiedOutcomes, NewlyActive, Active
    <2> QED
      BY <2>3, <2>5, <2>6
  <1>3. CASE disk.occ.active = None
    <2>1. /\ Good(next.occ, ended \cup next.outcomes)
          /\ \A occ \in next.outcomes : CommittedIn(disk.defs, occ)
          /\ next.occ.active # None =>
               /\ CommittedIn(disk.defs, next.occ.active.occurrence_id)
               /\ next.occ.active.occurrence_id
                    \notin ended \cup next.outcomes
      BY <1>3 DEF Decides
    <2>2. ended' \subseteq OccurrenceIds /\ ended \subseteq ended'
      BY <2>1 DEF Good
    <2>3. LedgerStep
      <3>1. CASE next.occ.active = None
        BY <1>3, <2>2, <3>1 DEF LedgerStep, Ledger!LedgerNext, Ledger!Miss,
                               Ledger!Missing, Active
      <3>2. CASE next.occ.active # None
        <4>1. next.occ.active.occurrence_id \in OccurrenceIds
          BY <2>1, <3>2 DEF Good, StateOK, ActiveOccurrences
        <4> QED
          BY <1>3, <2>1, <2>2, <3>2, <4>1
             DEF LedgerStep, Ledger!LedgerNext, Ledger!Admit, Ledger!Missing,
                 Active
      <3> QED
        BY <3>1, <3>2
    <2>4. JustifiedOutcomes
      BY <1>3, <2>1 DEF JustifiedOutcomes, NewlyActive, Active, IsCommitted,
                        Definition, CommittedIn
    <2> QED
      BY <2>1, <2>3, <2>4
  <1> QED
    BY <1>2, <1>3

-----------------------------------------------------------------------------
(* How a save of an occurrence state ends: the record is untouched, or the *)
(* save found the record it was computed from and wrote it.                *)
Stored(next, revision, generation) ==
  /\ revision = disk.revision /\ generation = disk.generation
  /\ disk' = [disk EXCEPT !.occ = next.occ, !.generation = @ + 1]
  /\ ended' = ended \cup next.outcomes

StorageTyped == fault \in BOOLEAN /\ failures \in 0 .. MaxFailures

LEMMA SaveOccurrenceCases ==
  ASSUME Record, StorageTyped, NEW next, NEW revision, NEW generation,
         NEW status, SaveOccurrence(next, revision, generation, status)
  PROVE  /\ UNCHANGED <<disk, ended>> \/ Stored(next, revision, generation)
         /\ StorageTyped'
         /\ status \in {"stored", "unchanged", "conflict", "error"}
         /\ Committed(status) => /\ disk'.occ = next.occ
                                 /\ revision = disk.revision
                                 /\ fault' = FALSE
  <1> DEFINE settled == JournalVerdict(next.occ, revision, generation)
             record  == [disk EXCEPT !.occ = next.occ]
  <1>1. settled \in {"conflict", "error", "unchanged", "write"}
    BY DEF JournalVerdict
  <1>2. settled = "unchanged" =>
          disk.occ = next.occ /\ revision = disk.revision
    BY DEF JournalVerdict
  <1>3. settled = "write" =>
          revision = disk.revision /\ generation = disk.generation
    BY DEF JournalVerdict
  <1> HIDE DEF settled
  <1>4. CASE fault /\ status = "error" /\ UNCHANGED storage
    BY <1>4 DEF storage, StorageTyped, Committed
  <1>5. CASE ~fault /\ settled # "write" /\ status = settled
             /\ UNCHANGED storage
    BY <1>1, <1>2, <1>5 DEF storage, StorageTyped, Committed
  <1>6. CASE /\ ~fault /\ settled = "write" /\ status \in {"stored", "error"}
             /\ WriteRecord(record, next.outcomes, status = "stored")
    <2>1. record.generation = disk.generation /\ record.occ = next.occ
      BY DEF Record
    <2>2. [record EXCEPT !.generation = @ + 1]
            = [disk EXCEPT !.occ = next.occ, !.generation = @ + 1]
      BY DEF Record
    <2>3. \/ Land(record, next.outcomes)
          \/ status = "error" /\ UNCHANGED <<disk, ended>>
      BY <1>6 DEF WriteRecord
    <2>4. Land(record, next.outcomes) => Stored(next, revision, generation)
      BY <1>3, <1>6, <2>2 DEF Land, Stored
    <2>5. StorageTyped'
      <3>1. failures' \in 0 .. MaxFailures
        BY <1>6, RuntimeConstants DEF WriteRecord, StorageTyped
      <3>2. fault' \in BOOLEAN
        BY <1>6 DEF WriteRecord, StorageTyped
      <3> QED
        BY <3>1, <3>2 DEF StorageTyped
    <2>6. Stored(next, revision, generation) => disk'.occ = next.occ
      BY DEF Stored, Record
    <2>7. status = "stored" => fault' = FALSE /\ Land(record, next.outcomes)
      BY <1>6 DEF WriteRecord, StorageTyped
    <2> QED
      BY <1>3, <1>6, <2>3, <2>4, <2>5, <2>6, <2>7 DEF Committed
  <1> QED
    BY <1>4, <1>5, <1>6 DEF SaveOccurrence, settled

(* A save of what awaits it keeps the invariant of the record. *)
LEMMA SavedRecord ==
  ASSUME Record, StorageTyped, NEW next, NEW revision, NEW generation,
         NEW status, SaveOccurrence(next, revision, generation, status),
         Awaits(revision, generation, next)
  PROVE  /\ RecordStep /\ StorageTyped'
         /\ disk'.revision = disk.revision /\ disk'.defs = disk.defs
         /\ Committed(status) => /\ disk'.occ = next.occ
                                 /\ revision = disk'.revision
                                 /\ fault' = FALSE
  <1>1. /\ UNCHANGED <<disk, ended>> \/ Stored(next, revision, generation)
        /\ StorageTyped'
        /\ Committed(status) => /\ disk'.occ = next.occ
                                /\ revision = disk.revision
                                /\ fault' = FALSE
    BY SaveOccurrenceCases
  <1>2. CASE UNCHANGED <<disk, ended>>
    BY <1>1, <1>2, UntouchedRecord
  <1>3. CASE Stored(next, revision, generation)
    <2>1. /\ disk' = [disk EXCEPT !.occ = next.occ, !.generation = @ + 1]
          /\ ended' = ended \cup next.outcomes
          /\ Decides(disk.occ, disk.defs, ended, next)
          /\ Written(next)
      BY <1>3 DEF Stored, Awaits
    <2>2. /\ disk'.occ = next.occ /\ disk'.revision = disk.revision
          /\ disk'.defs = disk.defs
          /\ disk'.generation = disk.generation + 1
          /\ disk' \in [revision : 1 .. MaxRevision, defs : Schedules,
                        occ : {next.occ}, generation : Nat \ {0}]
      <3>1. PICK g \in Nat \ {0} : g = disk.generation
        BY DEF Record
      <3>2. g + 1 \in Nat \ {0}
        BY <3>1
      <3>3. disk' = [disk EXCEPT !.occ = next.occ, !.generation = g + 1]
        BY <2>1, <3>1
      <3> QED
        BY <3>1, <3>2, <3>3 DEF Record
    <2>3. /\ Good(next.occ, ended \cup next.outcomes)
          /\ LedgerStep /\ JustifiedOutcomes
      BY <2>1, <2>2, DecidedStep
    <2>4. Storable(next.occ)
      BY <2>1 DEF Written
    <2>5. Good(disk'.occ, ended') /\ Storable(disk'.occ)
      BY <2>1, <2>2, <2>3, <2>4
    <2>6. Record'
      BY <2>2, <2>5 DEF Record, Good, StateOK, ActiveAboveWatermark, Covered,
                        Storable
    <2>7. /\ disk.revision <= disk'.revision
          /\ disk.generation < disk'.generation
      BY <2>2 DEF Record
    <2> QED
      BY <1>1, <2>2, <2>3, <2>6, <2>7 DEF RecordStep
  <1> QED
    BY <1>1, <1>2, <1>3

(* The save of a schedule leaves the occurrence state alone. *)
LEMMA SavedDefinitions ==
  ASSUME Record, StorageTyped, NEW defs \in Schedules, NEW expected \in Nat,
         expected < MaxRevision, NEW status,
         SaveDefinitions(defs, expected, status)
  PROVE  RecordStep /\ StorageTyped'
  <1> DEFINE record == [disk EXCEPT !.defs = defs, !.revision = @ + 1]
  <1>1. CASE UNCHANGED storage
    BY <1>1, UntouchedRecord DEF storage, StorageTyped
  <1>2. ASSUME NEW acknowledged \in BOOLEAN,
               disk.revision = expected,
               WriteRecord(record, {}, acknowledged)
        PROVE  RecordStep /\ StorageTyped'
    <2>1. StorageTyped'
      <3>1. failures' \in 0 .. MaxFailures
        BY <1>2, RuntimeConstants DEF WriteRecord, StorageTyped
      <3>2. fault' \in BOOLEAN
        BY <1>2 DEF WriteRecord, StorageTyped
      <3> QED
        BY <3>1, <3>2 DEF StorageTyped
    <2>2. Land(record, {}) \/ UNCHANGED <<disk, ended>>
      BY <1>2 DEF WriteRecord
    <2>3. CASE UNCHANGED <<disk, ended>>
      BY <2>1, <2>3, UntouchedRecord
    <2>4. CASE Land(record, {})
      <3>1. PICK g \in Nat \ {0} : g = disk.generation
        BY DEF Record
      <3>2. g + 1 \in Nat \ {0} /\ expected + 1 \in 1 .. MaxRevision
        BY <3>1, RuntimeConstants
      <3>3. record.generation = g
        BY <3>1 DEF Record
      <3>4. disk' = [disk EXCEPT !.defs = defs, !.revision = expected + 1,
                                 !.generation = g + 1]
        BY <1>2, <2>4, <3>1, <3>3 DEF Land, Record
      <3>5. /\ disk'.occ = disk.occ /\ disk'.revision = expected + 1
            /\ disk'.defs = defs
            /\ disk'.generation = g + 1
            /\ disk' \in [revision : 1 .. MaxRevision, defs : Schedules,
                          occ : {disk.occ}, generation : Nat \ {0}]
        BY <3>2, <3>4 DEF Record
      <3>6. ended' = ended
        BY <2>4 DEF Land
      <3>7. Record'
        BY <3>5, <3>6 DEF Record, Good, StateOK, ActiveAboveWatermark,
                          Covered, Storable
      <3>8. LedgerStep
        BY <3>5, <3>6 DEF LedgerStep, Ledger!ledger, Active
      <3>9. JustifiedOutcomes
        BY <3>5, <3>6 DEF JustifiedOutcomes, NewlyActive, Active
      <3>10. /\ disk.revision < disk'.revision
             /\ disk.generation < disk'.generation
        BY <1>2, <3>1, <3>5
      <3>11. disk.revision <= disk'.revision /\ disk'.revision # disk.revision
        BY <1>2, <3>5
      <3> QED
        BY <2>1, <3>7, <3>8, <3>9, <3>10, <3>11 DEF RecordStep
    <2> QED
      BY <2>2, <2>3, <2>4
  <1>3. \/ UNCHANGED storage
        \/ /\ disk.revision = expected
           /\ WriteRecord(record, {}, status = "stored")
    BY DEF SaveDefinitions
  <1> QED
    BY <1>1, <1>2, <1>3

-----------------------------------------------------------------------------
(* What still awaits its save is not disturbed by any step: either the     *)
(* record is the same, or its generation has passed and the save will be   *)
(* refused.                                                                *)
LEMMA AwaitsKept ==
  ASSUME Record, RecordStep, NEW next, NEW revision \in Nat,
         NEW generation \in Nat, Awaits(revision, generation, next)
  PROVE  Awaits(revision, generation, next)'
  <1>1. disk.generation \in Nat /\ disk'.generation \in Nat
    BY DEF Record, RecordStep
  <1>2. CASE UNCHANGED <<disk, ended>>
    BY <1>2 DEF Awaits
  <1>3. CASE disk.generation < disk'.generation
    <2>1. generation <= disk'.generation /\ generation # disk'.generation
      BY <1>1, <1>3 DEF Awaits
    <2> QED
      BY <2>1 DEF Awaits
  <1> QED
    BY <1>2, <1>3 DEF RecordStep

LEMMA TickKept ==
  ASSUME Record, RecordStep, TickInv, UNCHANGED tick
  PROVE  TickInv'
  <1>1. TickTyped'
    BY DEF TickInv, TickTyped
  <1>2. PICK next, revision, generation :
          /\ next = tick.next
          /\ revision = tick.revision /\ revision \in Nat
          /\ generation = tick.generation /\ generation \in Nat
    <2>1. tick.revision \in Nat /\ tick.generation \in Nat
      BY DEF TickInv, TickTyped
    <2> QED
      BY <2>1
  <1>3. TickPending'
    <2>1. CASE tick.pc \in Saving
      <3>1. Awaits(revision, generation, next)
        BY <1>2, <2>1 DEF TickInv, TickPending
      <3>2. Awaits(revision, generation, next)'
        BY <1>2, <3>1, AwaitsKept
      <3> QED
        BY <1>2, <2>1, <3>2 DEF TickPending, Awaits
    <2>2. CASE tick.pc \notin Saving
      BY <2>2 DEF TickInv, TickPending
    <2> QED
      BY <2>1, <2>2
  <1>4. TickSchedule'
    <2>1. /\ disk.revision <= disk'.revision
          /\ disk'.revision = disk.revision => disk'.defs = disk.defs
          /\ disk.revision \in Nat /\ disk'.revision \in Nat
      BY RuntimeConstants DEF RecordStep, Record
    <2> QED
      BY <1>2, <2>1 DEF TickInv, TickSchedule
  <1> QED
    BY <1>1, <1>3, <1>4 DEF TickInv

LEMMA DisableKept ==
  ASSUME Record, RecordStep, DisableInv, UNCHANGED disable
  PROVE  DisableInv'
  <1>1. DisableTyped'
    BY DEF DisableInv, DisableTyped
  <1>2. PICK next, revision, generation :
          /\ next = disable.next
          /\ revision = disable.revision /\ revision \in Nat
          /\ generation = disable.generation /\ generation \in Nat
    <2>1. disable.revision \in Nat /\ disable.generation \in Nat
      BY DEF DisableInv, DisableTyped
    <2> QED
      BY <2>1
  <1>3. disable.pc = "dismiss" => Awaits(revision, generation, next)'
    BY <1>2, AwaitsKept DEF DisableInv, DisablePending
  <1>4. DisablePending'
    BY <1>2, <1>3 DEF DisableInv, DisablePending, Awaits
  <1> QED
    BY <1>1, <1>4 DEF DisableInv

(* A tick that returned, and a tick that waits for a save.                 *)
LEMMA TickReturned ==
  ASSUME NEW status, NEW edges \in Seq(Edges), Return(status, edges)
  PROVE  TickInv'
  <1>1. /\ tick' \in [pc : {"idle", "expose"}, revision : {0},
                      generation : {0}, queue : {<< >>}, defs : {None},
                      next : {NoTransition}, edges : {<< >>, edges}]
    BY DEF Return, IdleTick
  <1>2. << >> \in Seq(AlarmIds) /\ << >> \in Seq(Edges) /\ 0 \in Nat
    OBVIOUS
  <1>3. tick'.pc \notin Saving /\ tick'.pc # "save"
    BY <1>1 DEF Saving
  <1>4. TickTyped'
    BY <1>1, <1>2 DEF TickTyped
  <1>5. TickPending' /\ TickSchedule'
    BY <1>1, <1>3 DEF TickPending, TickSchedule
  <1> QED
    BY <1>4, <1>5 DEF TickInv

LEMMA TickWaits ==
  ASSUME NEW pc \in Saving, NEW revision \in Nat, NEW generation \in Nat,
         NEW queue \in Seq(AlarmIds), NEW defs, NEW next,
         NEW edges \in Seq(Edges),
         tick' = [pc |-> pc, revision |-> revision,
                  generation |-> generation, queue |-> queue, defs |-> defs,
                  next |-> next, edges |-> edges],
         Awaits(revision, generation, next)',
         pc = "save" =>
           /\ defs \in Schedules
           /\ \A i \in 1 .. Len(queue) : defs[queue[i]] # None
           /\ revision = disk'.revision /\ defs = disk'.defs
           /\ disk'.revision \in Nat
  PROVE  TickInv'
  <1>1. TickTyped'
    BY DEF TickTyped
  <1>2. TickPending'
    BY DEF TickPending, Awaits
  <1>3. TickSchedule'
    BY DEF TickSchedule
  <1> QED
    BY <1>1, <1>2, <1>3 DEF TickInv

-----------------------------------------------------------------------------
(* The transitions the callers compute from a loaded record decide it.     *)
LEMMA ActiveTransitionDecides ==
  ASSUME NEW s, NEW defs, NEW done, Good(s, done), s.active # None,
         NEW r, Storable(r.state), ContinuesOrEnds(s, r.state), RingsOn(s, r)
  PROVE  LET next == ActiveTransition(s, r) IN
         Written(next) /\ Decides(s, defs, done, next)
  <1> DEFINE next == ActiveTransition(s, r)
  <1>1. /\ next.occ = r.state /\ next.edge \in {"start", "stop", "none"}
        /\ next.who = s.active.occurrence_id
        /\ next.outcomes = IF r.state.active = None
                           THEN {s.active.occurrence_id} ELSE {}
    BY DEF ActiveTransition, Transition
  <1>2. s.active.occurrence_id \in OccurrenceIds
    BY DEF Good, StateOK, ActiveOccurrences
  <1>3. next.edge = "start" <=> r.start
    BY DEF ActiveTransition, Transition
  <1> HIDE DEF next
  <1>4. Rings(r.state) = IF r.start THEN s.active.occurrence_id ELSE None
    BY DEF RingsOn, Rings, IsRinging
  <1>5. Written(next)
    BY <1>1, <1>2, <1>3, <1>4 DEF Written
  <1>6. Decides(s, defs, done, next)
    BY <1>1 DEF Decides
  <1> QED
    BY <1>5, <1>6 DEF next

(* An occurrence that was admitted has not been recovered yet.             *)
Fresh(next) ==
  next.occ.active # None => next.occ.active.last_recovery_boot = None

LEMMA DueTransitionDecides ==
  ASSUME NEW s, NEW done, Good(s, done), Storable(s), NEW defs \in Schedules,
         NEW id \in AlarmIds, defs[id] # None, NEW w \in Int, NEW m \in Int,
         EvaluateDue(s, id, defs[id], w, m, TRUE).persist
  PROVE  LET r    == EvaluateDue(s, id, defs[id], w, m, TRUE)
             who  == MakeOccurrenceId(id, defs[id])
             next == Transition(r.state,
                                IF r.start THEN "start" ELSE "none", who,
                                IF r.start THEN {} ELSE {who})
         IN  /\ Written(next) /\ Decides(s, defs, done, next)
             /\ s.active = None /\ Fresh(next)
  <1> DEFINE r    == EvaluateDue(s, id, defs[id], w, m, TRUE)
             who  == MakeOccurrenceId(id, defs[id])
             next == Transition(r.state,
                                IF r.start THEN "start" ELSE "none", who,
                                IF r.start THEN {} ELSE {who})
  <1>1. defs[id] \in AlarmDefinitions
    BY DEF Schedules
  <1>2. /\ s.active = None
        /\ defs[id].enabled
        /\ who \in OccurrenceIds
        /\ Storable(r.state)
        /\ Good(r.state, done \cup (IF r.start THEN {} ELSE {who}))
        /\ r.start \in BOOLEAN
        /\ r.start <=> r.state.active # None
        /\ r.start => /\ r.state.active.occurrence_id = who
                      /\ r.state.active.snooze_deadline = None
                      /\ r.state.active.last_recovery_boot = None
                      /\ who \notin done
    BY <1>1, DueFacts
  <1>0. who.alarm = id
    BY DEF MakeOccurrenceId, OccurrenceId
  <1>3. CommittedIn(defs, who)
    BY <1>0, <1>2 DEF CommittedIn
  <1> HIDE DEF r, who
  <1>4. /\ next.occ = r.state /\ next.who = who
        /\ next.edge = IF r.start THEN "start" ELSE "none"
        /\ next.outcomes = IF r.start THEN {} ELSE {who}
    BY DEF Transition
  <1> HIDE DEF next
  <1>9. Rings(r.state) = IF r.start THEN who ELSE None
    BY <1>2 DEF Rings, IsRinging
  <1>5. Written(next) /\ Fresh(next)
    BY <1>2, <1>4, <1>9 DEF Written, Fresh
  <1>6. /\ Good(next.occ, done \cup next.outcomes)
        /\ \A occ \in next.outcomes : CommittedIn(defs, occ)
    BY <1>2, <1>3, <1>4
  <1>7. next.occ.active # None =>
          /\ CommittedIn(defs, next.occ.active.occurrence_id)
          /\ next.occ.active.occurrence_id \notin done \cup next.outcomes
    BY <1>2, <1>3, <1>4
  <1>8. Decides(s, defs, done, next)
    BY <1>2, <1>6, <1>7 DEF Decides
  <1> QED
    BY <1>2, <1>5, <1>8 DEF next, r, who

LEMMA BatchTransitionDecides ==
  ASSUME NEW s, NEW done, Good(s, done), Storable(s), NEW defs \in Schedules,
         NEW w \in Int, NEW m \in Int,
         Reconciliation(s, defs, w, m).status = "batch"
  PROVE  LET r    == Reconciliation(s, defs, w, m)
             next == Transition(r.state,
                       IF r.ringing = None THEN "none" ELSE "start",
                       IF r.ringing = None THEN None
                       ELSE r.state.active.occurrence_id,
                       MissedIds(defs, r.missed))
         IN  /\ Written(next) /\ Decides(s, defs, done, next)
             /\ s.active = None /\ Fresh(next)
  <1> DEFINE r    == Reconciliation(s, defs, w, m)
             next == Transition(r.state,
                       IF r.ringing = None THEN "none" ELSE "start",
                       IF r.ringing = None THEN None
                       ELSE r.state.active.occurrence_id,
                       MissedIds(defs, r.missed))
  <1>1. defs \in [AlarmIds -> AlarmDefinitions \cup {None}]
    BY DEF Schedules
  <1>2. /\ s.active = None
        /\ Good(r.state, done \cup MissedIds(defs, r.missed))
        /\ r.state.active # None =>
             /\ r.state.active.occurrence_id \in OccurrenceIds
             /\ r.state.active.occurrence_id
                  \notin done \cup MissedIds(defs, r.missed)
    BY <1>1, GoodBatch
  <1>3. /\ Storable(r.state)
        /\ r.missed \subseteq Crossed(s, defs, w)
        /\ r.ringing = None <=> r.state.active = None
        /\ r.state.active # None =>
             /\ r.ringing \in Crossed(s, defs, w)
             /\ r.state.active.occurrence_id
                  = MakeOccurrenceId(r.ringing, defs[r.ringing])
             /\ r.state.active.snooze_deadline = None
             /\ r.state.active.last_recovery_boot = None
    BY <1>1, BatchFacts
  <1>4. \A id \in Crossed(s, defs, w) :
          CommittedIn(defs, MakeOccurrenceId(id, defs[id]))
    <2> SUFFICES ASSUME NEW id \in Crossed(s, defs, w)
                 PROVE  CommittedIn(defs, MakeOccurrenceId(id, defs[id]))
      OBVIOUS
    <2>1. defs[id] # None /\ defs[id].enabled
      BY DEF Crossed
    <2>2. MakeOccurrenceId(id, defs[id]).alarm = id
      BY DEF MakeOccurrenceId, OccurrenceId
    <2> QED
      BY <2>1, <2>2 DEF CommittedIn
  <1> HIDE DEF r
  <1>5. /\ next.occ = r.state
        /\ next.edge = IF r.ringing = None THEN "none" ELSE "start"
        /\ r.ringing # None => next.who = r.state.active.occurrence_id
        /\ next.outcomes = MissedIds(defs, r.missed)
    BY DEF Transition
  <1> HIDE DEF next
  <1>10. Rings(r.state) = IF r.ringing = None THEN None
                          ELSE r.state.active.occurrence_id
    BY <1>3 DEF Rings, IsRinging
  <1>6. Written(next) /\ Fresh(next)
    BY <1>2, <1>3, <1>5, <1>10 DEF Written, Fresh
  <1>7. \A occ \in next.outcomes : CommittedIn(defs, occ)
    BY <1>3, <1>4, <1>5 DEF MissedIds
  <1>8. next.occ.active # None =>
          /\ CommittedIn(defs, next.occ.active.occurrence_id)
          /\ next.occ.active.occurrence_id \notin done \cup next.outcomes
    BY <1>2, <1>3, <1>4, <1>5
  <1>9. Decides(s, defs, done, next)
    BY <1>2, <1>5, <1>7, <1>8 DEF Decides
  <1> QED
    BY <1>2, <1>6, <1>9 DEF next, r

(* The evaluation of the alarms that are left ends the tick, or leaves it  *)
(* with a transition that decides the state it was computed from.          *)
QueueSaves(occ, done, defs, revision, generation, edges) ==
  \E rest \in Seq(AlarmIds) : \E next :
    /\ \A i \in 1 .. Len(rest) : defs[rest[i]] # None
    /\ Written(next) /\ Decides(occ, defs, done, next)
    /\ occ.active = None /\ Fresh(next)
    /\ tick' = [pc |-> "save", revision |-> revision,
                generation |-> generation, queue |-> rest, defs |-> defs,
                next |-> next, edges |-> edges]
    /\ report' = report

LEMMA EvaluateQueueCases ==
  ASSUME NEW occ, NEW done, Good(occ, done), Storable(occ),
         NEW defs \in Schedules, NEW queue \in Seq(AlarmIds),
         \A i \in 1 .. Len(queue) : defs[queue[i]] # None,
         NEW revision, NEW generation, NEW edges,
         clock.wall \in Int, clock.mono \in Int,
         EvaluateQueue(occ, defs, queue, revision, generation, edges)
  PROVE  \/ \E status \in {"evaluated", "frozen"} : Return(status, edges)
         \/ QueueSaves(occ, done, defs, revision, generation, edges)
  <1> DEFINE result(i) == EvaluateDue(occ, queue[i], defs[queue[i]],
                                      clock.wall, clock.mono, TRUE)
             stops == {i \in DOMAIN queue :
                         \/ result(i).persist
                         \/ result(i).status = "invalid_time"}
             first == Min(stops)
             r     == result(first)
             who   == MakeOccurrenceId(queue[first], defs[queue[first]])
             rest  == SubSeq(queue, first + 1, Len(queue))
             next  == Transition(r.state, IF r.start THEN "start" ELSE "none",
                                 who, IF r.start THEN {} ELSE {who})
  <1>1. CASE stops = {} \/ ~r.persist
    BY <1>1 DEF EvaluateQueue
  <1>2. CASE stops # {} /\ r.persist
    <2>1. /\ report' = report
          /\ tick' = [IdleTick EXCEPT
               !.pc = "save", !.edges = edges, !.defs = defs, !.queue = rest,
               !.revision = revision, !.generation = generation,
               !.next = next]
      BY <1>2 DEF EvaluateQueue
    <2> HIDE DEF result
    <2>2. stops \subseteq 1 .. Len(queue) /\ Len(queue) \in Nat
      OBVIOUS
    <2> HIDE DEF stops
    <2> USE DEF result
    <2>3. IsFiniteSet(stops) /\ stops \subseteq Int
      <3>1. IsFiniteSet(1 .. Len(queue))
        BY <2>2, FS_Interval
      <3>2. 1 .. Len(queue) \subseteq Int
        OBVIOUS
      <3> QED
        BY <2>2, <3>1, <3>2, FS_Subset
    <2>4. first \in 1 .. Len(queue)
      BY <1>2, <2>2, <2>3, MinIsMinimum
    <2> HIDE DEF first
    <2>5. PICK id \in AlarmIds : id = queue[first]
      BY <2>4
    <2>6. defs[id] # None /\ result(first).persist
      BY <1>2, <2>4, <2>5
    <2>7. /\ Written(next) /\ Decides(occ, defs, done, next)
          /\ occ.active = None /\ Fresh(next)
      BY <2>5, <2>6, DueTransitionDecides
    <2> HIDE DEF next
    <2>8. /\ rest \in Seq(AlarmIds)
          /\ \A i \in 1 .. Len(rest) : defs[rest[i]] # None
      <3>1. first + 1 \in 1 .. Len(queue) + 1
        BY <2>4
      <3>2. /\ rest \in Seq(AlarmIds)
            /\ \A i \in 1 .. Len(rest) :
                 /\ first + 1 + i - 1 \in 1 .. Len(queue)
                 /\ rest[i] = queue[first + 1 + i - 1]
        BY <2>4, <3>1
      <3> QED
        BY <3>2
    <2> HIDE DEF rest
    <2>9. tick' = [pc |-> "save", revision |-> revision,
                   generation |-> generation, queue |-> rest, defs |-> defs,
                   next |-> next, edges |-> edges]
      BY <2>1 DEF IdleTick
    <2> QED
      BY <2>1, <2>7, <2>8, <2>9 DEF QueueSaves
  <1> QED
    BY <1>1, <1>2

-----------------------------------------------------------------------------
(* One lemma per action: it keeps the invariant, and does to the record    *)
(* what RecordStep says.                                                   *)
LEMMA FailedLoad ==
  ASSUME StorageTyped, LoadFails \/ LoadWorks
  PROVE  failures' \in 0 .. MaxFailures
  BY RuntimeConstants DEF LoadFails, LoadWorks, StorageTyped

LEMMA EdgeTyped ==
  ASSUME NEW next, Written(next)
  PROVE  Edge(next) \in Seq(Edges)
  <1>1. CASE next.edge = "none"
    BY <1>1 DEF Edge
  <1>2. CASE next.edge # "none"
    <2>1. [edge |-> next.edge, who |-> next.who] \in Edges
      BY <1>2 DEF Written, Edges
    <2> QED
      BY <1>2, <2>1 DEF Edge
  <1> QED
    BY <1>1, <1>2

LEMMA SettledTick ==
  ASSUME NEW edges \in Seq(Edges), Settled(edges), Surroundings
  PROVE  /\ TickInv'
         /\ coord' \in [handled : Nat \cup {None}, pending : BOOLEAN]
         /\ report' = report
  <1>1. PICK pc \in {"reconcile", "evaluate"} :
          tick' = [pc |-> pc, revision |-> 0, generation |-> 0,
                   queue |-> << >>, defs |-> None, next |-> NoTransition,
                   edges |-> edges]
    BY DEF Settled, IdleTick
  <1>2. TickTyped'
    BY <1>1 DEF TickTyped
  <1>3. TickPending' /\ TickSchedule'
    BY <1>1 DEF TickPending, TickSchedule, Saving
  <1>4. clock.boot \in Nat
    BY RuntimeConstants DEF Surroundings
  <1>5. coord' \in [handled : Nat \cup {None}, pending : BOOLEAN]
    BY <1>4 DEF Settled, Surroundings
  <1> QED
    BY <1>2, <1>3, <1>5 DEF TickInv, Settled

LEMMA SettlementFacts ==
  ASSUME Record, Surroundings, Settlement(disk.occ).persist,
         Settlement(disk.occ).status # "invalid_time"
  PROVE  /\ Storable(Settlement(disk.occ).state)
         /\ ContinuesOrEnds(disk.occ, Settlement(disk.occ).state)
  <1> DEFINE r == RecoverAfterReboot(disk.occ, clock.wall, clock.boot)
  <1>1. /\ clock.wall \in Int /\ clock.mono \in Int /\ clock.boot \in Nat
        /\ Good(disk.occ, ended) /\ Storable(disk.occ)
        /\ StateOK(disk.occ) /\ ActiveAboveWatermark(disk.occ)
    BY RuntimeConstants DEF Surroundings, Record, Good
  <1>2. CASE BootPending
    <2>1. r = [state |-> r.state, status |-> r.status, start |-> r.start,
               stop |-> r.stop, persist |-> r.persist]
      BY DEF RecoverAfterReboot, Result, NoChange
    <2>2. r.status # "invalid_time"
      <3>1. CASE r.status = "invalid_time"
        BY <1>2, <3>1 DEF Settlement
      <3> QED
        BY <3>1
    <2>3. Settlement(disk.occ)
            = [r EXCEPT !.state = Reanchored(r.state, clock.wall, clock.mono)]
      BY <1>2, <2>2 DEF Settlement
    <2> HIDE DEF r
    <2>4. /\ r.persist
          /\ Settlement(disk.occ).state
               = Reanchored(r.state, clock.wall, clock.mono)
      BY <2>1, <2>3
    <2> USE DEF r
    <2>5. ContinuesOrEnds(disk.occ,
                          Reanchored(r.state, clock.wall, clock.mono))
      BY <1>1, <2>4, RecoveryContinuesOrEnds
    <2>6. Storable(Reanchored(r.state, clock.wall, clock.mono))
      BY <1>1, <2>4, StorableRecovery
    <2> QED
      BY <2>4, <2>5, <2>6
  <1>3. CASE ~BootPending
    <2>1. Settlement(disk.occ) = AdvanceActive(disk.occ, clock.mono)
      BY <1>3 DEF Settlement
    <2> QED
      BY <1>1, <2>1, AdvanceContinuesOrEnds, StorableAdvance
  <1> QED
    BY <1>2, <1>3

LEMMA SettlementRings ==
  ASSUME Record, Surroundings, Settlement(disk.occ).persist,
         Settlement(disk.occ).status # "invalid_time"
  PROVE  LET r == Settlement(disk.occ) IN
         /\ RingsOn(disk.occ, r)
         /\ r.start => ~AdvanceActive(r.state, clock.mono).persist
         /\ IF BootPending
            THEN r.state.active # None =>
                   r.state.active.last_recovery_boot = clock.boot
            ELSE /\ r.start \/ r.stop
                 /\ r.state.active # None =>
                      r.state.active.last_recovery_boot
                        = disk.occ.active.last_recovery_boot
  <1> DEFINE r == RecoverAfterReboot(disk.occ, clock.wall, clock.boot)
  <1>1. /\ clock.wall \in Int /\ clock.mono \in Int /\ clock.boot \in Nat
        /\ StateOK(disk.occ)
    BY RuntimeConstants DEF Surroundings, Record, Good
  <1>2. CASE BootPending
    <2>1. r = [state |-> r.state, status |-> r.status, start |-> r.start,
               stop |-> r.stop, persist |-> r.persist]
      BY DEF RecoverAfterReboot, Result, NoChange
    <2>2. r.status # "invalid_time"
      <3>1. CASE r.status = "invalid_time"
        BY <1>2, <3>1 DEF Settlement
      <3> QED
        BY <3>1
    <2>3. Settlement(disk.occ)
            = [r EXCEPT !.state = Reanchored(r.state, clock.wall, clock.mono)]
      BY <1>2, <2>2 DEF Settlement
    <2> HIDE DEF r
    <2>4. r.persist
      BY <2>1, <2>3
    <2> USE DEF r
    <2> QED
      BY <1>1, <1>2, <2>3, <2>4, RecoveryRings
  <1>3. CASE ~BootPending
    <2>1. Settlement(disk.occ) = AdvanceActive(disk.occ, clock.mono)
      BY <1>3 DEF Settlement
    <2> QED
      BY <1>1, <1>3, <2>1, AdvanceRings
  <1> QED
    BY <1>2, <1>3

LEMMA InvalidTickStep ==
  ASSUME IInv, InvalidTick
  PROVE  IInv' /\ RecordStep
  <1>1. RecordStep
    BY UntouchedRecord DEF IInv, InvalidTick, storage
  <1>2. TickInv' /\ DisableInv'
    BY <1>1, TickKept, DisableKept DEF IInv, InvalidTick
  <1>3. Surroundings'
    BY DEF IInv, Surroundings, InvalidTick, storage
  <1> QED
    BY <1>1, <1>2, <1>3 DEF IInv, RecordStep

LEMMA SettleLoadStep ==
  ASSUME IInv, SettleLoad
  PROVE  IInv' /\ RecordStep
  <1> DEFINE r == Settlement(disk.occ)
  <1>0. UNCHANGED <<disk, fault, ended, clock, disable, alert>>
    BY DEF SettleLoad
  <1>1. RecordStep
    BY <1>0, UntouchedRecord DEF IInv
  <1>2. DisableInv'
    BY <1>0, <1>1, DisableKept DEF IInv
  <1>3. failures' \in 0 .. MaxFailures
    BY FailedLoad DEF IInv, Surroundings, StorageTyped, SettleLoad
  <1>4. << >> \in Seq(Edges)
    OBVIOUS
  <1>5. ASSUME NEW status \in {"error", "frozen"}, Return(status, << >>),
               UNCHANGED coord
        PROVE  TickInv' /\ Surroundings'
    <2>1. TickInv'
      BY <1>4, <1>5, TickReturned
    <2>2. report' = status
      BY <1>5 DEF Return
    <2> QED
      BY <1>0, <1>3, <1>5, <2>1, <2>2 DEF IInv, Surroundings
  <1>6. ASSUME Settled(<< >>)
        PROVE  TickInv' /\ Surroundings'
    <2>1. /\ TickInv'
          /\ coord' \in [handled : Nat \cup {None}, pending : BOOLEAN]
          /\ report' = report
      BY <1>4, <1>6, SettledTick DEF IInv
    <2>2. Surroundings'
      BY <1>0, <1>3, <2>1 DEF IInv, Surroundings
    <2> QED
      BY <2>1, <2>2
  <1>7. ASSUME /\ disk.occ.active # None
               /\ r.status # "invalid_time" /\ r.persist
               /\ tick' = [IdleTick EXCEPT
                             !.pc = "settle",
                             !.revision = disk.revision,
                             !.generation = disk.generation,
                             !.next = ActiveTransition(disk.occ, r)]
               /\ UNCHANGED <<coord, report>>
        PROVE  TickInv' /\ Surroundings'
    <2>1. /\ Storable(r.state) /\ ContinuesOrEnds(disk.occ, r.state)
          /\ RingsOn(disk.occ, r)
      BY <1>7, SettlementFacts, SettlementRings DEF IInv
    <2> HIDE DEF r
    <2>2. PICK next : next = ActiveTransition(disk.occ, r)
      OBVIOUS
    <2>3. Written(next) /\ Decides(disk.occ, disk.defs, ended, next)
      BY <1>7, <2>1, <2>2, ActiveTransitionDecides DEF IInv, Record
    <2>4. PICK revision, generation : /\ revision = disk.revision
                                      /\ revision \in Nat
                                      /\ generation = disk.generation
                                      /\ generation \in Nat
      BY RuntimeConstants DEF IInv, Record
    <2>5. Awaits(revision, generation, next)'
      BY <1>0, <2>3, <2>4 DEF Awaits
    <2>6. tick' = [pc |-> "settle", revision |-> revision,
                   generation |-> generation, queue |-> << >>,
                   defs |-> None, next |-> next, edges |-> << >>]
      BY <1>7, <2>2, <2>4 DEF IdleTick
    <2>7. << >> \in Seq(AlarmIds) /\ "settle" \in Saving
      BY DEF Saving
    <2>8. TickInv'
      BY <1>4, <2>4, <2>5, <2>6, <2>7, TickWaits
    <2> QED
      BY <1>0, <1>3, <1>7, <2>8 DEF IInv, Surroundings
  <1>8. \/ Return("error", << >>) /\ UNCHANGED coord
        \/ Return("frozen", << >>) /\ UNCHANGED coord
        \/ Settled(<< >>)
        \/ /\ disk.occ.active # None
           /\ r.status # "invalid_time" /\ r.persist
           /\ tick' = [IdleTick EXCEPT
                         !.pc = "settle",
                         !.revision = disk.revision,
                         !.generation = disk.generation,
                         !.next = ActiveTransition(disk.occ, r)]
           /\ UNCHANGED <<coord, report>>
    BY DEF SettleLoad
  <1> HIDE DEF r
  <1>9. TickInv' /\ Surroundings'
    <2>1. CASE Return("error", << >>) /\ UNCHANGED coord
      BY <1>5, <2>1
    <2>2. CASE Return("frozen", << >>) /\ UNCHANGED coord
      BY <1>5, <2>2
    <2> QED
      BY <1>6, <1>7, <1>8, <2>1, <2>2
  <1> QED
    BY <1>1, <1>2, <1>9 DEF IInv, RecordStep

LEMMA SettleSaveStep ==
  ASSUME IInv, SettleSave
  PROVE  IInv' /\ RecordStep
  <1>1. PICK status \in {"stored", "unchanged", "conflict", "error"} :
          /\ SaveOccurrence(tick.next, tick.revision, tick.generation, status)
          /\ IF Committed(status) THEN Settled(Edge(tick.next))
             ELSE Return(status, << >>) /\ UNCHANGED coord
    BY DEF SettleSave
  <1>2. Awaits(tick.revision, tick.generation, tick.next)
    BY DEF IInv, TickInv, TickPending, Saving, SettleSave
  <1>3. RecordStep /\ StorageTyped'
    BY <1>1, <1>2, SavedRecord DEF IInv, Surroundings, StorageTyped
  <1>4. DisableInv'
    BY <1>3, DisableKept DEF IInv, SettleSave
  <1>5. Edge(tick.next) \in Seq(Edges) /\ << >> \in Seq(Edges)
    BY <1>2, EdgeTyped DEF Awaits
  <1>6. /\ TickInv'
        /\ coord' \in [handled : Nat \cup {None}, pending : BOOLEAN]
        /\ report' \in {report, "conflict", "error"}
    <2>1. CASE Committed(status)
      BY <1>1, <1>5, <2>1, SettledTick DEF IInv
    <2>2. CASE ~Committed(status)
      <3>1. Return(status, << >>) /\ UNCHANGED coord
        BY <1>1, <2>2
      <3>2. TickInv'
        BY <1>5, <3>1, TickReturned
      <3>3. report' \in {"conflict", "error"}
        BY <2>2, <3>1 DEF Return, Committed
      <3> QED
        BY <3>1, <3>2, <3>3 DEF IInv, Surroundings
    <2> QED
      BY <2>1, <2>2
  <1>7. Surroundings'
    BY <1>3, <1>6 DEF IInv, Surroundings, StorageTyped, SettleSave
  <1> QED
    BY <1>3, <1>4, <1>6, <1>7 DEF IInv, RecordStep

LEMMA ReconcileLoadStep ==
  ASSUME IInv, ReconcileLoad
  PROVE  IInv' /\ RecordStep
  <1> DEFINE r == Reconciliation(disk.occ, disk.defs, clock.wall, clock.mono)
             n == Transition(r.state,
                    IF r.ringing = None THEN "none" ELSE "start",
                    IF r.ringing = None THEN None
                    ELSE r.state.active.occurrence_id,
                    MissedIds(disk.defs, r.missed))
  <1>0. /\ UNCHANGED <<disk, fault, ended, clock, disable, alert>>
        /\ tick.pc = "reconcile"
    BY DEF ReconcileLoad
  <1>1. RecordStep
    BY <1>0, UntouchedRecord DEF IInv
  <1>2. DisableInv'
    BY <1>0, <1>1, DisableKept DEF IInv
  <1>3. failures' \in 0 .. MaxFailures
    BY FailedLoad DEF IInv, Surroundings, StorageTyped, ReconcileLoad
  <1>4. tick.edges \in Seq(Edges) /\ tick.queue \in Seq(AlarmIds)
    BY DEF IInv, TickInv, TickTyped
  <1>5. ASSUME NEW status \in {"error", "evaluated", "blocked"},
               Return(status, tick.edges),
               coord' \in [handled : Nat \cup {None}, pending : BOOLEAN]
        PROVE  TickInv' /\ Surroundings'
    <2>1. TickInv'
      BY <1>4, <1>5, TickReturned
    <2>2. report' = status
      BY <1>5 DEF Return
    <2>3. Surroundings'
      BY <1>0, <1>3, <1>5, <2>2 DEF IInv, Surroundings
    <2> QED
      BY <2>1, <2>3
  <1>6. ASSUME r.status = "batch",
               tick' = [tick EXCEPT !.pc = "batch",
                                    !.revision = disk.revision,
                                    !.generation = disk.generation,
                                    !.next = n],
               UNCHANGED <<coord, report>>
        PROVE  TickInv' /\ Surroundings'
    <2>1. Written(n) /\ Decides(disk.occ, disk.defs, ended, n)
      <3>1. /\ Good(disk.occ, ended) /\ Storable(disk.occ)
            /\ disk.defs \in Schedules
            /\ clock.wall \in Int /\ clock.mono \in Int
        BY DEF IInv, Record, Surroundings
      <3> QED
        BY <1>6, <3>1, BatchTransitionDecides
    <2> HIDE DEF n, r
    <2>2. PICK next : next = n
      OBVIOUS
    <2>3. PICK revision, generation : /\ revision = disk.revision
                                      /\ revision \in Nat
                                      /\ generation = disk.generation
                                      /\ generation \in Nat
      BY RuntimeConstants DEF IInv, Record
    <2>4. Awaits(revision, generation, next)'
      BY <1>0, <2>1, <2>2, <2>3 DEF Awaits
    <2>5. tick' = [pc |-> "batch", revision |-> revision,
                   generation |-> generation, queue |-> tick.queue,
                   defs |-> tick.defs, next |-> next, edges |-> tick.edges]
      BY <1>6, <2>2, <2>3 DEF IInv, TickInv, TickTyped
    <2>6. TickInv'
      BY <1>4, <2>3, <2>4, <2>5, TickWaits DEF Saving
    <2>7. Surroundings'
      BY <1>0, <1>3, <1>6 DEF IInv, Surroundings
    <2> QED
      BY <2>6, <2>7
  <1>7. \/ Return("error", tick.edges) /\ UNCHANGED coord
        \/ /\ r.status = "batch"
           /\ tick' = [tick EXCEPT !.pc = "batch",
                                   !.revision = disk.revision,
                                   !.generation = disk.generation,
                                   !.next = n]
           /\ UNCHANGED <<coord, report>>
        \/ /\ coord' = [coord EXCEPT !.pending = ~ClearsLatch(r.status)]
           /\ \/ Return("evaluated", tick.edges)
              \/ Return("blocked", tick.edges)
    BY DEF ReconcileLoad
  <1> HIDE DEF n, r
  <1>8. coord \in [handled : Nat \cup {None}, pending : BOOLEAN]
    BY DEF IInv, Surroundings
  <1>9. [coord EXCEPT !.pending = ~ClearsLatch(r.status)]
          \in [handled : Nat \cup {None}, pending : BOOLEAN]
    BY <1>8 DEF ClearsLatch
  <1>10. TickInv' /\ Surroundings'
    <2>1. CASE Return("error", tick.edges) /\ UNCHANGED coord
      BY <1>5, <1>8, <2>1
    <2>2. CASE /\ coord' = [coord EXCEPT !.pending = ~ClearsLatch(r.status)]
               /\ Return("evaluated", tick.edges)
      BY <1>5, <1>9, <2>2
    <2>3. CASE /\ coord' = [coord EXCEPT !.pending = ~ClearsLatch(r.status)]
               /\ Return("blocked", tick.edges)
      BY <1>5, <1>9, <2>3
    <2> QED
      BY <1>6, <1>7, <2>1, <2>2, <2>3
  <1> QED
    BY <1>1, <1>2, <1>10 DEF IInv, RecordStep

LEMMA ReconcileSaveStep ==
  ASSUME IInv, ReconcileSave
  PROVE  IInv' /\ RecordStep
  <1>1. PICK status \in {"stored", "unchanged", "conflict", "error"} :
          /\ SaveOccurrence(tick.next, tick.revision, tick.generation, status)
          /\ IF Committed(status)
             THEN /\ coord' = [coord EXCEPT !.pending = FALSE]
                  /\ Return("evaluated", tick.edges \o Edge(tick.next))
             ELSE Return(status, tick.edges) /\ UNCHANGED coord
    BY DEF ReconcileSave
  <1>2. Awaits(tick.revision, tick.generation, tick.next)
    BY DEF IInv, TickInv, TickPending, Saving, ReconcileSave
  <1>3. RecordStep /\ StorageTyped'
    BY <1>1, <1>2, SavedRecord DEF IInv, Surroundings, StorageTyped
  <1>4. DisableInv'
    BY <1>3, DisableKept DEF IInv, ReconcileSave
  <1>5. /\ tick.edges \in Seq(Edges)
        /\ tick.edges \o Edge(tick.next) \in Seq(Edges)
    BY <1>2, EdgeTyped DEF Awaits, IInv, TickInv, TickTyped
  <1>6. /\ TickInv'
        /\ coord' \in [handled : Nat \cup {None}, pending : BOOLEAN]
        /\ report' \in {"evaluated", "conflict", "error"}
    <2>1. CASE Committed(status)
      <3>1. /\ coord' = [coord EXCEPT !.pending = FALSE]
            /\ Return("evaluated", tick.edges \o Edge(tick.next))
        BY <1>1, <2>1
      <3>2. TickInv'
        BY <1>5, <3>1, TickReturned
      <3>3. report' = "evaluated"
        BY <3>1 DEF Return
      <3> QED
        BY <3>1, <3>2, <3>3 DEF IInv, Surroundings
    <2>2. CASE ~Committed(status)
      <3>1. Return(status, tick.edges) /\ UNCHANGED coord
        BY <1>1, <2>2
      <3>2. TickInv'
        BY <1>5, <3>1, TickReturned
      <3>3. report' \in {"conflict", "error"}
        BY <2>2, <3>1 DEF Return, Committed
      <3> QED
        BY <3>1, <3>2, <3>3 DEF IInv, Surroundings
    <2> QED
      BY <2>1, <2>2
  <1>7. Surroundings'
    BY <1>3, <1>6 DEF IInv, Surroundings, StorageTyped, ReconcileSave
  <1> QED
    BY <1>3, <1>4, <1>6, <1>7 DEF IInv, RecordStep

(* The queue of an evaluation: the alarms the schedule has.                *)
LEMMA ScheduleFacts ==
  ASSUME NEW defs \in Schedules
  PROVE  /\ Schedule(defs) \in Seq(AlarmIds)
         /\ \A i \in 1 .. Len(Schedule(defs)) : defs[Schedule(defs)[i]] # None
  <1> DEFINE S == {id \in DOMAIN defs : defs[id] # None}
  <1>1. /\ S \subseteq AlarmIds
        /\ \A a \in S : defs[a] # None /\ defs[a].scheduled \in Int
    BY DEF Schedules, AlarmDefinitions
  <1> HIDE DEF S
  <1>2. InScheduleOrder(defs, S) \in Seq(S)
    BY <1>1, OrderFacts
  <1>3. PICK queue : queue = InScheduleOrder(defs, S)
    OBVIOUS
  <1>4. queue \in Seq(AlarmIds) /\ \A i \in 1 .. Len(queue) : queue[i] \in S
    BY <1>1, <1>2, <1>3
  <1>5. \A i \in 1 .. Len(queue) : defs[queue[i]] # None
    BY <1>1, <1>4
  <1>6. Schedule(defs) = queue
    BY <1>3 DEF Schedule, S
  <1> QED
    BY <1>4, <1>5, <1>6

LEMMA QueueTick ==
  ASSUME NEW occ, NEW done, NEW defs \in Schedules, NEW revision,
         NEW generation, NEW edges \in Seq(Edges), Record',
         disk'.occ = occ, ended' = done, disk'.defs = defs,
         disk'.revision = revision, disk'.generation = generation,
         \/ \E status \in {"evaluated", "frozen"} : Return(status, edges)
         \/ QueueSaves(occ, done, defs, revision, generation, edges)
  PROVE  TickInv' /\ report' \in {report, "evaluated", "frozen"}
  <1>1. ASSUME NEW status \in {"evaluated", "frozen"}, Return(status, edges)
        PROVE  TickInv' /\ report' = status
    BY <1>1, TickReturned DEF Return
  <1>2. ASSUME QueueSaves(occ, done, defs, revision, generation, edges)
        PROVE  TickInv' /\ report' = report
    <2>1. PICK rest \in Seq(AlarmIds) : \E next :
            /\ \A i \in 1 .. Len(rest) : defs[rest[i]] # None
            /\ Written(next) /\ Decides(occ, defs, done, next)
            /\ tick' = [pc |-> "save", revision |-> revision,
                        generation |-> generation, queue |-> rest,
                        defs |-> defs, next |-> next, edges |-> edges]
            /\ report' = report
      BY <1>2 DEF QueueSaves
    <2>2. PICK next :
            /\ \A i \in 1 .. Len(rest) : defs[rest[i]] # None
            /\ Written(next) /\ Decides(occ, defs, done, next)
            /\ tick' = [pc |-> "save", revision |-> revision,
                        generation |-> generation, queue |-> rest,
                        defs |-> defs, next |-> next, edges |-> edges]
            /\ report' = report
      BY <2>1
    <2>3. revision \in Nat /\ generation \in Nat /\ disk'.revision \in Nat
      BY RuntimeConstants DEF Record
    <2>4. Awaits(revision, generation, next)'
      BY <2>2, <2>3 DEF Awaits
    <2>5. "save" \in Saving
      BY DEF Saving
    <2> QED
      BY <2>2, <2>3, <2>4, <2>5, TickWaits
  <1> QED
    BY <1>1, <1>2

LEMMA EvaluateLoadStep ==
  ASSUME IInv, EvaluateLoad
  PROVE  IInv' /\ RecordStep
  <1> DEFINE r     == AdvanceActive(disk.occ, clock.mono)
             queue == Schedule(disk.defs)
  <1>0. /\ UNCHANGED <<disk, fault, ended, clock, coord, disable, alert>>
    BY DEF EvaluateLoad
  <1>1. RecordStep
    BY <1>0, UntouchedRecord DEF IInv
  <1>2. DisableInv'
    BY <1>0, <1>1, DisableKept DEF IInv
  <1>3. failures' \in 0 .. MaxFailures
    BY FailedLoad DEF IInv, Surroundings, StorageTyped, EvaluateLoad
  <1>4. tick.edges \in Seq(Edges)
    BY DEF IInv, TickInv, TickTyped
  <1>5. /\ Good(disk.occ, ended) /\ Storable(disk.occ)
        /\ StateOK(disk.occ) /\ ActiveAboveWatermark(disk.occ)
        /\ disk.defs \in Schedules
        /\ disk.revision \in Nat /\ disk.generation \in Nat
        /\ clock.wall \in Int /\ clock.mono \in Int
    BY RuntimeConstants DEF IInv, Record, Surroundings, Good
  <1>6. /\ queue \in Seq(AlarmIds)
        /\ \A i \in 1 .. Len(queue) : disk.defs[queue[i]] # None
    BY <1>5, ScheduleFacts
  <1>7. \/ Return("error", tick.edges)
        \/ Return("frozen", tick.edges)
        \/ /\ r.persist
           /\ report' = report
           /\ tick' = [tick EXCEPT
                !.pc = "save", !.defs = disk.defs, !.queue = queue,
                !.revision = disk.revision, !.generation = disk.generation,
                !.next = ActiveTransition(disk.occ, r)]
        \/ EvaluateQueue(disk.occ, disk.defs, queue, disk.revision,
                         disk.generation, tick.edges)
    BY DEF EvaluateLoad
  <1> HIDE DEF queue
  <1>8. ASSUME NEW status \in {"error", "frozen"}, Return(status, tick.edges)
        PROVE  /\ TickInv'
               /\ report' \in {report, "error", "frozen", "evaluated"}
    BY <1>4, <1>8, TickReturned DEF Return
  <1>9. ASSUME r.persist, report' = report,
               tick' = [tick EXCEPT
                 !.pc = "save", !.defs = disk.defs, !.queue = queue,
                 !.revision = disk.revision, !.generation = disk.generation,
                 !.next = ActiveTransition(disk.occ, r)]
        PROVE  TickInv'
    <2>1. /\ disk.occ.active # None
          /\ ContinuesOrEnds(disk.occ, r.state) /\ Storable(r.state)
          /\ RingsOn(disk.occ, r)
      BY <1>5, <1>9, AdvanceContinuesOrEnds, StorableAdvance, AdvanceRings
    <2> HIDE DEF r
    <2>2. PICK next, revision, generation, defs :
            /\ next = ActiveTransition(disk.occ, r)
            /\ revision = disk.revision /\ generation = disk.generation
            /\ defs = disk.defs
      OBVIOUS
    <2>3. Written(next) /\ Decides(disk.occ, disk.defs, ended, next)
      BY <1>5, <2>1, <2>2, ActiveTransitionDecides
    <2>4. Awaits(revision, generation, next)'
      BY <1>0, <1>5, <2>2, <2>3 DEF Awaits
    <2>5. tick' = [pc |-> "save", revision |-> revision,
                   generation |-> generation, queue |-> queue,
                   defs |-> defs, next |-> next, edges |-> tick.edges]
      BY <1>9, <2>2 DEF IInv, TickInv, TickTyped
    <2>6. "save" \in Saving
      BY DEF Saving
    <2> QED
      BY <1>0, <1>4, <1>5, <1>6, <2>2, <2>4, <2>5, <2>6, TickWaits
  <1> HIDE DEF r
  <1>10. ASSUME EvaluateQueue(disk.occ, disk.defs, queue, disk.revision,
                              disk.generation, tick.edges)
         PROVE  /\ TickInv'
                /\ report' \in {report, "error", "frozen", "evaluated"}
    <2>1. \/ \E status \in {"evaluated", "frozen"} : Return(status, tick.edges)
          \/ QueueSaves(disk.occ, ended, disk.defs, disk.revision,
                        disk.generation, tick.edges)
      BY <1>5, <1>6, <1>10, EvaluateQueueCases
    <2>2. Record'
      BY <1>1 DEF RecordStep
    <2> QED
      BY <1>0, <1>4, <1>5, <2>1, <2>2, QueueTick
  <1>11. TickInv' /\ report' \in {report, "error", "frozen", "evaluated"}
    <2>1. CASE Return("error", tick.edges)
      BY <1>8, <2>1
    <2>2. CASE Return("frozen", tick.edges)
      BY <1>8, <2>2
    <2> QED
      BY <1>7, <1>9, <1>10, <2>1, <2>2
  <1>12. Surroundings'
    BY <1>0, <1>3, <1>11 DEF IInv, Surroundings
  <1> QED
    BY <1>1, <1>2, <1>11, <1>12 DEF IInv, RecordStep

LEMMA EvaluateSaveStep ==
  ASSUME IInv, EvaluateSave
  PROVE  IInv' /\ RecordStep
  <1>1. PICK status \in {"stored", "unchanged", "conflict", "error"} :
          /\ SaveOccurrence(tick.next, tick.revision, tick.generation, status)
          /\ IF Committed(status)
             THEN EvaluateQueue(tick.next.occ, tick.defs, tick.queue,
                    tick.revision, disk'.generation,
                    IF status = "stored" THEN tick.edges \o Edge(tick.next)
                                         ELSE tick.edges)
             ELSE Return(status, tick.edges)
    BY DEF EvaluateSave
  <1>0. tick.pc = "save" /\ UNCHANGED <<clock, coord, disable, alert>>
    BY DEF EvaluateSave
  <1>2. Awaits(tick.revision, tick.generation, tick.next)
    BY <1>0 DEF IInv, TickInv, TickPending, Saving
  <1>3. /\ RecordStep /\ StorageTyped'
        /\ disk'.revision = disk.revision /\ disk'.defs = disk.defs
        /\ Committed(status) => /\ disk'.occ = tick.next.occ
                                /\ tick.revision = disk'.revision
    BY <1>1, <1>2, SavedRecord DEF IInv, Surroundings, StorageTyped
  <1>4. DisableInv'
    BY <1>0, <1>3, DisableKept DEF IInv
  <1>5. PICK edges \in Seq(Edges) :
          edges = IF status = "stored" THEN tick.edges \o Edge(tick.next)
                                       ELSE tick.edges
    <2>1. /\ tick.edges \in Seq(Edges)
          /\ tick.edges \o Edge(tick.next) \in Seq(Edges)
      BY <1>2, EdgeTyped DEF Awaits, IInv, TickInv, TickTyped
    <2> QED
      BY <2>1
  <1>6. TickInv' /\ report' \in {report, "evaluated", "frozen", "conflict",
                                 "error"}
    <2>1. CASE Committed(status)
      <3>1. /\ tick.defs = disk'.defs /\ tick.revision = disk'.revision
            /\ tick.next.occ = disk'.occ
        BY <1>0, <1>3, <2>1 DEF IInv, TickInv, TickSchedule
      <3>2. PICK occ, defs, queue, done, revision, generation :
              /\ occ = disk'.occ /\ defs = disk'.defs /\ done = ended'
              /\ queue = tick.queue /\ revision = disk'.revision
              /\ generation = disk'.generation
        OBVIOUS
      <3>3. EvaluateQueue(occ, defs, queue, revision, generation, edges)
        BY <1>1, <1>5, <2>1, <3>1, <3>2
      <3>4. Good(occ, done) /\ Storable(occ) /\ defs \in Schedules
        BY <1>3, <3>2 DEF RecordStep, Record, Good, Storable, StateOK,
                          ActiveAboveWatermark, Covered
      <3>5. /\ queue \in Seq(AlarmIds)
            /\ \A i \in 1 .. Len(queue) : defs[queue[i]] # None
        BY <1>0, <3>1, <3>2 DEF IInv, TickInv, TickTyped, TickSchedule
      <3>6. clock.wall \in Int /\ clock.mono \in Int
        BY DEF IInv, Surroundings
      <3>7. \/ \E s \in {"evaluated", "frozen"} : Return(s, edges)
            \/ QueueSaves(occ, done, defs, revision, generation, edges)
        BY <3>3, <3>4, <3>5, <3>6, EvaluateQueueCases
      <3>8. Record'
        BY <1>3 DEF RecordStep
      <3> QED
        BY <3>2, <3>4, <3>7, <3>8, QueueTick
    <2>2. CASE ~Committed(status)
      <3>1. Return(status, tick.edges)
        BY <1>1, <2>2
      <3>2. tick.edges \in Seq(Edges)
        BY DEF IInv, TickInv, TickTyped
      <3>3. report' \in {"conflict", "error"}
        BY <2>2, <3>1 DEF Return, Committed
      <3> QED
        BY <3>1, <3>2, <3>3, TickReturned
    <2> QED
      BY <2>1, <2>2
  <1>7. Surroundings'
    BY <1>0, <1>3, <1>6 DEF IInv, Surroundings, StorageTyped
  <1> QED
    BY <1>3, <1>4, <1>6, <1>7 DEF IInv, RecordStep

LEMMA ExposeStep ==
  ASSUME IInv, Expose
  PROVE  IInv' /\ RecordStep
  <1>0. /\ UNCHANGED <<disk, fault, failures, ended, clock, coord, report,
                       disable>>
        /\ tick' = IdleTick /\ alert' = AlertAfter(alert, tick.edges)
    BY DEF Expose, storage
  <1>1. RecordStep
    BY <1>0, UntouchedRecord DEF IInv
  <1>2. DisableInv'
    BY <1>0, <1>1, DisableKept DEF IInv
  <1>3. TickInv'
    <2>1. /\ << >> \in Seq(AlarmIds) /\ << >> \in Seq(Edges)
      OBVIOUS
    <2>2. TickTyped'
      BY <1>0, <2>1 DEF IdleTick, TickTyped
    <2>3. TickPending' /\ TickSchedule'
      BY <1>0 DEF IdleTick, TickPending, TickSchedule, Saving
    <2> QED
      BY <2>2, <2>3 DEF TickInv
  <1>4. alert' \in OccurrenceIds \cup {None}
    <2>1. CASE tick.edges = << >>
      BY <1>0, <2>1 DEF AlertAfter, IInv, Surroundings
    <2>2. CASE tick.edges # << >>
      <3>1. tick.edges[Len(tick.edges)] \in Edges
        BY <2>2 DEF IInv, TickInv, TickTyped
      <3> QED
        BY <1>0, <2>2, <3>1 DEF AlertAfter, Edges
    <2> QED
      BY <2>1, <2>2
  <1>5. Surroundings'
    BY <1>0, <1>4 DEF IInv, Surroundings
  <1> QED
    BY <1>1, <1>2, <1>3, <1>5 DEF IInv, RecordStep

LEMMA TickStepKeeps ==
  ASSUME IInv, TickStep
  PROVE  IInv' /\ RecordStep
  BY InvalidTickStep, SettleLoadStep, SettleSaveStep, ReconcileLoadStep,
     ReconcileSaveStep, EvaluateLoadStep, EvaluateSaveStep, ExposeStep
     DEF TickStep

-----------------------------------------------------------------------------
(* The disable.  Between its two commits it holds the schedule it loaded;  *)
(* the revision decides whether that schedule may still be saved.          *)
LEMMA AfterDismiss ==
  ASSUME NEW defs \in Schedules, NEW id \in AlarmIds, defs[id] # None,
         NEW stopped, NEW revision \in Nat, revision < MaxRevision,
         DisableAfterDismiss(defs, id, stopped, revision)
  PROVE  DisableInv'
  <1>1. CASE defs[id].enabled
    <2>1. PICK without : without = [defs EXCEPT ![id].enabled = FALSE]
      OBVIOUS
    <2>2. without \in Schedules
      <3>1. defs[id] \in AlarmDefinitions
        BY DEF Schedules
      <3>2. [defs[id] EXCEPT !.enabled = FALSE] \in AlarmDefinitions
        BY <3>1 DEF AlarmDefinitions
      <3>3. without = [defs EXCEPT ![id] = [defs[id] EXCEPT !.enabled = FALSE]]
        BY <2>1 DEF Schedules
      <3> HIDE DEF AlarmDefinitions
      <3> QED
        BY <3>2, <3>3 DEF Schedules
    <2>3. disable' = [pc |-> "define", id |-> id, revision |-> revision,
                      generation |-> 0, defs |-> without, next |-> stopped]
      BY <1>1, <2>1 DEF DisableAfterDismiss, IdleDisable
    <2>4. DisableTyped'
      BY <2>3 DEF DisableTyped
    <2>5. DisablePending'
      BY <2>2, <2>3 DEF DisablePending
    <2> QED
      BY <2>4, <2>5 DEF DisableInv
  <1>2. CASE ~defs[id].enabled
    <2>1. PICK pc \in {"idle", "expose"} :
            disable' = [pc |-> pc, id |-> None, revision |-> 0,
                        generation |-> 0, defs |-> None, next |-> stopped]
      BY <1>2 DEF DisableAfterDismiss, IdleDisable
    <2>2. DisableTyped'
      BY <2>1 DEF DisableTyped
    <2>3. DisablePending'
      BY <2>1 DEF DisablePending
    <2> QED
      BY <2>2, <2>3 DEF DisableInv
  <1> QED
    BY <1>1, <1>2

LEMMA DisableReturned ==
  ASSUME NEW pc \in {"idle", "expose"}, NEW next,
         disable' = [pc |-> pc, id |-> None, revision |-> 0,
                     generation |-> 0, defs |-> None, next |-> next]
  PROVE  DisableInv'
  <1>1. DisableTyped'
    BY DEF DisableTyped
  <1>2. DisablePending'
    BY DEF DisablePending
  <1> QED
    BY <1>1, <1>2 DEF DisableInv

LEMMA IdleDisableKeeps ==
  ASSUME disable' = IdleDisable
  PROVE  DisableInv'
  BY DisableReturned DEF IdleDisable

LEMMA DisableLoadStep ==
  ASSUME IInv, NEW id \in AlarmIds, DisableLoad(id)
  PROVE  IInv' /\ RecordStep
  <1> DEFINE r == DismissActive(disk.occ, disk.occ.active.occurrence_id, TRUE)
  <1>0. /\ UNCHANGED <<disk, fault, ended, clock, coord, tick, alert>>
        /\ disk.revision < MaxRevision /\ report' = "none"
    BY DEF DisableLoad
  <1>1. RecordStep
    BY <1>0, UntouchedRecord DEF IInv
  <1>2. TickInv'
    BY <1>0, <1>1, TickKept DEF IInv
  <1>3. failures' \in 0 .. MaxFailures
    BY FailedLoad DEF IInv, Surroundings, StorageTyped, DisableLoad
  <1>4. Surroundings'
    BY <1>0, <1>3 DEF IInv, Surroundings
  <1>5. /\ Good(disk.occ, ended) /\ Storable(disk.occ)
        /\ ActiveAboveWatermark(disk.occ) /\ disk.defs \in Schedules
        /\ disk.revision \in Nat /\ disk.generation \in Nat
    BY RuntimeConstants DEF IInv, Record, Good
  <1>6. \/ UNCHANGED disable
        \/ /\ disk.defs[id] # None
           /\ disk.occ.active # None
           /\ disable' = [pc |-> "dismiss", id |-> id,
                          revision |-> disk.revision,
                          generation |-> disk.generation,
                          defs |-> disk.defs,
                          next |-> ActiveTransition(disk.occ, r)]
        \/ /\ disk.defs[id] # None
           /\ DisableAfterDismiss(disk.defs, id, NoTransition, disk.revision)
    BY DEF DisableLoad
  <1>7. ASSUME disk.defs[id] # None, disk.occ.active # None,
               disable' = [pc |-> "dismiss", id |-> id,
                           revision |-> disk.revision,
                           generation |-> disk.generation,
                           defs |-> disk.defs,
                           next |-> ActiveTransition(disk.occ, r)]
        PROVE  DisableInv'
    <2>1. /\ ContinuesOrEnds(disk.occ, r.state) /\ Storable(r.state)
          /\ RingsOn(disk.occ, r)
      BY <1>5, <1>7, DismissEnds, StorableDismiss, DismissRings
    <2> HIDE DEF r
    <2>2. PICK next, revision, generation, defs :
            /\ next = ActiveTransition(disk.occ, r)
            /\ revision = disk.revision /\ generation = disk.generation
            /\ defs = disk.defs
      OBVIOUS
    <2>3. Written(next) /\ Decides(disk.occ, disk.defs, ended, next)
      BY <1>5, <1>7, <2>1, <2>2, ActiveTransitionDecides
    <2>4. Awaits(revision, generation, next)'
      BY <1>0, <1>5, <2>2, <2>3 DEF Awaits
    <2>5. disable' = [pc |-> "dismiss", id |-> id, revision |-> revision,
                      generation |-> generation, defs |-> defs, next |-> next]
      BY <1>7, <2>2
    <2>6. revision \in Nat /\ generation \in Nat /\ revision < MaxRevision
          /\ defs \in Schedules /\ defs[id] # None
      BY <1>0, <1>5, <1>7, <2>2
    <2>7. DisableTyped'
      BY <2>5, <2>6 DEF DisableTyped
    <2>8. DisablePending'
      BY <2>4, <2>5, <2>6 DEF DisablePending, Awaits
    <2> QED
      BY <2>7, <2>8 DEF DisableInv
  <1> HIDE DEF r
  <1>8. DisableInv'
    <2>1. CASE UNCHANGED disable
      BY <1>1, <2>1, DisableKept DEF IInv
    <2>2. CASE /\ disk.defs[id] # None
               /\ DisableAfterDismiss(disk.defs, id, NoTransition,
                                      disk.revision)
      BY <1>0, <1>5, <2>2, AfterDismiss
    <2> QED
      BY <1>6, <1>7, <2>1, <2>2
  <1> QED
    BY <1>1, <1>2, <1>4, <1>8 DEF IInv, RecordStep

LEMMA DisableDismissStep ==
  ASSUME IInv, DisableDismiss
  PROVE  IInv' /\ RecordStep
  <1>0. /\ disable.pc = "dismiss"
        /\ UNCHANGED <<clock, coord, tick, report, alert>>
    BY DEF DisableDismiss
  <1>1. PICK status \in {"stored", "unchanged", "conflict", "error"} :
          /\ SaveOccurrence(disable.next, disable.revision,
                            disable.generation, status)
          /\ IF Committed(status)
             THEN DisableAfterDismiss(disable.defs, disable.id,
                    [disable.next EXCEPT !.occ = None, !.outcomes = {}],
                    disable.revision)
             ELSE disable' = IdleDisable
    BY DEF DisableDismiss
  <1>2. Awaits(disable.revision, disable.generation, disable.next)
    BY <1>0 DEF IInv, DisableInv, DisablePending
  <1>3. RecordStep /\ StorageTyped'
    BY <1>1, <1>2, SavedRecord DEF IInv, Surroundings, StorageTyped
  <1>4. TickInv'
    BY <1>0, <1>3, TickKept DEF IInv
  <1>5. Surroundings'
    BY <1>0, <1>3 DEF IInv, Surroundings, StorageTyped
  <1>6. DisableInv'
    <2>1. CASE Committed(status)
      <3>1. PICK stopped : stopped = [disable.next EXCEPT !.occ = None,
                                                          !.outcomes = {}]
        OBVIOUS
      <3>2. DisableAfterDismiss(disable.defs, disable.id, stopped,
                                disable.revision)
        BY <1>1, <2>1, <3>1
      <3>3. /\ disable.defs \in Schedules /\ disable.id \in AlarmIds
            /\ disable.defs[disable.id] # None
            /\ disable.revision \in Nat /\ disable.revision < MaxRevision
        BY <1>0 DEF IInv, DisableInv, DisableTyped, DisablePending
      <3> QED
        BY <3>2, <3>3, AfterDismiss
    <2>2. CASE ~Committed(status)
      BY <1>1, <2>2, IdleDisableKeeps
    <2> QED
      BY <2>1, <2>2
  <1> QED
    BY <1>3, <1>4, <1>5, <1>6 DEF IInv, RecordStep

LEMMA DisableDefineStep ==
  ASSUME IInv, DisableDefine
  PROVE  IInv' /\ RecordStep
  <1>0. /\ disable.pc = "define"
        /\ UNCHANGED <<clock, coord, tick, report, alert>>
        /\ \/ disable' = IdleDisable
           \/ disable' = [IdleDisable EXCEPT !.pc = "expose",
                                             !.next = disable.next]
    BY DEF DisableDefine
  <1>1. PICK status \in {"stored", "unchanged", "conflict", "error"} :
          SaveDefinitions(disable.defs, disable.revision, status)
    BY DEF DisableDefine
  <1>2. /\ disable.defs \in Schedules
        /\ disable.revision \in Nat /\ disable.revision < MaxRevision
    BY <1>0 DEF IInv, DisableInv, DisableTyped, DisablePending
  <1>3. RecordStep /\ StorageTyped'
    BY <1>1, <1>2, SavedDefinitions DEF IInv, Surroundings, StorageTyped
  <1>4. TickInv'
    BY <1>0, <1>3, TickKept DEF IInv
  <1>5. Surroundings'
    BY <1>0, <1>3 DEF IInv, Surroundings, StorageTyped
  <1>6. DisableInv'
    <2>1. CASE disable' = IdleDisable
      BY <2>1, IdleDisableKeeps
    <2>2. CASE disable' = [IdleDisable EXCEPT !.pc = "expose",
                                              !.next = disable.next]
      <3>1. PICK next : next = disable.next
        OBVIOUS
      <3> QED
        BY <2>2, <3>1, DisableReturned DEF IdleDisable
    <2> QED
      BY <1>0, <2>1, <2>2
  <1> QED
    BY <1>3, <1>4, <1>5, <1>6 DEF IInv, RecordStep

LEMMA DisableExposeStep ==
  ASSUME IInv, DisableExpose
  PROVE  IInv' /\ RecordStep
  <1>0. /\ UNCHANGED <<disk, fault, failures, ended, clock, coord, tick,
                       report>>
        /\ disable' = IdleDisable /\ alert' = None
    BY DEF DisableExpose, storage
  <1>1. RecordStep
    BY <1>0, UntouchedRecord DEF IInv
  <1>2. TickInv' /\ DisableInv'
    BY <1>0, <1>1, TickKept, IdleDisableKeeps DEF IInv
  <1>3. Surroundings'
    BY <1>0 DEF IInv, Surroundings
  <1> QED
    BY <1>1, <1>2, <1>3 DEF IInv, RecordStep

-----------------------------------------------------------------------------
(* The other callers, which load and save in one step. *)
LEMMA DefinitionsTyped ==
  ASSUME NEW r \in Nat \ {0}
  PROVE  DefinitionsAt(r) \subseteq AlarmDefinitions
  BY RuntimeConstants DEF DefinitionsAt, AlarmDefinitions

LEMMA SaveScheduleStep ==
  ASSUME IInv, NEW id \in SavedAlarms, SaveSchedule(id)
  PROVE  IInv' /\ RecordStep
  <1>0. /\ UNCHANGED <<clock, coord, tick, disable, alert>>
        /\ disk.revision < MaxRevision /\ report' = "none"
    BY DEF SaveSchedule
  <1>1. disk.defs \in Schedules /\ disk.revision \in Nat \ {0}
    BY DEF IInv, Record
  <1>2. PICK def \in DefinitionsAt(disk.revision + 1) \cup {None} :
          SaveDefinitions([disk.defs EXCEPT ![id] = def], disk.revision,
                          "stored")
    BY DEF SaveSchedule
  <1>3. [disk.defs EXCEPT ![id] = def] \in Schedules
    <2>1. disk.revision + 1 \in Nat \ {0}
      BY <1>1
    <2>2. def \in AlarmDefinitions \cup {None}
      BY <1>2, <2>1, DefinitionsTyped
    <2> QED
      BY <1>1, <2>2, RuntimeConstants DEF Schedules
  <1>4. RecordStep /\ StorageTyped'
    BY <1>0, <1>1, <1>2, <1>3, SavedDefinitions
       DEF IInv, Surroundings, StorageTyped
  <1>5. TickInv' /\ DisableInv'
    BY <1>0, <1>4, TickKept, DisableKept DEF IInv
  <1>6. Surroundings'
    BY <1>0, <1>4 DEF IInv, Surroundings, StorageTyped
  <1> QED
    BY <1>4, <1>5, <1>6 DEF IInv, RecordStep

LEMMA ControlStep ==
  ASSUME IInv, disk.occ.active # None, NEW r, Control(r),
         ContinuesOrEnds(disk.occ, r.state), Storable(r.state),
         RingsOn(disk.occ, r)
  PROVE  IInv' /\ RecordStep
  <1>0. /\ UNCHANGED <<clock, coord, tick, disable>>
        /\ alert' = None /\ report' = "none"
    BY DEF Control
  <1>1. PICK next, revision, generation :
          /\ next = ActiveTransition(disk.occ, r)
          /\ revision = disk.revision /\ generation = disk.generation
    OBVIOUS
  <1>2. SaveOccurrence(next, revision, generation, "stored")
    BY <1>1 DEF Control
  <1>3. Written(next) /\ Decides(disk.occ, disk.defs, ended, next)
    BY <1>1, ActiveTransitionDecides DEF IInv, Record
  <1>4. generation <= disk.generation
    BY <1>1 DEF IInv, Record
  <1>5. Awaits(revision, generation, next)
    BY <1>3, <1>4 DEF Awaits
  <1>6. RecordStep /\ StorageTyped'
    BY <1>2, <1>5, SavedRecord DEF IInv, Surroundings, StorageTyped
  <1>7. TickInv' /\ DisableInv'
    BY <1>0, <1>6, TickKept, DisableKept DEF IInv
  <1>8. Surroundings'
    BY <1>0, <1>6 DEF IInv, Surroundings, StorageTyped
  <1> QED
    BY <1>6, <1>7, <1>8 DEF IInv, RecordStep

LEMMA SnoozeStep ==
  ASSUME IInv, NEW duration \in 0 .. MaxSnooze + 1, Snooze(duration)
  PROVE  IInv' /\ RecordStep
  <1> DEFINE r == RequestSnooze(disk.occ, disk.occ.active.occurrence_id,
                                clock.mono, duration)
  <1>1. disk.occ.active # None /\ Control(r) /\ r.persist
    BY DEF Snooze, Control
  <1>2. /\ Storable(disk.occ) /\ StateOK(disk.occ)
        /\ clock.mono \in Int /\ duration \in Int
    BY EngineConstants DEF IInv, Record, Good, Surroundings
  <1>3. /\ ContinuesOrEnds(disk.occ, r.state) /\ Storable(r.state)
        /\ RingsOn(disk.occ, r)
    BY <1>1, <1>2, SnoozeContinues, StorableSnooze, SnoozeRings
  <1> HIDE DEF r
  <1> QED
    BY <1>1, <1>3, ControlStep

LEMMA DismissStep ==
  ASSUME IInv, Dismiss
  PROVE  IInv' /\ RecordStep
  <1> DEFINE r == DismissActive(disk.occ, disk.occ.active.occurrence_id, FALSE)
  <1>1. disk.occ.active # None /\ Control(r)
    BY DEF Dismiss
  <1>2. Storable(disk.occ) /\ ActiveAboveWatermark(disk.occ)
    BY DEF IInv, Record, Good
  <1>3. /\ ContinuesOrEnds(disk.occ, r.state) /\ Storable(r.state)
        /\ RingsOn(disk.occ, r)
    BY <1>1, <1>2, DismissEnds, StorableDismiss, DismissRings
  <1> HIDE DEF r
  <1> QED
    BY <1>1, <1>3, ControlStep

LEMMA EnvironmentStep ==
  ASSUME IInv, Environment
  PROVE  IInv' /\ RecordStep
  <1>1. ASSUME ClockChange,
               clock' \in [wall : Nat, mono : Nat, valid : BOOLEAN,
                           boot : 1 .. MaxBoots, off : Nat]
        PROVE  IInv' /\ RecordStep
    <2>0. /\ UNCHANGED <<disk, fault, failures, ended, coord, tick, disable,
                         alert>>
          /\ report' = "none"
      BY <1>1 DEF ClockChange, storage
    <2>1. RecordStep
      BY <2>0, UntouchedRecord DEF IInv
    <2>2. TickInv' /\ DisableInv'
      BY <2>0, <2>1, TickKept, DisableKept DEF IInv
    <2>3. Surroundings'
      BY <1>1, <2>0 DEF IInv, Surroundings
    <2> QED
      BY <2>1, <2>2, <2>3 DEF IInv, RecordStep
  <1>2. clock \in [wall : Nat, mono : Nat, valid : BOOLEAN,
                   boot : 1 .. MaxBoots, off : Nat]
    BY DEF IInv, Surroundings
  <1>3. CASE PassTime
    <2>1. clock' = [clock EXCEPT !.wall = @ + 1, !.mono = @ + 1]
      BY <1>3 DEF PassTime
    <2>2. PICK w \in Nat, m \in Nat : w = clock.wall /\ m = clock.mono
      BY <1>2
    <2>3. clock' = [wall |-> w + 1, mono |-> m + 1, valid |-> clock.valid,
                    boot |-> clock.boot, off |-> clock.off]
      BY <1>2, <2>1, <2>2
    <2>5. /\ w + 1 \in Nat /\ m + 1 \in Nat /\ clock.valid \in BOOLEAN
          /\ clock.boot \in 1 .. MaxBoots /\ clock.off \in Nat
      BY <1>2, <2>2
    <2>4. clock' \in [wall : Nat, mono : Nat, valid : BOOLEAN,
                      boot : 1 .. MaxBoots, off : Nat]
      BY <2>3, <2>5
    <2> QED
      BY <1>1, <1>3, <2>4 DEF PassTime
  <1>4. CASE LoseTime
    BY <1>1, <1>2, <1>4 DEF LoseTime
  <1>5. ASSUME NEW w \in 0 .. MaxWall, CorrectWall(w) \/ RegainTime(w)
        PROVE  IInv' /\ RecordStep
    <2>1. w \in Nat
      BY RuntimeConstants
    <2>2. /\ ClockChange
          /\ \/ clock' = [clock EXCEPT !.wall = w]
             \/ clock' = [clock EXCEPT !.valid = TRUE, !.wall = w]
      BY <1>5 DEF CorrectWall, RegainTime
    <2>3. clock' \in [wall : Nat, mono : Nat, valid : BOOLEAN,
                      boot : 1 .. MaxBoots, off : Nat]
      BY <1>2, <2>1, <2>2
    <2> QED
      BY <1>1, <2>2, <2>3
  <1>6. ASSUME NEW w \in 0 .. MaxWall, Reboot(w)
        PROVE  IInv' /\ RecordStep
    <2>0. /\ UNCHANGED <<disk, failures, ended>>
          /\ tick' = IdleTick /\ disable' = IdleDisable
          /\ fault' = FALSE /\ report' = "none" /\ alert' = None
      BY <1>6 DEF Reboot
    <2>1. RecordStep
      BY <2>0, UntouchedRecord DEF IInv
    <2>2. DisableInv'
      BY <2>0, IdleDisableKeeps
    <2>3. TickInv'
      <3>1. /\ << >> \in Seq(AlarmIds) /\ << >> \in Seq(Edges)
        OBVIOUS
      <3>2. TickTyped'
        BY <2>0, <3>1 DEF IdleTick, TickTyped
      <3>3. TickPending' /\ TickSchedule'
        BY <2>0 DEF IdleTick, TickPending, TickSchedule, Saving
      <3> QED
        BY <3>2, <3>3 DEF TickInv
    <2>4. PICK valid \in BOOLEAN, boot \in 1 .. MaxBoots, off \in Nat :
            clock' = [wall |-> w, mono |-> 0, valid |-> valid,
                      boot |-> boot, off |-> off]
      <3>1. PICK valid \in BOOLEAN :
              clock' = [wall |-> w, mono |-> 0, valid |-> valid,
                        boot |-> clock.boot + 1,
                        off |-> IF Corrections THEN 0 ELSE clock.wall]
        BY <1>6 DEF Reboot
      <3>2. clock.boot + 1 \in 1 .. MaxBoots
        BY <1>2, <1>6, RuntimeConstants DEF Reboot
      <3>3. (IF Corrections THEN 0 ELSE clock.wall) \in Nat
        BY <1>2
      <3> QED
        BY <3>1, <3>2, <3>3
    <2>5. coord' \in [handled : Nat \cup {None}, pending : BOOLEAN]
      BY <1>6 DEF Reboot
    <2>6. w \in Nat
      BY RuntimeConstants
    <2>7. Surroundings'
      BY <2>0, <2>4, <2>5, <2>6 DEF IInv, Surroundings
    <2> QED
      BY <2>1, <2>2, <2>3, <2>7 DEF IInv, RecordStep
  <1> QED
    BY <1>3, <1>4, <1>5, <1>6 DEF Environment

-----------------------------------------------------------------------------
LEMMA InitEstablishesIInv ==
  ASSUME Init
  PROVE  IInv
  <1>1. /\ disk.revision = 1 /\ disk.generation = 1
        /\ disk.defs \in InitialDefs /\ disk.occ = EmptyState
        /\ disk = [revision |-> 1, defs |-> disk.defs, occ |-> EmptyState,
                   generation |-> 1]
    BY DEF Init
  <1>2. disk.defs \in Schedules
    BY <1>1, DefinitionsTyped, InitialSchedules DEF Schedules
  <1>3. /\ EmptyState.active = None /\ EmptyState.terminal = << >>
        /\ EmptyState.watermarks = [a \in AlarmIds |-> None]
        /\ EmptyState = State(None, << >>, [a \in AlarmIds |-> None])
    BY DEF EmptyState, State
  <1>4. StateOK(EmptyState)
    BY <1>3 DEF StateOK
  <1>5. Good(EmptyState, {})
    BY <1>3, <1>4 DEF Good, ActiveAboveWatermark, Covered
  <1>6. Storable(EmptyState)
    <2>1. << >> \in Seq(TerminalRecords) /\ Len(<< >>) = 0
      OBVIOUS
    <2>2. Recorded(EmptyState.terminal)
      BY <1>3, <2>1, EngineConstants DEF Recorded
    <2>3. Tracked(EmptyState) = {}
      BY <1>3 DEF Tracked
    <2>4. Cardinality(Tracked(EmptyState)) <= Capacity
      BY <2>3, FS_EmptySet, EngineConstants
    <2> QED
      BY <1>3, <1>4, <2>2, <2>4 DEF Storable
  <1>7. disk \in [revision : 1 .. MaxRevision, defs : Schedules,
                  occ : {disk.occ}, generation : Nat \ {0}]
    BY <1>1, <1>2, RuntimeConstants
  <1>8. Record
    BY <1>1, <1>5, <1>6, <1>7 DEF Record, Init
  <1>9. Surroundings
    <2>1. clock \in [wall : Nat, mono : Nat, valid : BOOLEAN,
                     boot : 1 .. MaxBoots, off : Nat]
      BY RuntimeConstants DEF Init
    <2>2. coord \in [handled : Nat \cup {None}, pending : BOOLEAN]
      BY DEF Init
    <2>3. fault \in BOOLEAN /\ failures \in 0 .. MaxFailures
      <3>1. fault = FALSE /\ failures = 0
        BY DEF Init
      <3>2. fault \in BOOLEAN
        BY <3>1
      <3>3. failures \in 0 .. MaxFailures
        BY <3>1, RuntimeConstants
      <3> QED
        BY <3>2, <3>3
    <2>4. report = "none" /\ alert = None
      BY DEF Init
    <2> QED
      BY <2>1, <2>2, <2>3, <2>4 DEF Surroundings
  <1>10. TickInv
    <2>1. /\ << >> \in Seq(AlarmIds) /\ << >> \in Seq(Edges)
      OBVIOUS
    <2>2. TickTyped
      BY <2>1 DEF Init, IdleTick, TickTyped
    <2>3. TickPending /\ TickSchedule
      BY DEF Init, IdleTick, TickPending, TickSchedule, Saving
    <2> QED
      BY <2>2, <2>3 DEF TickInv
  <1>11. DisableInv
    BY DEF Init, IdleDisable, DisableInv, DisableTyped, DisablePending
  <1> QED
    BY <1>8, <1>9, <1>10, <1>11 DEF IInv

LEMMA NextKeepsIInv ==
  ASSUME IInv, [Next]_vars
  PROVE  IInv' /\ RecordStep
  <1>1. CASE TickStep
    BY <1>1, TickStepKeeps
  <1>2. CASE DisableStep
    BY <1>2, DisableDismissStep, DisableDefineStep, DisableExposeStep
       DEF DisableStep
  <1>3. ASSUME NEW id \in AlarmIds, DisableLoad(id)
        PROVE  IInv' /\ RecordStep
    BY <1>3, DisableLoadStep
  <1>4. ASSUME NEW id \in SavedAlarms, SaveSchedule(id)
        PROVE  IInv' /\ RecordStep
    BY <1>4, SaveScheduleStep
  <1>5. ASSUME NEW duration \in 0 .. MaxSnooze + 1, Snooze(duration)
        PROVE  IInv' /\ RecordStep
    BY <1>5, SnoozeStep
  <1>6. CASE Dismiss
    BY <1>6, DismissStep
  <1>7. CASE Environment
    BY <1>7, EnvironmentStep
  <1>8. CASE UNCHANGED vars
    <2>0. UNCHANGED <<disk, fault, failures, clock, coord, tick, report,
                      disable, alert, ended>>
      BY <1>8 DEF vars
    <2>1. RecordStep
      BY <2>0, UntouchedRecord DEF IInv
    <2>2. TickInv' /\ DisableInv'
      BY <2>0, <2>1, TickKept, DisableKept DEF IInv
    <2>3. Surroundings'
      BY <2>0 DEF IInv, Surroundings
    <2> QED
      BY <2>1, <2>2, <2>3 DEF IInv, RecordStep
  <1> QED
    BY <1>1, <1>2, <1>3, <1>4, <1>5, <1>6, <1>7, <1>8 DEF Next

THEOREM Invariance == Spec => []IInv
  <1>1. Init => IInv
    BY InitEstablishesIInv
  <1>2. IInv /\ [Next]_vars => IInv'
    BY NextKeepsIInv
  <1> QED
    BY <1>1, <1>2, PTL DEF Spec

(* Every variable keeps its type, whatever is interleaved: in particular   *)
(* the committed state has every field the engine reads, and the alert     *)
(* sounds for an occurrence.                                               *)
THEOREM TypeCorrectness == Spec => []TypeOK
  <1>1. ASSUME IInv
        PROVE  TypeOK
    <2>1. disk \in [revision : 1 .. MaxRevision,
                    defs : [AlarmIds -> AlarmDefinitions \cup {None}],
                    occ : {disk.occ}, generation : Nat \ {0}]
      BY <1>1 DEF IInv, Record, Schedules
    <2>2. /\ disk.occ.active \in ActiveOccurrences \cup {None}
          /\ disk.occ.terminal \in Seq(TerminalRecords)
          /\ disk.occ.watermarks \in [AlarmIds -> Int \cup {None}]
      BY <1>1 DEF IInv, Record, Storable, StateOK, Recorded
    <2>3. ended \subseteq OccurrenceIds
      BY <1>1 DEF IInv, Record, Good
    <2>4. /\ tick.pc \in {"idle", "settle", "reconcile", "batch", "evaluate",
                          "save", "expose"}
          /\ disable.pc \in {"idle", "dismiss", "define", "expose"}
      BY <1>1 DEF IInv, TickInv, TickTyped, Saving, DisableInv, DisableTyped
    <2> QED
      BY <1>1, <2>1, <2>2, <2>3, <2>4 DEF TypeOK, IInv, Surroundings
  <1> QED
    BY <1>1, Invariance, PTL

(* Nothing a tick or a disable is about to save is ever malformed: the     *)
(* store refuses a transition only because the record has changed.         *)
THEOREM PendingIsSavable == Spec => []TransitionsSavable
  <1>1. ASSUME IInv
        PROVE  TransitionsSavable
    <2>1. ASSUME tick.next # NoTransition
          PROVE  SavableState(tick.next.occ)
      <3>1. Awaits(tick.revision, tick.generation, tick.next)
        BY <1>1, <2>1 DEF IInv, TickInv, TickPending
      <3>2. PICK occ : occ = tick.next.occ
        OBVIOUS
      <3> QED
        BY <3>1, <3>2, StorableIsSavable DEF Awaits, Written
    <2>2. ASSUME disable.pc = "dismiss"
          PROVE  SavableState(disable.next.occ)
      <3>1. Awaits(disable.revision, disable.generation, disable.next)
        BY <1>1, <2>2 DEF IInv, DisableInv, DisablePending
      <3>2. PICK occ : occ = disable.next.occ
        OBVIOUS
      <3> QED
        BY <3>1, <3>2, StorableIsSavable DEF Awaits, Written
    <2> QED
      BY <2>1, <2>2 DEF TransitionsSavable
  <1> QED
    BY <1>1, Invariance, PTL

(* What becomes active or missed is committed and enabled at that commit,  *)
(* however long ago the tick that decided it loaded the schedule.          *)
THEOREM CommittedScheduleDecides == Spec => OutcomesFromCommittedSchedule
  <1>1. IInv /\ [Next]_vars => [JustifiedOutcomes]_vars
    BY NextKeepsIInv DEF RecordStep
  <1> QED
    BY <1>1, Invariance, PTL
       DEF Spec, OutcomesFromCommittedSchedule, JustifiedOutcomes

(* The committed record keeps the ledger: with ticks, disables, controls   *)
(* and schedule commits interleaved, and writes failing either way, an     *)
(* occurrence is admitted at most once, and its outcome is final.          *)
THEOREM RuntimeImplementsLedger == Spec => ImplementsLedger
  <1>1. Init => Ledger!LedgerInit
    BY DEF Init, EmptyState, State, Ledger!LedgerInit, Active
  <1>2. IInv /\ [Next]_vars => [Ledger!LedgerNext]_(Ledger!ledger)
    BY NextKeepsIInv DEF RecordStep, LedgerStep
  <1> QED
    BY <1>1, <1>2, Invariance, PTL DEF Spec, ImplementsLedger,
       Ledger!LedgerSpec

-----------------------------------------------------------------------------
(* One task at a time: what a tick that returned, one that has settled and *)
(* one that waits for a save have still to show.                           *)
LEMMA EdgeStarts ==
  ASSUME NEW next, Written(next)
  PROVE  /\ OneStart(Edge(next))
         /\ Started(Edge(next)) => next.edge = "start"
  <1>1. CASE next.edge = "none"
    <2>1. Edge(next) = << >>
      BY <1>1 DEF Edge
    <2> QED
      BY <2>1 DEF OneStart, Started
  <1>2. CASE next.edge # "none"
    <2>1. Edge(next) = <<[edge |-> next.edge, who |-> next.who]>>
      BY <1>2 DEF Edge
    <2>2. /\ Len(Edge(next)) = 1
          /\ Edge(next)[1] = [edge |-> next.edge, who |-> next.who]
      BY <2>1
    <2> QED
      BY <2>2 DEF OneStart, Started
  <1> QED
    BY <1>1, <1>2

LEMMA EdgeAppended ==
  ASSUME NEW next, Written(next), NEW edges \in Seq(Edges), ~Started(edges)
  PROVE  /\ OneStart(edges \o Edge(next))
         /\ Started(edges \o Edge(next)) => next.edge = "start"
  <1>1. CASE next.edge = "none"
    <2>1. edges \o Edge(next) = edges
      BY <1>1 DEF Edge
    <2> QED
      BY <2>1 DEF OneStart, Started
  <1>2. CASE next.edge # "none"
    <2>1. PICK e : e = [edge |-> next.edge, who |-> next.who]
      OBVIOUS
    <2>2. e \in Edges /\ Edge(next) = <<e>>
      BY <1>2, <2>1 DEF Edge, Written, Edges
    <2>3. /\ Len(edges \o <<e>>) = Len(edges) + 1
          /\ \A i \in 1 .. Len(edges) : (edges \o <<e>>)[i] = edges[i]
          /\ (edges \o <<e>>)[Len(edges) + 1] = e
      BY <2>2
    <2>4. \A i \in 1 .. Len(edges) + 1 :
            (edges \o <<e>>)[i].edge = "start" =>
              i = Len(edges) + 1 /\ e.edge = "start"
      BY <2>3 DEF Started
    <2> QED
      BY <2>1, <2>2, <2>3, <2>4 DEF OneStart, Started
  <1> QED
    BY <1>1, <1>2

(* What sounds after the edge of a transition is what its state rings.     *)
LEMMA EdgeSounds ==
  ASSUME NEW sounding, NEW edges \in Seq(Edges), NEW next, Written(next)
  PROVE  AlertAfter(sounding, edges \o Edge(next))
           = IF next.edge = "none" THEN AlertAfter(sounding, edges)
             ELSE Rings(next.occ)
  <1>1. CASE next.edge = "none"
    <2>1. edges \o Edge(next) = edges
      BY <1>1 DEF Edge
    <2> QED
      BY <1>1, <2>1
  <1>2. CASE next.edge # "none"
    <2>1. PICK e : e = [edge |-> next.edge, who |-> next.who]
      OBVIOUS
    <2>2. e \in Edges /\ Edge(next) = <<e>>
      BY <1>2, <2>1 DEF Edge, Written, Edges
    <2>3. PICK all : all = edges \o Edge(next)
      OBVIOUS
    <2>4. /\ all # << >> /\ Len(all) = Len(edges) + 1
          /\ all[Len(all)] = e
      BY <2>2, <2>3
    <2>5. AlertAfter(sounding, all)
            = IF e.edge = "start" THEN e.who ELSE None
      BY <2>4 DEF AlertAfter
    <2>6. Rings(next.occ) = IF e.edge = "start" THEN e.who ELSE None
      BY <2>1 DEF Written
    <2> QED
      BY <1>2, <2>3, <2>5, <2>6
  <1> QED
    BY <1>1, <1>2

LEMMA ReturnedTick ==
  ASSUME NEW status, NEW edges, Return(status, edges),
         OneStart(edges), DisableIdle'
  PROVE  /\ Sequential'
         /\ tick'.edges = edges /\ tick'.pc \in {"idle", "expose"}
         /\ tick'.pc = "idle" \/ edges # << >>
         /\ report' = status
  <1>1. /\ tick'.edges = edges /\ tick'.pc \in {"idle", "expose"}
        /\ tick'.pc = IF edges = << >> THEN "idle" ELSE "expose"
        /\ report' = status
    BY DEF Return, IdleTick
  <1>2. tick'.pc = "idle" => tick'.edges = << >>
    BY <1>1
  <1> QED
    BY <1>1, <1>2 DEF Sequential, OneStart

LEMMA ReturnSounds ==
  ASSUME NEW status, NEW edges, Return(status, edges), DisableIdle',
         OneStart(edges), UNCHANGED alert,
         NEW shown, shown = AlertAfter(alert, edges), Heard(shown)',
         ~BootPending' \/ edges = << >>,
         status = "evaluated" => ~fault' /\ ~BootPending'
  PROVE  Sounding'
  <1>1. /\ tick'.edges = edges /\ tick'.pc \in {"idle", "expose"}
        /\ tick'.pc = "idle" \/ edges # << >>
        /\ report' = status
    BY ReturnedTick
  <1>2. disable'.pc = "idle"
    BY DEF DisableIdle
  <1>3. Shown' = shown
    BY <1>1, <1>2 DEF Shown, Dismissed, AlertAfter
  <1>4. Heard(Shown)'
    BY <1>3 DEF Heard
  <1> QED
    BY <1>1, <1>2, <1>4 DEF Sounding, Saving, DisableIdle

LEMMA SettledTells ==
  ASSUME NEW edges, Settled(edges), DisableIdle', OneStart(edges),
         Started(edges) => Unmoved(disk.occ)', UNCHANGED clock, Surroundings
  PROVE  /\ Sequential'
         /\ ~BootPending'
         /\ \A shown :
              /\ UNCHANGED alert /\ shown = AlertAfter(alert, edges)
              /\ Heard(shown)' /\ (report = "evaluated" => ~fault')
              => Sounding'
  <1>1. /\ tick'.edges = edges /\ tick'.pc \in {"reconcile", "evaluate"}
        /\ report' = report
    BY DEF Settled, IdleTick
  <1>2. ~BootPending'
    <2>1. coord' = [coord EXCEPT !.handled = clock.boot]
      BY DEF Settled
    <2>2. coord'.handled = clock.boot
      BY <2>1 DEF Surroundings
    <2> QED
      BY <2>2 DEF BootPending
  <1>3. Sequential'
    BY <1>1 DEF Sequential, OneStart, Started, Unmoved, TickIdle
  <1>4. ASSUME NEW shown, UNCHANGED alert, shown = AlertAfter(alert, edges),
               Heard(shown)', report = "evaluated" => ~fault'
        PROVE  Sounding'
    <2>1. disable'.pc = "idle"
      BY DEF DisableIdle
    <2>2. Shown' = shown
      BY <1>1, <1>4, <2>1 DEF Shown, Dismissed, AlertAfter
    <2>3. Heard(Shown)'
      BY <1>4, <2>2 DEF Heard
    <2> QED
      BY <1>1, <1>2, <1>4, <2>1, <2>3 DEF Sounding, Saving, DisableIdle
  <1> QED
    BY <1>2, <1>3, <1>4

LEMMA WaitsTells ==
  ASSUME NEW pc \in Saving, NEW next, NEW edges,
         tick'.pc = pc, tick'.next = next, tick'.edges = edges,
         DisableIdle', OneStart(edges),
         IF pc = "settle"
         THEN edges = << >> /\ (next.edge = "start" => Unmoved(next.occ)')
         ELSE ~Started(edges)
  PROVE  /\ Sequential'
         /\ \A shown :
              /\ UNCHANGED alert /\ shown = AlertAfter(alert, edges)
              /\ Heard(shown)' /\ Unheard(next, shown)'
              /\ BootPending' => pc = "settle"
              /\ report' = report
              /\ report = "evaluated" => ~fault' /\ ~BootPending'
              => Sounding'
  <1>1. pc \in {"settle", "batch", "save"}
    BY DEF Saving
  <1>2. Sequential'
    BY <1>1 DEF Sequential, OneStart, Started, Unmoved, TickIdle
  <1>3. ASSUME NEW shown,
               UNCHANGED alert, shown = AlertAfter(alert, edges),
               Heard(shown)', Unheard(next, shown)',
               BootPending' => pc = "settle",
               report' = report,
               report = "evaluated" => ~fault' /\ ~BootPending'
        PROVE  Sounding'
    <2>1. disable'.pc = "idle"
      BY DEF DisableIdle
    <2>2. Shown' = shown
      BY <1>3, <2>1 DEF Shown, Dismissed, AlertAfter
    <2>3. Heard(Shown)'
      BY <1>3, <2>2 DEF Heard
    <2>4. Unheard(tick.next, Shown)'
      BY <1>3, <2>2 DEF Unheard, RecoveredBy
    <2> QED
      BY <1>1, <1>3, <2>1, <2>3, <2>4 DEF Sounding, DisableIdle
  <1> QED
    BY <1>2, <1>3

(* What a save tells its caller: a save that is acknowledged, or finds its *)
(* state stored, leaves that state; one that is not either changes nothing *)
(* or, as long as a write that lands can be read back, is known to fail.   *)
LEMMA SaveTells ==
  ASSUME StorageTyped, NEW next, NEW revision, NEW generation, NEW status,
         Record, SaveOccurrence(next, revision, generation, status)
  PROVE  /\ disk'.occ \in {disk.occ, next.occ}
         /\ Committed(status) => ~fault /\ ~fault'
         /\ status = "unchanged" => disk.occ = next.occ
         /\ "unverified" \notin Failures /\ ~Committed(status) =>
              fault' \/ UNCHANGED <<disk, fault>>
  <1> DEFINE settled == JournalVerdict(next.occ, revision, generation)
             record  == [disk EXCEPT !.occ = next.occ]
  <1>1. settled = "unchanged" => disk.occ = next.occ
    BY DEF JournalVerdict
  <1>2. disk'.occ \in {disk.occ, next.occ}
    BY SaveOccurrenceCases DEF Stored, Record
  <1> HIDE DEF settled
  <1>3. CASE fault /\ status = "error" /\ UNCHANGED storage
    BY <1>2, <1>3 DEF storage, Committed
  <1>4. CASE ~fault /\ settled # "write" /\ status = settled
             /\ UNCHANGED storage
    BY <1>1, <1>2, <1>4 DEF storage
  <1>5. CASE /\ ~fault /\ settled = "write" /\ status \in {"stored", "error"}
             /\ WriteRecord(record, next.outcomes, status = "stored")
    <2>1. status = "stored" => fault' = fault
      BY <1>5 DEF WriteRecord
    <2>2. "unverified" \notin Failures /\ status # "stored" =>
            fault' \/ UNCHANGED <<disk, fault>>
      BY <1>5 DEF WriteRecord
    <2> QED
      BY <1>2, <1>5, <2>1, <2>2 DEF Committed, StorageTyped
  <1> QED
    BY <1>3, <1>4, <1>5 DEF SaveOccurrence, settled

LEMMA CommitHeard ==
  ASSUME NEW next, Written(next), NEW edges \in Seq(Edges),
         disk'.occ = next.occ, Unheard(next, AlertAfter(alert, edges)),
         UNCHANGED clock, ~BootPending',
         NEW shown, shown = AlertAfter(alert, edges \o Edge(next))
  PROVE  Heard(shown)' /\ shown = Rings(next.occ)
  <1>1. shown = IF next.edge = "none" THEN AlertAfter(alert, edges)
                ELSE Rings(next.occ)
    <2>1. PICK sounding : sounding = alert
      OBVIOUS
    <2> QED
      BY <2>1, EdgeSounds
  <1>2. next.edge = "none" => Rings(next.occ) = None
    BY DEF Written
  <1>3. shown = Rings(next.occ)
    BY <1>1, <1>2 DEF Unheard
  <1>4. Rings(disk.occ)' = Rings(next.occ) /\ RecoveredBy(disk.occ, clock.boot)'
    BY DEF Rings, IsRinging, RecoveredBy, Unheard
  <1> QED
    BY <1>3, <1>4 DEF Heard

LEMMA RefusedHeard ==
  ASSUME NEW shown, NEW next, Heard(shown), RecoveredBy(next.occ, clock.boot),
         disk'.occ \in {disk.occ, next.occ}, UNCHANGED <<clock, coord>>,
         fault' \/ UNCHANGED <<disk, fault>>, StorageTyped'
  PROVE  Heard(shown)'
  <1>1. RecoveredBy(disk.occ, clock.boot)'
    BY DEF Heard, RecoveredBy
  <1>2. BootPending' <=> BootPending
    BY DEF BootPending
  <1>3. CASE fault'
    BY <1>1, <1>2, <1>3 DEF Heard
  <1>4. CASE UNCHANGED <<disk, fault>>
    <2>1. Rings(disk.occ)' = Rings(disk.occ) /\ Active' = Active
      BY <1>4 DEF Rings, IsRinging, Active
    <2> QED
      BY <1>1, <1>2, <1>4, <2>1 DEF Heard
  <1> QED
    BY <1>3, <1>4

LEMMA TickAlone ==
  ASSUME ~Concurrent, Sequential, TickIdle => TickMayRun, UNCHANGED disable
  PROVE  DisableIdle /\ DisableIdle' /\ Shown = AlertAfter(alert, tick.edges)
  BY DEF Sequential, TickMayRun, DisableIdle, Shown, Dismissed

-----------------------------------------------------------------------------
(* One lemma per action: it keeps Sequential, and it keeps Sounding, the   *)
(* saves as long as no write lands unverified.                             *)
Verified == "unverified" \notin Failures

LEMMA InvalidTickTells ==
  ASSUME IInv, ~Concurrent, Sequential, InvalidTick
  PROVE  Sequential' /\ (Sounding => Sounding')
  <1>0. /\ UNCHANGED <<disk, fault, clock, tick, disable, alert>>
        /\ coord' = [coord EXCEPT !.pending = TRUE] /\ report' = "frozen"
    BY DEF InvalidTick, storage
  <1>1. coord'.handled = coord.handled
    BY <1>0 DEF IInv, Surroundings
  <1>2. Sequential'
    BY <1>0 DEF Sequential, Unmoved, TickIdle, DisableIdle
  <1>3. ASSUME Sounding
        PROVE  Sounding'
    <2>1. /\ Shown' = Shown /\ Active' = Active
          /\ Rings(disk.occ)' = Rings(disk.occ)
          /\ BootPending' <=> BootPending
      BY <1>0, <1>1 DEF Shown, Dismissed, Active, Rings, IsRinging,
                        BootPending
    <2>2. Heard(Shown)'
      BY <1>0, <1>3, <2>1 DEF Sounding, Heard, RecoveredBy
    <2>3. tick.pc \in Saving => Unheard(tick.next, Shown)'
      BY <1>0, <1>3, <2>1 DEF Sounding, Unheard, RecoveredBy
    <2> QED
      BY <1>0, <1>3, <2>1, <2>2, <2>3 DEF Sounding, Unheard
  <1> QED
    BY <1>2, <1>3

LEMMA SettleLoadTells ==
  ASSUME IInv, ~Concurrent, Sequential, SettleLoad
  PROVE  Sequential' /\ (Sounding => Sounding')
  <1> DEFINE r == Settlement(disk.occ)
  <1>0. /\ UNCHANGED <<disk, fault, clock, disable, alert>>
        /\ TickIdle /\ TickMayRun /\ fault \in BOOLEAN
    BY DEF SettleLoad, IInv, Surroundings
  <1>1. /\ DisableIdle /\ DisableIdle' /\ tick.edges = << >>
        /\ Shown = AlertAfter(alert, << >>)
    <2>1. tick.edges = << >>
      BY <1>0 DEF Sequential, TickIdle
    <2> QED
      BY <1>0, <2>1, TickAlone
  <1>2. PICK shown : shown = AlertAfter(alert, << >>)
    OBVIOUS
  <1>3. Sounding => Heard(shown) /\ (BootPending => shown = None)
    BY <1>1, <1>2 DEF Sounding, Heard
  <1>4. OneStart(<< >>) /\ ~Started(<< >>)
    BY DEF OneStart, Started
  <1>5. ASSUME UNCHANGED coord, Heard(shown)
        PROVE  Heard(shown)'
    BY <1>0, <1>5 DEF Heard, RecoveredBy, Rings, IsRinging, Active,
                      BootPending
  <1>6. ASSUME NEW status \in {"error", "frozen"}, Return(status, << >>),
               UNCHANGED coord
        PROVE  Sequential' /\ (Sounding => Sounding')
    <2>1. Sequential'
      BY <1>1, <1>4, <1>6, ReturnedTick
    <2>2. ASSUME Sounding
          PROVE  Sounding'
      BY <1>0, <1>1, <1>2, <1>3, <1>4, <1>5, <1>6, <2>2, ReturnSounds
    <2> QED
      BY <2>1, <2>2
  <1>7. ASSUME Settled(<< >>), ~fault,
               disk.occ.active = None \/ r.status # "invalid_time",
               disk.occ.active = None \/ ~r.persist
        PROVE  Sequential' /\ (Sounding => Sounding')
    <2>1. Sequential' /\ ~BootPending'
      BY <1>0, <1>1, <1>4, <1>7, SettledTells DEF IInv
    <2>2. ASSUME Sounding
          PROVE  Sounding'
      <3>1. shown = Rings(disk.occ)
        <4>1. CASE ~BootPending
          BY <1>3, <1>7, <2>2, <4>1 DEF Heard
        <4>2. CASE BootPending
          <5>1. disk.occ.active = None
            <6>1. Active # None => Active.last_recovery_boot # clock.boot
              BY <1>3, <1>7, <2>2, <4>2 DEF Heard
            <6>2. CASE disk.occ.active # None
              <7>1. RecoverAfterReboot(disk.occ, clock.wall, clock.boot).status
                      # "invalid_time"
                BY <1>7, <4>2, <6>2 DEF Settlement
              <7>2. ~RecoverAfterReboot(disk.occ, clock.wall, clock.boot).persist
                BY <1>7, <4>2, <6>2, <7>1
                   DEF Settlement, RecoverAfterReboot, Result, NoChange
              <7> QED
                BY <6>1, <6>2, <7>1, <7>2, NothingRecovered DEF Active
            <6> QED
              BY <6>2
          <5> QED
            BY <1>3, <2>2, <4>2, <5>1 DEF Rings, IsRinging
        <4> QED
          BY <4>1, <4>2
      <3>2. Heard(shown)'
        <4>1. RecoveredBy(disk.occ, clock.boot)'
          BY <1>0, <1>3, <2>2 DEF Heard, RecoveredBy
        <4>2. Rings(disk.occ)' = Rings(disk.occ)
          BY <1>0 DEF Rings, IsRinging
        <4> QED
          BY <2>1, <3>1, <4>1, <4>2 DEF Heard
      <3> QED
        BY <1>0, <1>1, <1>2, <1>4, <1>7, <3>2, SettledTells DEF IInv
    <2> QED
      BY <2>1, <2>2
  <1>8. ASSUME disk.occ.active # None, r.status # "invalid_time", r.persist,
               ~fault,
               tick' = [IdleTick EXCEPT
                          !.pc = "settle",
                          !.revision = disk.revision,
                          !.generation = disk.generation,
                          !.next = ActiveTransition(disk.occ, r)],
               UNCHANGED <<coord, report>>
        PROVE  Sequential' /\ (Sounding => Sounding')
    <2>1. /\ RingsOn(disk.occ, r)
          /\ r.start => ~AdvanceActive(r.state, clock.mono).persist
          /\ IF BootPending
             THEN r.state.active # None =>
                    r.state.active.last_recovery_boot = clock.boot
             ELSE /\ r.start \/ r.stop
                  /\ r.state.active # None =>
                       r.state.active.last_recovery_boot
                         = disk.occ.active.last_recovery_boot
      BY <1>8, SettlementRings DEF IInv
    <2> HIDE DEF r
    <2>2. PICK next : next = ActiveTransition(disk.occ, r)
      OBVIOUS
    <2>3. /\ next.occ = r.state
          /\ next.edge = "start" <=> r.start
          /\ next.edge = "none" => ~r.start /\ ~r.stop
      BY <2>2 DEF ActiveTransition, Transition
    <2>4. /\ tick'.pc = "settle" /\ tick'.next = next
          /\ tick'.edges = << >>
      BY <1>8, <2>2 DEF IdleTick
    <2>5. next.edge = "start" => Unmoved(next.occ)'
      BY <1>0, <2>1, <2>3 DEF RingsOn, Unmoved
    <2>6. Sequential'
      BY <1>1, <1>4, <2>4, <2>5, WaitsTells DEF Saving
    <2>7. ASSUME Sounding
          PROVE  Sounding'
      <3>1. Heard(shown)'
        BY <1>3, <1>5, <1>8, <2>7
      <3>2. RecoveredBy(next.occ, clock.boot)
        <4>1. RecoveredBy(disk.occ, clock.boot) /\ clock.boot \in Nat
          BY <1>3, <2>7, RuntimeConstants DEF Heard, IInv, Surroundings
        <4> QED
          BY <1>8, <2>1, <2>3, <4>1 DEF RecoveredBy
      <3>3. next.edge = "none" => shown = None
        BY <1>3, <2>1, <2>3, <2>7
      <3>4. Unheard(next, shown)'
        BY <1>0, <3>2, <3>3 DEF Unheard, RecoveredBy
      <3>5. report' = report /\ (report = "evaluated" => ~BootPending')
        BY <1>0, <1>8, <2>7 DEF Sounding, BootPending
      <3>6. ~fault'
        BY <1>0, <1>8
      <3> QED
        BY <1>0, <1>1, <1>2, <1>4, <2>4, <2>5, <3>1, <3>4, <3>5, <3>6,
           WaitsTells DEF Saving
    <2> QED
      BY <2>6, <2>7
  <1>9. \/ Return("error", << >>) /\ UNCHANGED coord
        \/ Return("frozen", << >>) /\ UNCHANGED coord
        \/ /\ Settled(<< >>) /\ ~fault
           /\ disk.occ.active = None \/ r.status # "invalid_time"
           /\ disk.occ.active = None \/ ~r.persist
        \/ /\ disk.occ.active # None /\ ~fault
           /\ r.status # "invalid_time" /\ r.persist
           /\ tick' = [IdleTick EXCEPT
                         !.pc = "settle",
                         !.revision = disk.revision,
                         !.generation = disk.generation,
                         !.next = ActiveTransition(disk.occ, r)]
           /\ UNCHANGED <<coord, report>>
    BY DEF SettleLoad, LoadWorks
  <1> HIDE DEF r
  <1> QED
    <2>1. CASE Return("error", << >>) /\ UNCHANGED coord
      BY <1>6, <2>1
    <2>2. CASE Return("frozen", << >>) /\ UNCHANGED coord
      BY <1>6, <2>2
    <2> QED
      BY <1>7, <1>8, <1>9, <2>1, <2>2

(* The transition that waits for its save, as constants.                   *)
LEMMA WaitingTransition ==
  ASSUME IInv, tick.pc \in Saving
  PROVE  \E next, revision, generation :
           /\ next = tick.next /\ revision = tick.revision
           /\ generation = tick.generation
           /\ Awaits(revision, generation, next)
           /\ Written(next) /\ Edge(next) \in Seq(Edges)
  <1>1. Awaits(tick.revision, tick.generation, tick.next)
    BY DEF IInv, TickInv, TickPending
  <1>2. PICK next, revision, generation :
          next = tick.next /\ revision = tick.revision
          /\ generation = tick.generation
    OBVIOUS
  <1>3. Written(next)
    BY <1>1, <1>2 DEF Awaits
  <1> QED
    BY <1>1, <1>2, <1>3, EdgeTyped

LEMMA SettleSaveTells ==
  ASSUME IInv, ~Concurrent, Sequential, SettleSave
  PROVE  Sequential' /\ (Verified /\ Sounding => Sounding')
  <1>0. /\ UNCHANGED <<clock, disable, alert>> /\ tick.pc = "settle"
        /\ StorageTyped /\ Record /\ Surroundings
    BY DEF SettleSave, IInv, Surroundings, StorageTyped
  <1>1. /\ DisableIdle /\ DisableIdle' /\ tick.edges = << >>
        /\ Shown = AlertAfter(alert, << >>)
    <2>1. tick.edges = << >> /\ ~TickIdle
      BY <1>0 DEF Sequential, TickIdle
    <2> QED
      BY <1>0, <2>1, TickAlone
  <1>2. PICK next, revision, generation :
          /\ next = tick.next /\ revision = tick.revision
          /\ generation = tick.generation
          /\ Awaits(revision, generation, next)
          /\ Written(next) /\ Edge(next) \in Seq(Edges)
    BY <1>0, WaitingTransition DEF Saving
  <1>3. PICK shown : shown = AlertAfter(alert, << >>)
    OBVIOUS
  <1>4. PICK status \in {"stored", "unchanged", "conflict", "error"} :
          /\ SaveOccurrence(next, revision, generation, status)
          /\ IF Committed(status) THEN Settled(Edge(next))
             ELSE Return(status, << >>) /\ UNCHANGED coord
    BY <1>2 DEF SettleSave
  <1>5. /\ disk'.occ \in {disk.occ, next.occ}
        /\ Committed(status) => ~fault /\ ~fault'
        /\ Verified /\ ~Committed(status) =>
             fault' \/ UNCHANGED <<disk, fault>>
    BY <1>0, <1>4, SaveTells DEF Verified
  <1>6. /\ Committed(status) => disk'.occ = next.occ
        /\ StorageTyped'
    BY <1>0, <1>2, <1>4, SavedRecord
  <1>7. OneStart(<< >>)
    BY DEF OneStart
  <1>8. CASE Committed(status)
    <2>1. Started(Edge(next)) => Unmoved(disk.occ)'
      <3>1. next.edge = "start" => Unmoved(next.occ)
        BY <1>0, <1>2 DEF Sequential
      <3> QED
        BY <1>0, <1>2, <1>6, <1>8, <3>1, EdgeStarts DEF Unmoved
    <2>2. OneStart(Edge(next)) /\ Settled(Edge(next))
      BY <1>2, <1>4, <1>8, EdgeStarts
    <2>3. Sequential' /\ ~BootPending'
      BY <1>0, <1>1, <2>1, <2>2, SettledTells
    <2>4. ASSUME Sounding
          PROVE  Sounding'
      <3>1. PICK after : after = AlertAfter(alert, Edge(next))
        OBVIOUS
      <3>2. << >> \o Edge(next) = Edge(next) /\ << >> \in Seq(Edges)
        BY <1>2
      <3>3. Unheard(next, AlertAfter(alert, << >>))
        BY <1>0, <1>1, <1>2, <2>4 DEF Sounding, Saving
      <3>4. Heard(after)'
        BY <1>0, <1>2, <1>6, <1>8, <2>3, <3>1, <3>2, <3>3, CommitHeard
      <3> QED
        BY <1>0, <1>1, <1>5, <1>8, <2>1, <2>2, <3>1, <3>4, SettledTells
    <2> QED
      BY <2>3, <2>4
  <1>9. CASE ~Committed(status)
    <2>1. Return(status, << >>) /\ UNCHANGED coord
      BY <1>4, <1>9
    <2>2. Sequential'
      BY <1>1, <1>7, <2>1, ReturnedTick
    <2>3. ASSUME Sounding, Verified
          PROVE  Sounding'
      <3>1. Heard(shown) /\ RecoveredBy(next.occ, clock.boot)
        BY <1>0, <1>1, <1>2, <1>3, <2>3 DEF Sounding, Saving, Unheard
      <3>2. Heard(shown)'
        BY <1>0, <1>5, <1>6, <1>9, <2>1, <2>3, <3>1, RefusedHeard
      <3>3. status # "evaluated"
        OBVIOUS
      <3> QED
        BY <1>0, <1>1, <1>3, <1>7, <2>1, <3>2, <3>3, ReturnSounds
    <2> QED
      BY <2>2, <2>3
  <1> QED
    BY <1>8, <1>9

LEMMA ReconcileLoadTells ==
  ASSUME IInv, ~Concurrent, Sequential, ReconcileLoad
  PROVE  Sequential' /\ (Sounding => Sounding')
  <1> DEFINE r == Reconciliation(disk.occ, disk.defs, clock.wall, clock.mono)
  <1>0. /\ UNCHANGED <<disk, fault, ended, clock, disable, alert>>
        /\ tick.pc = "reconcile" /\ Record /\ Surroundings
        /\ coord'.handled = coord.handled
        /\ Good(disk.occ, ended) /\ Storable(disk.occ)
        /\ disk.defs \in Schedules
        /\ clock.wall \in Int /\ clock.mono \in Int
    BY DEF ReconcileLoad, IInv, Surroundings, Record
  <1>1. /\ DisableIdle /\ DisableIdle' /\ OneStart(tick.edges)
        /\ Shown = AlertAfter(alert, tick.edges)
        /\ Started(tick.edges) => Unmoved(disk.occ)
    BY <1>0, TickAlone DEF Sequential, TickIdle
  <1>2. PICK edges, shown : /\ edges = tick.edges
                            /\ shown = AlertAfter(alert, edges)
    OBVIOUS
  <1>3. /\ BootPending' <=> BootPending
        /\ Heard(shown) => Heard(shown)'
        /\ Sounding => Heard(shown) /\ ~BootPending
    BY <1>0, <1>1, <1>2 DEF Sounding, Heard, BootPending, RecoveredBy, Rings,
                            IsRinging, Active
  <1>4. ASSUME NEW status, Return(status, edges), status = "evaluated" => ~fault
        PROVE  Sequential' /\ (Sounding => Sounding')
    <2>1. Sequential'
      BY <1>1, <1>2, <1>4, ReturnedTick
    <2>2. ASSUME Sounding
          PROVE  Sounding'
      BY <1>0, <1>1, <1>2, <1>3, <1>4, <2>2, ReturnSounds
    <2> QED
      BY <2>1, <2>2
  <1>5. ASSUME NEW next, r.status = "batch", ~fault,
               next = Transition(r.state,
                        IF r.ringing = None THEN "none" ELSE "start",
                        IF r.ringing = None THEN None
                        ELSE r.state.active.occurrence_id,
                        MissedIds(disk.defs, r.missed)),
               tick' = [tick EXCEPT
                          !.pc = "batch", !.revision = disk.revision,
                          !.generation = disk.generation, !.next = next],
               UNCHANGED <<coord, report>>
        PROVE  Sequential' /\ (Sounding => Sounding')
    <2>1. /\ Written(next) /\ disk.occ.active = None /\ Fresh(next)
      BY <1>0, <1>5, BatchTransitionDecides
    <2>2. ~Started(edges)
      BY <1>1, <1>2, <2>1 DEF Unmoved
    <2>3. /\ tick'.pc = "batch" /\ tick'.next = next /\ tick'.edges = edges
      BY <1>2, <1>5 DEF IInv, TickInv, TickTyped
    <2>4. Sequential'
      BY <1>1, <1>2, <2>2, <2>3, WaitsTells DEF Saving
    <2>5. ASSUME Sounding
          PROVE  Sounding'
      <3>1. shown = None
        BY <1>3, <1>5, <2>1, <2>5 DEF Heard, Rings, IsRinging
      <3>2. Unheard(next, shown)'
        BY <2>1, <3>1 DEF Unheard, Fresh, RecoveredBy
      <3> QED
        BY <1>0, <1>1, <1>2, <1>3, <1>5, <2>2, <2>3, <2>5, <3>2, WaitsTells
           DEF Saving
    <2> QED
      BY <2>4, <2>5
  <1>6. \/ Return("error", edges)
        \/ ~fault /\ Return("evaluated", edges)
        \/ Return("blocked", edges)
        \/ \E next :
             /\ r.status = "batch" /\ ~fault
             /\ next = Transition(r.state,
                         IF r.ringing = None THEN "none" ELSE "start",
                         IF r.ringing = None THEN None
                         ELSE r.state.active.occurrence_id,
                         MissedIds(disk.defs, r.missed))
             /\ tick' = [tick EXCEPT
                          !.pc = "batch", !.revision = disk.revision,
                          !.generation = disk.generation, !.next = next]
             /\ UNCHANGED <<coord, report>>
    <2> HIDE DEF r
    <2>1. \/ LoadFails /\ Return("error", tick.edges)
          \/ /\ LoadWorks
             /\ IF r.status = "batch"
                THEN /\ tick' = [tick EXCEPT
                        !.pc = "batch",
                        !.revision = disk.revision,
                        !.generation = disk.generation,
                        !.next = Transition(r.state,
                          IF r.ringing = None THEN "none" ELSE "start",
                          IF r.ringing = None THEN None
                          ELSE r.state.active.occurrence_id,
                          MissedIds(disk.defs, r.missed))]
                     /\ UNCHANGED <<coord, report>>
                ELSE Return(IF r.status \in {"nothing_crossed",
                                             "active_conflict"}
                            THEN "evaluated" ELSE "blocked", tick.edges)
      BY DEF ReconcileLoad, r
    <2> QED
      BY <1>2, <2>1 DEF LoadWorks
  <1> HIDE DEF r
  <1> QED
    BY <1>4, <1>5, <1>6

LEMMA ReconcileSaveTells ==
  ASSUME IInv, ~Concurrent, Sequential, ReconcileSave
  PROVE  Sequential' /\ (Verified /\ Sounding => Sounding')
  <1>0. /\ UNCHANGED <<clock, disable, alert>> /\ tick.pc = "batch"
        /\ StorageTyped /\ Record /\ Surroundings
        /\ tick.edges \in Seq(Edges)
    BY DEF ReconcileSave, IInv, Surroundings, StorageTyped, TickInv, TickTyped
  <1>1. /\ DisableIdle /\ DisableIdle' /\ OneStart(tick.edges)
        /\ Shown = AlertAfter(alert, tick.edges)
        /\ ~Started(tick.edges)
    BY <1>0, TickAlone DEF Sequential, TickIdle
  <1>2. PICK next, revision, generation :
          /\ next = tick.next /\ revision = tick.revision
          /\ generation = tick.generation
          /\ Awaits(revision, generation, next)
          /\ Written(next) /\ Edge(next) \in Seq(Edges)
    BY <1>0, WaitingTransition DEF Saving
  <1>3. PICK edges \in Seq(Edges) : edges = tick.edges
    BY <1>0
  <1>4. PICK shown : shown = AlertAfter(alert, edges)
    OBVIOUS
  <1>5. PICK status \in {"stored", "unchanged", "conflict", "error"} :
          /\ SaveOccurrence(next, revision, generation, status)
          /\ coord'.handled = coord.handled
          /\ IF Committed(status)
             THEN Return("evaluated", edges \o Edge(next))
             ELSE Return(status, edges) /\ UNCHANGED coord
    BY <1>0, <1>2, <1>3 DEF ReconcileSave, Surroundings
  <1>6. /\ disk'.occ \in {disk.occ, next.occ}
        /\ Committed(status) => ~fault /\ ~fault'
        /\ Verified /\ ~Committed(status) =>
             fault' \/ UNCHANGED <<disk, fault>>
    BY <1>0, <1>5, SaveTells DEF Verified
  <1>7. /\ Committed(status) => disk'.occ = next.occ
        /\ StorageTyped'
    BY <1>0, <1>2, <1>5, SavedRecord
  <1>8. Sounding => /\ ~BootPending' /\ Unheard(next, shown) /\ Heard(shown)
    BY <1>0, <1>1, <1>2, <1>3, <1>4, <1>5 DEF Sounding, Saving, BootPending
  <1>9. CASE Committed(status)
    <2>1. PICK all : all = edges \o Edge(next)
      OBVIOUS
    <2>2. OneStart(all) /\ Return("evaluated", all)
      BY <1>1, <1>2, <1>3, <1>5, <1>9, <2>1, EdgeAppended
    <2>3. Sequential'
      BY <1>1, <2>2, ReturnedTick
    <2>4. ASSUME Sounding
          PROVE  Sounding'
      <3>1. PICK after : after = AlertAfter(alert, all)
        OBVIOUS
      <3>2. Heard(after)'
        BY <1>0, <1>2, <1>4, <1>7, <1>8, <1>9, <2>1, <2>4, <3>1, CommitHeard
      <3> QED
        BY <1>0, <1>1, <1>6, <1>8, <1>9, <2>2, <2>4, <3>1, <3>2, ReturnSounds
    <2> QED
      BY <2>3, <2>4
  <1>10. CASE ~Committed(status)
    <2>1. Return(status, edges) /\ UNCHANGED coord
      BY <1>5, <1>10
    <2>2. Sequential'
      BY <1>1, <1>3, <2>1, ReturnedTick
    <2>3. ASSUME Sounding, Verified
          PROVE  Sounding'
      <3>1. RecoveredBy(next.occ, clock.boot)
        BY <1>8, <2>3 DEF Unheard
      <3>2. Heard(shown)'
        BY <1>0, <1>6, <1>7, <1>8, <1>10, <2>1, <2>3, <3>1, RefusedHeard
      <3>3. status # "evaluated"
        OBVIOUS
      <3> QED
        BY <1>0, <1>1, <1>3, <1>4, <1>8, <2>1, <2>3, <3>2, <3>3, ReturnSounds
    <2> QED
      BY <2>2, <2>3
  <1> QED
    BY <1>9, <1>10

LEMMA QueueTells ==
  ASSUME NEW occ, NEW done, NEW defs, NEW revision, NEW generation, NEW edges,
         \/ \E status \in {"evaluated", "frozen"} : Return(status, edges)
         \/ QueueSaves(occ, done, defs, revision, generation, edges),
         OneStart(edges), Started(edges) => occ.active # None,
         DisableIdle', UNCHANGED <<clock, coord, alert>>, ~fault',
         disk'.occ = occ
  PROVE  /\ Sequential'
         /\ \A shown :
              /\ shown = AlertAfter(alert, edges)
              /\ Heard(shown)' /\ ~BootPending'
              => Sounding'
  <1>1. CASE \E status \in {"evaluated", "frozen"} : Return(status, edges)
    <2>1. PICK status : Return(status, edges)
      BY <1>1
    <2>2. Sequential'
      BY <2>1, ReturnedTick
    <2>3. ASSUME NEW shown, shown = AlertAfter(alert, edges), Heard(shown)',
                 ~BootPending'
          PROVE  Sounding'
      BY <2>1, <2>3, ReturnSounds
    <2> QED
      BY <2>2, <2>3
  <1>2. CASE QueueSaves(occ, done, defs, revision, generation, edges)
    <2>1. PICK rest, next :
            /\ Written(next) /\ occ.active = None /\ Fresh(next)
            /\ tick' = [pc |-> "save", revision |-> revision,
                        generation |-> generation, queue |-> rest,
                        defs |-> defs, next |-> next, edges |-> edges]
            /\ report' = report
      BY <1>2 DEF QueueSaves
    <2>2. ~Started(edges)
      BY <2>1
    <2>3. /\ tick'.pc = "save" /\ tick'.next = next /\ tick'.edges = edges
      BY <2>1
    <2>4. Sequential'
      BY <2>2, <2>3, WaitsTells DEF Saving
    <2>5. ASSUME NEW shown, shown = AlertAfter(alert, edges), Heard(shown)',
                 ~BootPending'
          PROVE  Sounding'
      <3>1. Unheard(next, shown)'
        <4>1. shown = None
          BY <2>1, <2>5 DEF Heard, Rings, IsRinging
        <4> QED
          BY <2>1, <4>1 DEF Unheard, RecoveredBy, Fresh
      <3> QED
        BY <2>1, <2>2, <2>3, <2>5, <3>1, WaitsTells DEF Saving
    <2> QED
      BY <2>4, <2>5
  <1> QED
    BY <1>1, <1>2

LEMMA EvaluateLoadTells ==
  ASSUME IInv, ~Concurrent, Sequential, EvaluateLoad
  PROVE  Sequential' /\ (Sounding => Sounding')
  <1> DEFINE r     == AdvanceActive(disk.occ, clock.mono)
             queue == Schedule(disk.defs)
  <1>0. /\ UNCHANGED <<disk, fault, ended, clock, coord, disable, alert>>
        /\ Good(disk.occ, ended) /\ Storable(disk.occ) /\ StateOK(disk.occ)
        /\ disk.defs \in Schedules /\ fault \in BOOLEAN
        /\ clock.wall \in Int /\ clock.mono \in Int
        /\ \/ tick.pc = "evaluate"
           \/ TickIdle /\ TickMayRun /\ ~BootPending
    <2>1. /\ Good(disk.occ, ended) /\ Storable(disk.occ)
          /\ StateOK(disk.occ) /\ disk.defs \in Schedules
      BY DEF IInv, Record, Good
    <2>2. fault \in BOOLEAN /\ clock.wall \in Int /\ clock.mono \in Int
      BY DEF IInv, Surroundings
    <2>3. UNCHANGED <<disk, fault, ended, clock, coord, disable, alert>>
      BY DEF EvaluateLoad
    <2>4. \/ tick.pc = "evaluate"
          \/ TickIdle /\ TickMayRun /\ ~BootPending
      BY DEF EvaluateLoad
    <2> QED
      BY <2>1, <2>2, <2>3, <2>4
  <1>1. /\ DisableIdle /\ DisableIdle' /\ OneStart(tick.edges)
        /\ Shown = AlertAfter(alert, tick.edges)
        /\ Started(tick.edges) => Unmoved(disk.occ)
    <2>1. TickIdle => ~Started(tick.edges)
      BY DEF Sequential, TickIdle, Started
    <2> QED
      BY <1>0, <2>1, TickAlone DEF Sequential, TickIdle
  <1>2. PICK edges, shown : /\ edges = tick.edges
                            /\ shown = AlertAfter(alert, edges)
    OBVIOUS
  <1>3. /\ BootPending' <=> BootPending
        /\ Heard(shown) => Heard(shown)'
        /\ Sounding => Heard(shown) /\ ~BootPending
    BY <1>0, <1>1, <1>2 DEF Sounding, Heard, BootPending, RecoveredBy, Rings,
                            IsRinging, Active
  <1>4. ASSUME NEW status \in {"error", "frozen"}, Return(status, edges)
        PROVE  Sequential' /\ (Sounding => Sounding')
    <2>1. Sequential'
      BY <1>1, <1>2, <1>4, ReturnedTick
    <2>2. ASSUME Sounding
          PROVE  Sounding'
      BY <1>0, <1>1, <1>2, <1>3, <1>4, <2>2, ReturnSounds
    <2> QED
      BY <2>1, <2>2
  <1>5. ASSUME r.persist, report' = report, ~fault,
               tick' = [tick EXCEPT
                 !.pc = "save", !.defs = disk.defs, !.queue = queue,
                 !.revision = disk.revision, !.generation = disk.generation,
                 !.next = ActiveTransition(disk.occ, r)]
        PROVE  Sequential' /\ (Sounding => Sounding')
    <2>1. /\ r.start \/ r.stop
          /\ r.state.active # None =>
               r.state.active.last_recovery_boot
                 = disk.occ.active.last_recovery_boot
          /\ disk.occ.active # None
      <3>1. disk.occ.active # None
        BY <1>5 DEF AdvanceActive, NoChange
      <3> QED
        BY <1>0, <1>5, <3>1, AdvanceRings
    <2>2. ~Started(edges)
      BY <1>1, <1>2, <1>5 DEF Unmoved
    <2> HIDE DEF r
    <2>3. PICK next : next = ActiveTransition(disk.occ, r)
      OBVIOUS
    <2>4. next.occ = r.state /\ next.edge # "none"
      BY <2>1, <2>3 DEF ActiveTransition, Transition
    <2>5. /\ tick'.pc = "save" /\ tick'.next = next /\ tick'.edges = edges
      BY <1>2, <1>5, <2>3 DEF IInv, TickInv, TickTyped
    <2>6. Sequential'
      BY <1>1, <1>2, <2>2, <2>5, WaitsTells DEF Saving
    <2>7. ASSUME Sounding
          PROVE  Sounding'
      <3>1. RecoveredBy(disk.occ, clock.boot) /\ Heard(shown)' /\ ~BootPending'
        BY <1>3, <2>7 DEF Heard
      <3>2. Unheard(next, shown)'
        <4>1. RecoveredBy(next.occ, clock.boot)
          BY <2>1, <2>4, <3>1 DEF RecoveredBy
        <4> QED
          BY <1>0, <2>4, <4>1 DEF Unheard, RecoveredBy
      <3> QED
        BY <1>0, <1>1, <1>2, <1>5, <2>2, <2>5, <3>1, <3>2, WaitsTells
           DEF Saving
    <2> QED
      BY <2>6, <2>7
  <1>6. ASSUME ~r.persist, ~fault,
               EvaluateQueue(disk.occ, disk.defs, queue, disk.revision,
                             disk.generation, edges)
        PROVE  Sequential' /\ (Sounding => Sounding')
    <2>1. PICK occ, done, defs, revision, generation :
            /\ occ = disk.occ /\ done = ended /\ defs = disk.defs
            /\ revision = disk.revision /\ generation = disk.generation
      OBVIOUS
    <2>2. /\ queue \in Seq(AlarmIds)
          /\ \A i \in 1 .. Len(queue) : disk.defs[queue[i]] # None
      BY <1>0, ScheduleFacts
    <2> HIDE DEF queue
    <2>3. \/ \E status \in {"evaluated", "frozen"} : Return(status, edges)
          \/ QueueSaves(occ, done, defs, revision, generation, edges)
      BY <1>0, <1>6, <2>1, <2>2, EvaluateQueueCases
    <2>4. Started(edges) => occ.active # None
      BY <1>1, <1>2, <2>1 DEF Unmoved
    <2>5. Sequential'
      BY <1>0, <1>1, <1>2, <1>6, <2>1, <2>3, <2>4, QueueTells
    <2>6. ASSUME Sounding
          PROVE  Sounding'
      BY <1>0, <1>1, <1>2, <1>3, <1>6, <2>1, <2>3, <2>4, <2>6, QueueTells
    <2> QED
      BY <2>5, <2>6
  <1>7. \/ Return("error", edges)
        \/ Return("frozen", edges)
        \/ /\ r.persist /\ ~fault
           /\ report' = report
           /\ tick' = [tick EXCEPT
                !.pc = "save", !.defs = disk.defs, !.queue = queue,
                !.revision = disk.revision, !.generation = disk.generation,
                !.next = ActiveTransition(disk.occ, r)]
        \/ /\ ~r.persist /\ ~fault
           /\ EvaluateQueue(disk.occ, disk.defs, queue, disk.revision,
                            disk.generation, edges)
    BY <1>2 DEF EvaluateLoad, LoadWorks
  <1> HIDE DEF r, queue
  <1> QED
    <2>1. CASE Return("error", edges)
      BY <1>4, <2>1
    <2>2. CASE Return("frozen", edges)
      BY <1>4, <2>2
    <2> QED
      BY <1>5, <1>6, <1>7, <2>1, <2>2

LEMMA EvaluateSaveTells ==
  ASSUME IInv, ~Concurrent, Sequential, EvaluateSave
  PROVE  Sequential' /\ (Verified /\ Sounding => Sounding')
  <1>0. /\ UNCHANGED <<clock, coord, disable, alert>> /\ tick.pc = "save"
        /\ StorageTyped /\ Record /\ Surroundings
        /\ tick.edges \in Seq(Edges)
    BY DEF EvaluateSave, IInv, Surroundings, StorageTyped, TickInv, TickTyped
  <1>1. /\ DisableIdle /\ DisableIdle' /\ OneStart(tick.edges)
        /\ Shown = AlertAfter(alert, tick.edges)
        /\ ~Started(tick.edges)
    BY <1>0, TickAlone DEF Sequential, TickIdle
  <1>2. PICK next, revision, generation :
          /\ next = tick.next /\ revision = tick.revision
          /\ generation = tick.generation
          /\ Awaits(revision, generation, next)
          /\ Written(next) /\ Edge(next) \in Seq(Edges)
    BY <1>0, WaitingTransition DEF Saving
  <1>3. PICK edges \in Seq(Edges) : edges = tick.edges
    BY <1>0
  <1>4. PICK shown : shown = AlertAfter(alert, edges)
    OBVIOUS
  <1>5. PICK status \in {"stored", "unchanged", "conflict", "error"},
             all \in Seq(Edges) :
          /\ SaveOccurrence(next, revision, generation, status)
          /\ all = IF status = "stored" THEN edges \o Edge(next) ELSE edges
          /\ IF Committed(status)
             THEN EvaluateQueue(next.occ, tick.defs, tick.queue, revision,
                                disk'.generation, all)
             ELSE Return(status, edges)
    <2>1. edges \o Edge(next) \in Seq(Edges)
      BY <1>2
    <2> QED
      BY <1>2, <1>3, <2>1 DEF EvaluateSave
  <1>6. /\ disk'.occ \in {disk.occ, next.occ}
        /\ Committed(status) => ~fault /\ ~fault'
        /\ status = "unchanged" => disk.occ = next.occ
        /\ Verified /\ ~Committed(status) =>
             fault' \/ UNCHANGED <<disk, fault>>
    BY <1>0, <1>5, SaveTells DEF Verified
  <1>7. /\ RecordStep /\ StorageTyped' /\ disk'.defs = disk.defs
        /\ Committed(status) => /\ disk'.occ = next.occ
                                /\ revision = disk'.revision
                                /\ disk'.revision = disk.revision
    BY <1>0, <1>2, <1>5, SavedRecord
  <1>8. Sounding => /\ ~BootPending /\ ~BootPending'
                    /\ Unheard(next, shown) /\ Heard(shown)
    BY <1>0, <1>1, <1>2, <1>3, <1>4 DEF Sounding, Saving, BootPending
  <1>9. CASE Committed(status)
    <2>1. PICK occ, defs, queue, done, r, g :
            /\ occ = disk'.occ /\ defs = disk'.defs /\ done = ended'
            /\ queue = tick.queue /\ r = disk'.revision
            /\ g = disk'.generation
      OBVIOUS
    <2>2. tick.defs = disk'.defs /\ revision = disk'.revision
          /\ next.occ = disk'.occ
      BY <1>0, <1>2, <1>7, <1>9 DEF IInv, TickInv, TickSchedule
    <2>3. EvaluateQueue(occ, defs, queue, r, g, all)
      BY <1>5, <1>9, <2>1, <2>2
    <2>4. Good(occ, done) /\ Storable(occ) /\ defs \in Schedules
      BY <1>7, <2>1 DEF RecordStep, Record, Good, Storable, StateOK,
                        ActiveAboveWatermark, Covered
    <2>5. /\ queue \in Seq(AlarmIds)
          /\ \A i \in 1 .. Len(queue) : defs[queue[i]] # None
      BY <1>0, <2>1, <2>2 DEF IInv, TickInv, TickTyped, TickSchedule
    <2>6. clock.wall \in Int /\ clock.mono \in Int
      BY DEF IInv, Surroundings
    <2>7. \/ \E s \in {"evaluated", "frozen"} : Return(s, all)
          \/ QueueSaves(occ, done, defs, r, g, all)
      BY <2>3, <2>4, <2>5, <2>6, EvaluateQueueCases
    <2>8. OneStart(all) /\ (Started(all) => next.edge = "start")
      BY <1>1, <1>2, <1>3, <1>5, EdgeAppended
    <2>9. Started(all) => occ.active # None
      <3>1. next.edge = "start" => next.who # None
        BY <1>2, NoneIsNoIdentity DEF Written
      <3> QED
        BY <1>2, <2>1, <2>2, <2>8, <3>1 DEF Written, Rings, IsRinging
    <2>10. Sequential'
      BY <1>0, <1>1, <1>6, <1>9, <2>1, <2>7, <2>8, <2>9, QueueTells
    <2>11. ASSUME Sounding
           PROVE  Sounding'
      <3>1. PICK after : after = AlertAfter(alert, all)
        OBVIOUS
      <3>2. Heard(after)'
        <4>1. CASE status = "stored"
          BY <1>0, <1>2, <1>4, <1>5, <1>7, <1>8, <1>9, <2>11, <3>1, <4>1,
             CommitHeard
        <4>2. CASE status = "unchanged"
          <5>1. after = shown /\ disk'.occ = disk.occ
            BY <1>4, <1>5, <1>6, <1>7, <1>9, <3>1, <4>2
          <5>2. shown = Rings(disk.occ) /\ RecoveredBy(disk.occ, clock.boot)
            BY <1>6, <1>8, <1>9, <2>11 DEF Heard
          <5>3. /\ Rings(disk.occ)' = Rings(disk.occ)
                /\ RecoveredBy(disk.occ, clock.boot)'
            BY <1>0, <5>1, <5>2 DEF Rings, IsRinging, RecoveredBy
          <5> QED
            BY <1>8, <2>11, <5>1, <5>2, <5>3 DEF Heard
        <4> QED
          BY <1>9, <4>1, <4>2 DEF Committed
      <3> QED
        BY <1>0, <1>1, <1>6, <1>8, <1>9, <2>1, <2>7, <2>8, <2>9, <2>11,
           <3>1, <3>2, QueueTells
    <2> QED
      BY <2>10, <2>11
  <1>10. CASE ~Committed(status)
    <2>1. Return(status, edges)
      BY <1>5, <1>10
    <2>2. Sequential'
      BY <1>1, <1>3, <2>1, ReturnedTick
    <2>3. ASSUME Sounding, Verified
          PROVE  Sounding'
      <3>1. RecoveredBy(next.occ, clock.boot)
        BY <1>8, <2>3 DEF Unheard
      <3>2. Heard(shown)'
        BY <1>0, <1>6, <1>7, <1>8, <1>10, <2>3, <3>1, RefusedHeard
      <3>3. status # "evaluated"
        OBVIOUS
      <3> QED
        BY <1>0, <1>1, <1>3, <1>4, <1>8, <2>1, <2>3, <3>2, <3>3, ReturnSounds
    <2> QED
      BY <2>2, <2>3
  <1> QED
    BY <1>9, <1>10

(* Whatever a step shows, it shows all of it: the tick and the disable are *)
(* idle afterwards.                                                        *)
LEMMA IdleTells ==
  ASSUME TickIdle', DisableIdle', tick'.edges = << >>
  PROVE  /\ Sequential'
         /\ /\ Heard(alert)'
            /\ report' = "evaluated" => ~fault' /\ ~BootPending'
            => Sounding'
  <1>1. OneStart(tick.edges)' /\ tick'.pc = "idle" /\ disable'.pc = "idle"
    BY DEF OneStart, TickIdle, DisableIdle
  <1>2. Shown' = alert'
    BY <1>1 DEF Shown, Dismissed, AlertAfter
  <1>3. Sequential'
    BY <1>1 DEF Sequential, TickIdle
  <1>4. Heard(alert)' => Heard(Shown)'
    BY <1>2 DEF Heard
  <1> QED
    BY <1>1, <1>3, <1>4 DEF Sounding, Saving, DisableIdle

LEMMA ExposeTells ==
  ASSUME IInv, ~Concurrent, Sequential, Expose
  PROVE  Sequential' /\ (Sounding => Sounding')
  <1>0. /\ UNCHANGED <<disk, fault, clock, coord, report, disable>>
        /\ tick.pc = "expose" /\ tick' = IdleTick
        /\ alert' = AlertAfter(alert, tick.edges)
    BY DEF Expose, storage
  <1>1. /\ DisableIdle /\ DisableIdle' /\ TickIdle' /\ tick'.edges = << >>
        /\ Shown = AlertAfter(alert, tick.edges)
    BY <1>0, TickAlone DEF Sequential, TickIdle, IdleTick
  <1>2. Sequential'
    BY <1>1, IdleTells
  <1>3. ASSUME Sounding
        PROVE  Sounding'
    <2>1. Heard(Shown) /\ Shown = alert' /\ ~BootPending
      BY <1>0, <1>1, <1>3 DEF Sounding
    <2>2. Heard(alert)' /\ ~BootPending'
      BY <1>0, <2>1 DEF Heard, BootPending, RecoveredBy, Rings, IsRinging,
                        Active
    <2>3. report' = "evaluated" => ~fault'
      BY <1>0, <1>3 DEF Sounding
    <2> QED
      BY <1>1, <2>2, <2>3, IdleTells
  <1> QED
    BY <1>2, <1>3

LEMMA TickStepTells ==
  ASSUME IInv, ~Concurrent, Sequential, TickStep
  PROVE  Sequential' /\ (Verified /\ Sounding => Sounding')
  BY InvalidTickTells, SettleLoadTells, SettleSaveTells, ReconcileLoadTells,
     ReconcileSaveTells, EvaluateLoadTells, EvaluateSaveTells, ExposeTells
     DEF TickStep

-----------------------------------------------------------------------------
(* The disable, the other callers and the environment find the tick idle.  *)
LEMMA HeardKept ==
  ASSUME NEW shown, Heard(shown), disk'.occ = disk.occ, UNCHANGED coord,
         clock'.boot = clock.boot, fault \in BOOLEAN, fault => fault'
  PROVE  Heard(shown)'
  BY DEF Heard, BootPending, RecoveredBy, Rings, IsRinging, Active

LEMMA OtherTells ==
  ASSUME Sequential, TickIdle, UNCHANGED tick
  PROVE  /\ Sequential'
         /\ \A shown :
              /\ shown = (IF Dismissed' THEN None ELSE alert')
              /\ Heard(shown)' /\ report' # "evaluated"
              /\ disable'.pc = "dismiss" => Ending(disable.next)'
              => Sounding'
  <1>1. tick'.edges = << >> /\ tick'.pc = "idle"
    BY DEF Sequential, TickIdle
  <1>2. Sequential'
    BY <1>1 DEF Sequential, TickIdle, OneStart
  <1>3. ASSUME NEW shown, shown = (IF Dismissed' THEN None ELSE alert'),
               Heard(shown)', report' # "evaluated",
               disable'.pc = "dismiss" => Ending(disable.next)'
        PROVE  Sounding'
    <2>1. Shown' = shown
      BY <1>1, <1>3 DEF Shown, AlertAfter
    <2>2. Heard(Shown)'
      BY <1>3, <2>1 DEF Heard
    <2> QED
      BY <1>1, <1>3, <2>2 DEF Sounding, Saving
  <1> QED
    BY <1>2, <1>3

LEMMA IdleShown ==
  ASSUME Sequential, TickIdle
  PROVE  Shown = IF Dismissed THEN None ELSE alert
  BY DEF Sequential, TickIdle, Shown, AlertAfter

LEMMA AfterDismissTells ==
  ASSUME NEW defs, NEW id, NEW stopped, NEW revision,
         DisableAfterDismiss(defs, id, stopped, revision)
  PROVE  /\ disable'.pc # "dismiss"
         /\ Dismissed' <=> stopped # NoTransition
  BY DEF DisableAfterDismiss, IdleDisable, Dismissed

LEMMA DisableLoadTells ==
  ASSUME IInv, ~Concurrent, Sequential, NEW id \in AlarmIds, DisableLoad(id)
  PROVE  Sequential' /\ (Sounding => Sounding')
  <1>0. /\ UNCHANGED <<disk, fault, clock, coord, tick, alert>>
        /\ report' = "none" /\ TickIdle /\ DisableIdle /\ fault \in BOOLEAN
    BY DEF DisableLoad, OthersMayRun, IInv, Surroundings
  <1>1. Sequential'
    BY <1>0, OtherTells
  <1>2. ASSUME Sounding
        PROVE  Sounding'
    <2>1. PICK shown : shown = alert
      OBVIOUS
    <2>2. Heard(shown)
      BY <1>0, <1>2, <2>1, IdleShown DEF Sounding, Dismissed, DisableIdle
    <2>3. Heard(shown)'
      BY <1>0, <2>2, HeardKept
    <2>4. ~Dismissed' /\ (disable'.pc = "dismiss" => Ending(disable.next)')
      <3>1. CASE UNCHANGED disable
        BY <1>0, <3>1 DEF Dismissed, DisableIdle
      <3>2. CASE DisableAfterDismiss(disk.defs, id, NoTransition,
                                     disk.revision)
        <4>1. PICK defs, revision, none :
                /\ defs = disk.defs /\ revision = disk.revision
                /\ none = NoTransition
          OBVIOUS
        <4> QED
          BY <3>2, <4>1, AfterDismissTells
      <3>3. ASSUME disk.occ.active # None,
                   disable' = [pc |-> "dismiss", id |-> id,
                     revision |-> disk.revision,
                     generation |-> disk.generation,
                     defs |-> disk.defs,
                     next |-> ActiveTransition(disk.occ,
                                DismissActive(disk.occ,
                                  disk.occ.active.occurrence_id, TRUE))]
            PROVE  ~Dismissed' /\ Ending(disable.next)'
        <4>1. PICK s, r :
                /\ s = disk.occ
                /\ r = DismissActive(s, s.active.occurrence_id, TRUE)
          OBVIOUS
        <4>2. r.start = FALSE /\ r.stop = TRUE /\ r.state.active = None
          BY <3>3, <4>1, DismissRings
        <4>3. PICK next : next = ActiveTransition(s, r)
          OBVIOUS
        <4>4. Ending(next)
          BY <4>2, <4>3 DEF ActiveTransition, Transition, Ending
        <4>5. disable'.pc = "dismiss" /\ disable'.next = next
          BY <3>3, <4>1, <4>3
        <4>6. Ending(disable.next)'
          BY <4>4, <4>5 DEF Ending
        <4> QED
          BY <4>5, <4>6 DEF Dismissed
      <3> QED
        BY <3>1, <3>2, <3>3 DEF DisableLoad
    <2> QED
      BY <1>0, <2>1, <2>3, <2>4, OtherTells
  <1> QED
    BY <1>1, <1>2

LEMMA DisableDismissTells ==
  ASSUME IInv, ~Concurrent, Sequential, DisableDismiss
  PROVE  Sequential' /\ (Verified /\ Sounding => Sounding')
  <1>0. /\ UNCHANGED <<clock, coord, tick, report, alert>>
        /\ disable.pc = "dismiss" /\ TickIdle /\ ~DisableIdle
        /\ StorageTyped /\ Record
    BY DEF DisableDismiss, Sequential, DisableIdle, IInv, Surroundings,
           StorageTyped
  <1>1. Sequential'
    BY <1>0, OtherTells
  <1>2. ASSUME Sounding, Verified
        PROVE  Sounding'
    <2>1. PICK next, revision, generation :
            /\ next = disable.next /\ revision = disable.revision
            /\ generation = disable.generation
      OBVIOUS
    <2>2. PICK status \in {"stored", "unchanged", "conflict", "error"} :
            /\ SaveOccurrence(next, revision, generation, status)
            /\ IF Committed(status)
               THEN DisableAfterDismiss(disable.defs, disable.id,
                      [next EXCEPT !.occ = None, !.outcomes = {}],
                      disable.revision)
               ELSE disable' = IdleDisable
      BY <2>1 DEF DisableDismiss
    <2>3. Ending(next) /\ report # "evaluated"
      BY <1>0, <1>2, <2>1 DEF Sounding
    <2>4. /\ disk'.occ \in {disk.occ, next.occ}
          /\ ~Committed(status) => fault' \/ UNCHANGED <<disk, fault>>
      BY <1>0, <1>2, <2>2, SaveTells DEF Verified
    <2>5. /\ Committed(status) => disk'.occ = next.occ
          /\ StorageTyped'
      BY <1>0, <2>2, SaveOccurrenceCases
    <2>6. PICK shown : shown = alert
      OBVIOUS
    <2>7. Heard(shown)
      BY <1>0, <1>2, <2>6, IdleShown DEF Sounding, Dismissed
    <2>8. CASE Committed(status)
      <3>1. PICK defs, id, stopped :
              /\ defs = disable.defs /\ id = disable.id
              /\ stopped = [next EXCEPT !.occ = None, !.outcomes = {}]
        OBVIOUS
      <3>2. stopped # NoTransition
        <4>1. PICK occ, who, outcomes :
                next = Transition(occ, "stop", who, outcomes)
          BY <2>3 DEF Ending
        <4>2. stopped = Transition(None, "stop", who, {})
          BY <3>1, <4>1 DEF Transition
        <4> QED
          BY <4>2 DEF Transition, NoTransition
      <3>3. Dismissed' /\ disable'.pc # "dismiss"
        BY <2>1, <2>2, <2>8, <3>1, <3>2, AfterDismissTells
      <3>4. disk'.occ.active = None
        BY <2>3, <2>5, <2>8 DEF Ending
      <3>5. PICK none : none = None
        OBVIOUS
      <3>6. Heard(none)'
        BY <3>4, <3>5 DEF Heard, RecoveredBy, Rings, IsRinging, Active
      <3> QED
        BY <1>0, <2>3, <3>3, <3>5, <3>6, OtherTells
    <2>9. CASE ~Committed(status)
      <3>1. disable'.pc = "idle"
        BY <2>2, <2>9 DEF IdleDisable
      <3>2. RecoveredBy(next.occ, clock.boot)
        BY <2>3 DEF Ending, RecoveredBy
      <3>3. Heard(shown)'
        BY <1>0, <2>4, <2>5, <2>7, <2>9, <3>2, RefusedHeard
      <3> QED
        BY <1>0, <2>3, <2>6, <3>1, <3>3, OtherTells DEF Dismissed
    <2> QED
      BY <2>8, <2>9
  <1> QED
    BY <1>1, <1>2

LEMMA DefinitionsTell ==
  ASSUME Record, StorageTyped, NEW defs, NEW expected, NEW status,
         SaveDefinitions(defs, expected, status)
  PROVE  /\ disk'.occ = disk.occ /\ (fault => fault')
  <1>1. CASE UNCHANGED storage
    BY <1>1 DEF storage
  <1>2. ASSUME WriteRecord([disk EXCEPT !.defs = defs, !.revision = @ + 1],
                           {}, status = "stored"),
               ~fault
        PROVE  disk'.occ = disk.occ
    BY <1>2 DEF WriteRecord, Land, Record
  <1> QED
    BY <1>1, <1>2 DEF SaveDefinitions

LEMMA DisableDefineTells ==
  ASSUME IInv, ~Concurrent, Sequential, DisableDefine
  PROVE  Sequential' /\ (Sounding => Sounding')
  <1>0. /\ UNCHANGED <<clock, coord, tick, report, alert>>
        /\ disable.pc = "define" /\ TickIdle /\ ~DisableIdle
        /\ StorageTyped /\ Record
        /\ disable' = IF disable.next = NoTransition THEN IdleDisable
                      ELSE [IdleDisable EXCEPT !.pc = "expose",
                                               !.next = disable.next]
    BY DEF DisableDefine, Sequential, DisableIdle, IInv, Surroundings,
           StorageTyped
  <1>1. Sequential'
    BY <1>0, OtherTells
  <1>2. ASSUME Sounding
        PROVE  Sounding'
    <2>1. PICK shown : shown = IF Dismissed THEN None ELSE alert
      OBVIOUS
    <2>2. Heard(shown) /\ report # "evaluated"
      BY <1>0, <1>2, <2>1, IdleShown DEF Sounding
    <2>3. PICK defs, expected, status : SaveDefinitions(defs, expected, status)
      BY DEF DisableDefine
    <2>4. disk'.occ = disk.occ /\ (fault => fault')
      BY <1>0, <2>3, DefinitionsTell
    <2>5. Heard(shown)'
      BY <1>0, <2>2, <2>4, HeardKept DEF StorageTyped
    <2>6. disable'.pc # "dismiss" /\ (Dismissed' <=> Dismissed)
      BY <1>0 DEF IdleDisable, Dismissed
    <2> QED
      BY <1>0, <2>1, <2>2, <2>5, <2>6, OtherTells
  <1> QED
    BY <1>1, <1>2

LEMMA DisableExposeTells ==
  ASSUME IInv, ~Concurrent, Sequential, DisableExpose
  PROVE  Sequential' /\ (Sounding => Sounding')
  <1>0. /\ UNCHANGED <<disk, fault, clock, coord, tick, report>>
        /\ disable.pc = "expose" /\ TickIdle /\ ~DisableIdle
        /\ disable' = IdleDisable /\ alert' = None /\ fault \in BOOLEAN
    BY DEF DisableExpose, Sequential, DisableIdle, storage, IInv, Surroundings
  <1>1. Sequential'
    BY <1>0, OtherTells
  <1>2. ASSUME Sounding
        PROVE  Sounding'
    <2>1. PICK shown : shown = None
      OBVIOUS
    <2>2. Heard(shown) /\ report # "evaluated"
      BY <1>0, <1>2, <2>1, IdleShown DEF Sounding, Dismissed
    <2>3. Heard(shown)'
      BY <1>0, <2>2, HeardKept
    <2>4. disable'.pc = "idle"
      BY <1>0 DEF IdleDisable
    <2> QED
      BY <1>0, <2>1, <2>2, <2>3, <2>4, OtherTells
  <1> QED
    BY <1>1, <1>2

LEMMA SaveScheduleTells ==
  ASSUME IInv, ~Concurrent, Sequential, NEW id \in AlarmIds, SaveSchedule(id)
  PROVE  Sequential' /\ (Sounding => Sounding')
  <1>0. /\ UNCHANGED <<clock, coord, tick, disable, alert>>
        /\ TickIdle /\ report' = "none" /\ StorageTyped /\ Record
    BY DEF SaveSchedule, OthersMayRun, IInv, Surroundings, StorageTyped
  <1>1. Sequential'
    BY <1>0, OtherTells
  <1>2. ASSUME Sounding
        PROVE  Sounding'
    <2>1. PICK shown : shown = IF Dismissed THEN None ELSE alert
      OBVIOUS
    <2>2. Heard(shown)
      BY <1>0, <1>2, <2>1, IdleShown DEF Sounding
    <2>3. PICK defs, expected, status : SaveDefinitions(defs, expected, status)
      BY DEF SaveSchedule
    <2>4. disk'.occ = disk.occ /\ (fault => fault')
      BY <1>0, <2>3, DefinitionsTell
    <2>5. Heard(shown)'
      BY <1>0, <2>2, <2>4, HeardKept DEF StorageTyped
    <2>6. (Dismissed' <=> Dismissed)
          /\ (disable'.pc = "dismiss" => Ending(disable.next)')
      BY <1>0, <1>2 DEF Dismissed, Sounding, Ending
    <2> QED
      BY <1>0, <2>1, <2>5, <2>6, OtherTells
  <1> QED
    BY <1>1, <1>2

(* A control commits a state that does not ring, and silences the alert.   *)
LEMMA ControlTells ==
  ASSUME IInv, Sequential, NEW r, Control(r), RingsOn(disk.occ, r),
         r.start = FALSE,
         RecoveredBy(disk.occ, clock.boot) => RecoveredBy(r.state, clock.boot),
         BootPending => r.state.active = None
  PROVE  Sequential' /\ (Sounding => Sounding')
  <1>0. /\ UNCHANGED <<clock, coord, tick, disable>>
        /\ TickIdle /\ DisableIdle /\ report' = "none" /\ alert' = None
        /\ StorageTyped /\ Record
    BY DEF Control, IInv, Surroundings, StorageTyped
  <1>1. Sequential'
    BY <1>0, OtherTells
  <1>2. ASSUME Sounding
        PROVE  Sounding'
    <2>1. PICK next, revision, generation :
            /\ next = ActiveTransition(disk.occ, r)
            /\ SaveOccurrence(next, revision, generation, "stored")
      BY DEF Control
    <2>2. disk'.occ = next.occ
      BY <1>0, <2>1, SaveOccurrenceCases DEF Committed
    <2>3. disk'.occ = r.state
      BY <2>1, <2>2 DEF ActiveTransition, Transition
    <2>4. RecoveredBy(disk.occ, clock.boot)
      BY <1>2 DEF Sounding, Heard
    <2>5. PICK none : none = None
      OBVIOUS
    <2>6. Rings(disk.occ)' = None
      BY <2>3 DEF RingsOn, Rings, IsRinging
    <2>7. RecoveredBy(disk.occ, clock.boot)'
      BY <1>0, <2>3, <2>4 DEF RecoveredBy
    <2>8. BootPending' => Active' = None
      BY <1>0, <2>3 DEF BootPending, Active
    <2>9. Heard(none)'
      BY <2>5, <2>6, <2>7, <2>8 DEF Heard
    <2>10. disable'.pc = "idle"
      BY <1>0 DEF DisableIdle
    <2> QED
      BY <1>0, <2>5, <2>9, <2>10, OtherTells
  <1> QED
    BY <1>1, <1>2

LEMMA SnoozeTells ==
  ASSUME IInv, Sequential, NEW duration \in 0 .. MaxSnooze + 1,
         Snooze(duration)
  PROVE  Sequential' /\ (Sounding => Sounding')
  <1> DEFINE r == RequestSnooze(disk.occ, disk.occ.active.occurrence_id,
                                clock.mono, duration)
  <1>1. /\ disk.occ.active # None /\ ~BootPending /\ Control(r) /\ r.persist
        /\ StateOK(disk.occ) /\ clock.mono \in Int /\ duration \in Int
    BY EngineConstants
       DEF Snooze, BootPending, Control, IInv, Record, Good, Surroundings
  <1>2. /\ RingsOn(disk.occ, r) /\ r.start = FALSE
        /\ r.state.active # None =>
             r.state.active.last_recovery_boot
               = disk.occ.active.last_recovery_boot
    BY <1>1, SnoozeRings
  <1>3. PICK z : z = r
    OBVIOUS
  <1> HIDE DEF r
  <1>4. RecoveredBy(disk.occ, clock.boot) => RecoveredBy(z.state, clock.boot)
    BY <1>1, <1>2, <1>3 DEF RecoveredBy
  <1> QED
    BY <1>1, <1>2, <1>3, <1>4, ControlTells

LEMMA DismissTells ==
  ASSUME IInv, Sequential, Dismiss
  PROVE  Sequential' /\ (Sounding => Sounding')
  <1> DEFINE r == DismissActive(disk.occ, disk.occ.active.occurrence_id, FALSE)
  <1>1. disk.occ.active # None /\ Control(r)
    BY DEF Dismiss
  <1>2. RingsOn(disk.occ, r) /\ r.start = FALSE /\ r.state.active = None
    BY <1>1, DismissRings
  <1>3. PICK z : z = r
    OBVIOUS
  <1> HIDE DEF r
  <1>4. RecoveredBy(z.state, clock.boot)
    BY <1>2, <1>3 DEF RecoveredBy
  <1> QED
    BY <1>1, <1>2, <1>3, <1>4, ControlTells

LEMMA EnvironmentTells ==
  ASSUME IInv, Sequential, Environment
  PROVE  Sequential' /\ (Sounding => Sounding')
  <1>1. ASSUME ClockChange, clock'.boot = clock.boot
        PROVE  Sequential' /\ (Sounding => Sounding')
    <2>0. /\ UNCHANGED <<disk, fault, coord, tick, disable, alert>>
          /\ TickIdle /\ report' = "none" /\ fault \in BOOLEAN
      BY <1>1 DEF ClockChange, storage, IInv, Surroundings
    <2>1. Sequential'
      BY <2>0, OtherTells
    <2>2. ASSUME Sounding
          PROVE  Sounding'
      <3>1. PICK shown : shown = IF Dismissed THEN None ELSE alert
        OBVIOUS
      <3>2. Heard(shown)
        BY <2>0, <2>2, <3>1, IdleShown DEF Sounding
      <3>3. Heard(shown)'
        BY <1>1, <2>0, <3>2, HeardKept
      <3>4. (Dismissed' <=> Dismissed)
            /\ (disable'.pc = "dismiss" => Ending(disable.next)')
        BY <2>0, <2>2 DEF Dismissed, Sounding, Ending
      <3> QED
        BY <2>0, <3>1, <3>3, <3>4, OtherTells
    <2> QED
      BY <2>1, <2>2
  <1>2. CASE PassTime
    BY <1>1, <1>2 DEF PassTime, IInv, Surroundings
  <1>3. CASE LoseTime
    BY <1>1, <1>3 DEF LoseTime, IInv, Surroundings
  <1>4. ASSUME NEW w \in 0 .. MaxWall, CorrectWall(w) \/ RegainTime(w)
        PROVE  Sequential' /\ (Sounding => Sounding')
    BY <1>1, <1>4 DEF CorrectWall, RegainTime, IInv, Surroundings
  <1>5. ASSUME NEW w \in 0 .. MaxWall, Reboot(w)
        PROVE  Sequential' /\ (Sounding => Sounding')
    <2>0. /\ disk' = disk /\ clock'.boot = clock.boot + 1
          /\ coord'.handled = None
          /\ tick' = IdleTick /\ disable' = IdleDisable
          /\ report' = "none" /\ alert' = None
          /\ clock.boot \in Nat
      BY <1>5, RuntimeConstants DEF Reboot, IInv, Surroundings
    <2>1. TickIdle' /\ DisableIdle' /\ tick'.edges = << >>
      BY <2>0 DEF IdleTick, IdleDisable, TickIdle, DisableIdle
    <2>2. Sequential'
      BY <2>1, IdleTells
    <2>3. ASSUME Sounding
          PROVE  Sounding'
      <3>1. RecoveredBy(disk.occ, clock.boot)
        BY <2>3 DEF Sounding, Heard
      <3>2. disk.occ.active # None =>
              disk.occ.active.last_recovery_boot \in Nat \cup {None}
        BY DEF IInv, Record, Good, StateOK, ActiveOccurrences
      <3>3. RecoveredBy(disk.occ, clock.boot)'
        BY <2>0, <3>1, <3>2 DEF RecoveredBy
      <3>4. Active' # None => Active'.last_recovery_boot # clock'.boot
        BY <2>0, <3>1, <3>2, EngineConstants DEF RecoveredBy, Active
      <3>5. BootPending'
        BY <2>0, EngineConstants DEF BootPending
      <3>6. Heard(alert)'
        BY <2>0, <3>3, <3>4, <3>5 DEF Heard
      <3> QED
        BY <2>0, <2>1, <3>6, IdleTells
    <2> QED
      BY <2>2, <2>3
  <1> QED
    BY <1>2, <1>3, <1>4, <1>5 DEF Environment

LEMMA StutterTells ==
  ASSUME UNCHANGED vars, Sequential
  PROVE  Sequential' /\ (Sounding => Sounding')
  <1>0. UNCHANGED <<disk, fault, clock, coord, tick, report, disable, alert>>
    BY DEF vars
  <1>1. Sequential'
    BY <1>0 DEF Sequential, TickIdle, DisableIdle, OneStart, Started, Unmoved
  <1>2. /\ Shown' = Shown /\ (BootPending' <=> BootPending)
        /\ Active' = Active /\ Rings(disk.occ)' = Rings(disk.occ)
    BY <1>0 DEF Shown, Dismissed, BootPending, Active, Rings, IsRinging
  <1>3. ASSUME Sounding
        PROVE  Sounding'
    <2>1. Heard(Shown)'
      BY <1>0, <1>2, <1>3 DEF Sounding, Heard, RecoveredBy
    <2>2. tick.pc \in Saving => Unheard(tick.next, Shown)'
      BY <1>0, <1>2, <1>3 DEF Sounding, Unheard, RecoveredBy
    <2> QED
      BY <1>0, <1>2, <1>3, <2>1, <2>2 DEF Sounding, Unheard, Ending,
                                          DisableIdle
  <1> QED
    BY <1>1, <1>3

LEMMA NextTells ==
  ASSUME IInv, ~Concurrent, Sequential, [Next]_vars
  PROVE  Sequential' /\ (Verified /\ Sounding => Sounding')
  <1>1. CASE TickStep
    BY <1>1, TickStepTells
  <1>2. CASE DisableStep
    BY <1>2, DisableDismissTells, DisableDefineTells, DisableExposeTells
       DEF DisableStep
  <1>3. ASSUME NEW id \in AlarmIds, DisableLoad(id)
        PROVE  Sequential' /\ (Sounding => Sounding')
    BY <1>3, DisableLoadTells
  <1>4. ASSUME NEW id \in SavedAlarms, SaveSchedule(id)
        PROVE  Sequential' /\ (Sounding => Sounding')
    BY <1>4, RuntimeConstants, SaveScheduleTells
  <1>5. ASSUME NEW duration \in 0 .. MaxSnooze + 1, Snooze(duration)
        PROVE  Sequential' /\ (Sounding => Sounding')
    BY <1>5, SnoozeTells
  <1>6. CASE Dismiss
    BY <1>6, DismissTells
  <1>7. CASE Environment
    BY <1>7, EnvironmentTells
  <1>8. CASE UNCHANGED vars
    BY <1>8, StutterTells
  <1> QED
    BY <1>1, <1>2, <1>3, <1>4, <1>5, <1>6, <1>7, <1>8 DEF Next

LEMMA InitTells ==
  ASSUME Init
  PROVE  Sequential /\ Sounding
  <1>0. /\ disk.occ.active = None /\ clock.boot = 1 /\ coord.handled = None
        /\ tick = IdleTick /\ disable = IdleDisable
        /\ report = "none" /\ alert = None
    BY DEF Init, EmptyState, State
  <1>1. /\ tick.pc = "idle" /\ tick.edges = << >> /\ disable.pc = "idle"
    BY <1>0 DEF IdleTick, IdleDisable
  <1>2. Sequential
    BY <1>1 DEF Sequential, TickIdle, OneStart
  <1>3. Shown = None
    BY <1>0, <1>1 DEF Shown, Dismissed, AlertAfter
  <1>4. BootPending
    BY <1>0, EngineConstants DEF BootPending
  <1>5. Heard(Shown)
    BY <1>0, <1>3, <1>4 DEF Heard, RecoveredBy, Active
  <1> QED
    BY <1>0, <1>1, <1>2, <1>5 DEF Sounding, Saving

(* Without other tasks between its steps, a tick collects at most one      *)
(* start edge, whatever it settles, reconciles and evaluates, and whatever *)
(* its saves find (run_runtime_tick, evaluate_committed_schedule).         *)
THEOREM OneStartEdge ==
  ASSUME ~Concurrent
  PROVE  Spec => []OneStartPerTick
  <1>1. Init => Sequential
    BY InitTells
  <1>2. IInv /\ Sequential /\ [Next]_vars => Sequential'
    BY NextTells
  <1>3. IInv /\ Sequential => OneStartPerTick
    <2> SUFFICES ASSUME IInv, Sequential
                 PROVE  OneStartPerTick
      OBVIOUS
    <2> DEFINE starts == {i \in DOMAIN tick.edges :
                            tick.edges[i].edge = "start"}
    <2>1. DOMAIN tick.edges = 1 .. Len(tick.edges)
      BY DEF IInv, TickInv, TickTyped
    <2>2. \A i, j \in starts : i = j
      BY <2>1 DEF Sequential, OneStart
    <2> HIDE DEF starts
    <2>3. CASE starts = {}
      BY <2>3, FS_EmptySet DEF OneStartPerTick, starts
    <2>4. CASE starts # {}
      <3>1. PICK i : starts = {i}
        BY <2>2, <2>4
      <3>2. Cardinality(starts) = 1
        BY <3>1, FS_Singleton
      <3> QED
        BY <3>2 DEF OneStartPerTick, starts
    <2> QED
      BY <2>3, <2>4
  <1> QED
    BY <1>1, <1>2, <1>3, Invariance, PTL DEF Spec

(* Without other tasks between the steps of a tick or a disable, and as    *)
(* long as a save that is reported as failed has either not landed or made *)
(* the partition unavailable, the alert sounds, after every tick that has  *)
(* reported success, for exactly the occurrence the record says is         *)
(* ringing: across reboots, recoveries, snoozes, disables, schedule        *)
(* commits and failed saves.                                               *)
THEOREM AlertFollowsJournal ==
  ASSUME ~Concurrent, "unverified" \notin Failures
  PROVE  Spec => []AlertMatchesJournal
  <1>1. Init => Sequential /\ Sounding
    BY InitTells
  <1>2. IInv /\ Sequential /\ Sounding /\ [Next]_vars
          => Sequential' /\ Sounding'
    BY NextTells DEF Verified
  <1>3. Sequential /\ Sounding => AlertMatchesJournal
    <2> SUFFICES ASSUME Sequential, Sounding, TickIdle, DisableIdle,
                        report = "evaluated"
                 PROVE  alert = IF IsRinging(disk.occ)
                                THEN Active.occurrence_id ELSE None
      BY DEF AlertMatchesJournal
    <2>1. ~fault /\ ~BootPending /\ Heard(Shown)
      BY DEF Sounding
    <2>2. Shown = alert
      BY IdleShown DEF Dismissed, DisableIdle
    <2> QED
      BY <2>1, <2>2 DEF Heard, Rings, IsRinging, Active
  <1> QED
    BY <1>1, <1>2, <1>3, Invariance, PTL DEF Spec
=============================================================================
