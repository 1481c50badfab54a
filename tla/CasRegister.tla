----------------------------- MODULE CasRegister -----------------------------
(***************************************************************************)
(* What AtomicScheduleStore promises its callers (schedule_store.hpp): one *)
(* record that is read and replaced as a whole, by compare-and-set on what *)
(* the caller last learned of it.  A schedule commit compares the revision *)
(* and carries the journal forward; a journal commit compares the          *)
(* generation too and changes nothing else.  A commit may take effect      *)
(* without its caller learning of it; nothing learned is ever taken back.  *)
(***************************************************************************)
EXTENDS Integers

CONSTANTS Callers, Absent, Snapshots

VARIABLES record,   \* [generation, data] of the committed record, or Absent
          known     \* what each caller last learned of the record

register == <<record, known>>

RegisterInit ==
  /\ record \in [generation : Nat \ {0}, data : Snapshots] \cup {Absent}
  /\ known = [c \in Callers |-> Absent]

Stored(data) ==
  /\ data \in Snapshots
  /\ record' = [generation |-> IF record = Absent THEN 1
                               ELSE record.generation + 1,
                data |-> data]

FirstSchedule(c) ==
  /\ record = Absent /\ known[c] = Absent
  /\ \E data \in Snapshots : data.revision = 1 /\ Stored(data)

Schedule(c) ==
  /\ record # Absent /\ known[c] # Absent
  /\ known[c].data.revision = record.data.revision
  /\ \E data \in Snapshots :
       /\ data.revision = record.data.revision + 1
       /\ data.occ = record.data.occ
       /\ Stored(data)

Journal(c) ==
  /\ record # Absent /\ known[c] = record
  /\ \E data \in Snapshots :
       /\ data = [record.data EXCEPT !.occ = data.occ]
       /\ Stored(data)

Migrate == record # Absent /\ Stored(record.data)

Learn(c) == record # Absent /\ known' = [known EXCEPT ![c] = record]

Restart == known' = [c \in Callers |-> Absent]

RegisterNext ==
  \/ \E c \in Callers :
       \/ (FirstSchedule(c) \/ Schedule(c) \/ Journal(c)) /\ UNCHANGED known
       \/ Learn(c) /\ UNCHANGED record
  \/ Migrate /\ UNCHANGED known
  \/ Restart /\ UNCHANGED record

RegisterSpec == RegisterInit /\ [][RegisterNext]_register
=============================================================================
