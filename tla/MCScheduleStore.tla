-------------------------- MODULE MCScheduleStore --------------------------
(* The slots ScheduleStore's instances start from. *)
EXTENDS ScheduleStore

CONSTANTS s1, s2, j0, j1

First == [revision |-> 1, defs |-> s1, occ |-> j0]
Later == [revision |-> 1, defs |-> s1, occ |-> j1]

Slotted(a, b) == [s \in Slots |-> IF s = "a" THEN a ELSE b]

(* A new device; one upgraded from schema 1, with one record or two; one   *)
(* on which a newer firmware wrote last.                                   *)
AnyDevice ==
  {Slotted(Empty, Empty),
   Slotted(Content("v1", 1, First), Empty),
   Slotted(Content("v1", 1, First), Content("v1", 2, Later)),
   Slotted(Content("v2", 1, First), Content("future", 2, None))}
=============================================================================
