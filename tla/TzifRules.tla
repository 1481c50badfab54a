------------------------------ MODULE TzifRules ------------------------------
(***************************************************************************)
(* The pinned timezone data (tzif_rules.cpp): a TZif record becomes a      *)
(* chain of offset transitions, and a set of records the named rules of    *)
(* one window.  A record is its framing (whether the bytes hold the tables *)
(* they declare), the instants and types of its transitions, and the       *)
(* offset of each type.                                                    *)
(***************************************************************************)
EXTENDS RecurrenceResolver

CONSTANTS
  MaxTimes,   \* kMaximumTzifTransitions
  MaxTypes,   \* kMaximumTzifTypes
  Cutoff,     \* kTzifTailCutoffUtcSeconds
  Budget      \* maximum_total_transitions of the configuration

ASSUME TzifConstants ==
  MaxTimes \in Nat /\ MaxTypes \in Nat /\ Cutoff \in Int /\ Budget \in Nat

Record(framing, times, types, offsets) ==
  [framing |-> framing, times |-> times, types |-> types, offsets |-> offsets]

(* parse_tzif_zone: the status.  A framing other than "ok" is the status   *)
(* of the first header or table that the bytes do not hold.                *)
ParseStatus(record) ==
  IF record.framing # "ok" THEN record.framing
  ELSE IF Len(record.times) > MaxTimes \/ Len(record.offsets) > MaxTypes
  THEN "excessive_counts"
  ELSE IF record.offsets = << >> THEN "empty_local_time_table"
  ELSE IF \E i \in 2 .. Len(record.times) :
            record.times[i] <= record.times[i - 1]
  THEN "bad_transition_order"
  ELSE IF ~(ToSet(record.types) \subseteq DOMAIN record.offsets)
  THEN "bad_local_time_type"
  ELSE IF ~(ToSet(record.offsets) \subseteq Offsets)
  THEN "bad_local_time_type"
  ELSE "ok"

(* The offset of a record after its i-th transition; before the first one  *)
(* it is that of the first type.                                           *)
OffsetAfter(record, i) ==
  record.offsets[IF i = 0 THEN 1 ELSE record.types[i]]

(* Mutant: changes of the abbreviation alone are kept. *)
AnyChange(record, i) == record.times[i] < Cutoff

(* What stays of a record: the changes of the offset, up to the cutoff.    *)
Visible(record, i) ==
  /\ record.times[i] < Cutoff
  /\ OffsetAfter(record, i) # OffsetAfter(record, i - 1)

(* What a sequence holds at some of its indices, in order. *)
Nth(indices, k) ==
  CHOOSE i \in indices : Cardinality({j \in indices : j <= i}) = k
Picked(seq, indices) ==
  [k \in 1 .. Cardinality(indices) |-> seq[Nth(indices, k)]]

(* parse_tzif_zone: the chain. *)
Change(record, i) ==
  Transition(record.times[i], OffsetAfter(record, i - 1), OffsetAfter(record, i))
Chain(record) ==
  Picked([i \in DOMAIN record.times |-> Change(record, i)],
         {i \in DOMAIN record.times : Visible(record, i)})

ParseZone(name, version, record) ==
  Rules(name, version, OffsetAfter(record, 0), Chain(record))

(* The rules of a window: what happened up to its start is folded into the *)
(* initial offset, what happens after its end is left out.                 *)
Windowed(rules, from, until) ==
  Rules(rules.name, rules.version, OffsetAt(rules, from),
        Picked(rules.transitions,
               {i \in DOMAIN rules.transitions :
                  from < rules.transitions[i].at
                  /\ rules.transitions[i].at <= until}))

(* build_pinned_timezone_rules: zones that do not parse are left out, more *)
(* transitions than the budget leave nothing at all.                       *)
BuildRules(records, version, from, until) ==
  LET names == {z \in DOMAIN records : ParseStatus(records[z]) = "ok"}
      zones == {Windowed(ParseZone(z, version, records[z]), from, until) :
                  z \in names}
      total == MapThenSumSet(LAMBDA rules : Len(rules.transitions), zones)
  IN  IF total > Budget THEN [zones |-> {}, exceeded |-> TRUE]
      ELSE [zones |-> zones, exceeded |-> FALSE]
=============================================================================
