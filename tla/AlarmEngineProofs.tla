-------------------------- MODULE AlarmEngineProofs --------------------------
(***************************************************************************)
(* Lemmas about the operators of AlarmEngine and InvalidTimeRecovery, for  *)
(* every value of the constants: what each of them does to a journal whose *)
(* outcomes are covered by watermarks.  They hold of a state, whoever      *)
(* commits it and when.                                                    *)
(***************************************************************************)
EXTENDS InvalidTimeRecovery, FiniteSetTheorems, SequenceTheorems, TLAPS

StateOK(s) ==
  /\ s = State(s.active, s.terminal, s.watermarks)
  /\ s.active \in ActiveOccurrences \cup {None}
  /\ s.watermarks \in [AlarmIds -> Int \cup {None}]

(* The active occurrence is named after its alarm and instant, and the     *)
(* instant is above the watermark of that alarm.                           *)
ActiveAboveWatermark(s) ==
  s.active # None =>
    /\ s.active.occurrence_id.alarm = s.active.alarm_id
    /\ s.active.occurrence_id.scheduled = s.active.scheduled
    /\ ~AtOrBelowWatermark(s, s.active.alarm_id, s.active.scheduled)

Covered(s, done) ==
  \A occ \in done : AtOrBelowWatermark(s, occ.alarm, occ.scheduled)

(* A state of the journal together with the outcomes given so far.         *)
Good(s, done) ==
  /\ StateOK(s)
  /\ done \subseteq OccurrenceIds
  /\ ActiveAboveWatermark(s)
  /\ Covered(s, done)

-----------------------------------------------------------------------------
(* Watermarks only rise, and a raised one covers the instant it records.   *)
LEMMA RaiseWatermarkFacts ==
  ASSUME NEW wm \in [AlarmIds -> Int \cup {None}],
         NEW id \in AlarmIds, NEW scheduled \in Int
  PROVE  LET up == RaiseWatermark(wm, id, scheduled) IN
         /\ up \in [AlarmIds -> Int \cup {None}]
         /\ up[id] # None /\ scheduled <= up[id]
         /\ \A a \in AlarmIds : wm[a] # None => up[a] # None /\ wm[a] <= up[a]
         /\ \A a \in AlarmIds \ {id} : up[a] = wm[a]
  BY EngineConstants DEF RaiseWatermark

(* Journalling an outcome covers it and uncovers no other.                 *)
LEMMA JournalTerminalFacts ==
  ASSUME NEW s, StateOK(s), NEW done, done \subseteq OccurrenceIds,
         Covered(s, done), NEW occ \in OccurrenceIds, NEW reason
  PROVE  LET t == JournalTerminal(s, occ.alarm, occ, occ.scheduled, reason) IN
         /\ StateOK(t)
         /\ t.active = s.active
         /\ Covered(t, done \cup {occ})
  <1> DEFINE t == JournalTerminal(s, occ.alarm, occ, occ.scheduled, reason)
  <1>1. occ.alarm \in AlarmIds /\ occ.scheduled \in Int
    BY DEF OccurrenceIds
  <1>2. /\ t.active = s.active
        /\ t.watermarks = RaiseWatermark(s.watermarks, occ.alarm,
                                         occ.scheduled)
        /\ t = State(t.active, t.terminal, t.watermarks)
    BY DEF JournalTerminal, State
  <1>3. s.watermarks \in [AlarmIds -> Int \cup {None}]
    BY DEF StateOK
  <1>4. StateOK(t)
    BY <1>1, <1>2, <1>3, RaiseWatermarkFacts DEF StateOK
  <1>5. AtOrBelowWatermark(t, occ.alarm, occ.scheduled)
    BY <1>1, <1>2, <1>3, RaiseWatermarkFacts DEF AtOrBelowWatermark
  <1>6. ASSUME NEW o \in done
        PROVE  AtOrBelowWatermark(t, o.alarm, o.scheduled)
    <2>1. o.alarm \in AlarmIds /\ o.scheduled \in Int
      BY DEF OccurrenceIds
    <2>2. s.watermarks[o.alarm] # None /\ o.scheduled <= s.watermarks[o.alarm]
      BY DEF Covered, AtOrBelowWatermark
    <2>3. /\ t.watermarks[o.alarm] # None
          /\ s.watermarks[o.alarm] <= t.watermarks[o.alarm]
      BY <1>1, <1>2, <1>3, <2>1, <2>2, RaiseWatermarkFacts
    <2>4. t.watermarks[o.alarm] \in Int /\ s.watermarks[o.alarm] \in Int
      BY <1>3, <1>4, <2>1, <2>2, <2>3 DEF StateOK
    <2> QED
      BY <2>1, <2>2, <2>3, <2>4 DEF AtOrBelowWatermark
  <1> QED
    BY <1>2, <1>4, <1>5, <1>6 DEF Covered

(* Ending the active occurrence gives it an outcome.                       *)
LEMMA GoodEnd ==
  ASSUME NEW s, NEW done, Good(s, done), s.active # None, NEW reason
  PROVE  /\ Good(EndActive(s, reason), done \cup {s.active.occurrence_id})
         /\ EndActive(s, reason).active = None
  <1> DEFINE occ == s.active.occurrence_id
             t   == EndActive(s, reason)
             j   == JournalTerminal(s, occ.alarm, occ, occ.scheduled, reason)
  <1>1. /\ StateOK(s) /\ done \subseteq OccurrenceIds /\ Covered(s, done)
        /\ s.active.alarm_id = occ.alarm /\ s.active.scheduled = occ.scheduled
    BY DEF Good, ActiveAboveWatermark
  <1>2. occ \in OccurrenceIds
    BY <1>1 DEF StateOK, ActiveOccurrences
  <1>3. StateOK(j) /\ Covered(j, done \cup {occ})
    BY <1>1, <1>2, JournalTerminalFacts
  <1>4. t = WithActive(j, None)
    BY <1>1 DEF EndActive
  <1>5. t.active = None /\ t.watermarks = j.watermarks /\ StateOK(t)
    BY <1>3, <1>4 DEF WithActive, State, StateOK
  <1>6. Covered(t, done \cup {occ})
    BY <1>3, <1>5 DEF Covered, AtOrBelowWatermark
  <1> QED
    BY <1>1, <1>2, <1>5, <1>6 DEF Good, ActiveAboveWatermark

(* Changing the active occurrence without changing which one it is.        *)
LEMMA GoodKeep ==
  ASSUME NEW s, NEW done, Good(s, done), s.active # None,
         NEW active \in ActiveOccurrences,
         active.alarm_id = s.active.alarm_id,
         active.occurrence_id = s.active.occurrence_id,
         active.scheduled = s.active.scheduled
  PROVE  Good(WithActive(s, active), done)
  <1> DEFINE t == WithActive(s, active)
  <1>1. t.active = active /\ t.watermarks = s.watermarks /\ StateOK(t)
    BY DEF Good, WithActive, State, StateOK
  <1>2. Covered(t, done)
    BY <1>1 DEF Good, Covered, AtOrBelowWatermark
  <1>3. ActiveAboveWatermark(t)
    BY <1>1 DEF Good, ActiveAboveWatermark, AtOrBelowWatermark
  <1> QED
    BY <1>1, <1>2, <1>3 DEF Good

(* Admitting an occurrence above its alarm's watermark.                    *)
LEMMA GoodFresh ==
  ASSUME NEW s, NEW done, Good(s, done), s.active = None,
         NEW occ \in OccurrenceIds, NEW w \in Int, NEW m \in Int,
         ~AtOrBelowWatermark(s, occ.alarm, occ.scheduled)
  PROVE  LET active == FreshActive(occ.alarm, occ, occ.scheduled, w, m) IN
         /\ active \in ActiveOccurrences
         /\ Good(WithActive(s, active), done)
         /\ occ \notin done
  <1> DEFINE active == FreshActive(occ.alarm, occ, occ.scheduled, w, m)
             t      == WithActive(s, active)
  <1>1. active \in ActiveOccurrences
    BY DEF FreshActive, ActiveOccurrences, OccurrenceIds
  <1>2. /\ active.alarm_id = occ.alarm /\ active.occurrence_id = occ
        /\ active.scheduled = occ.scheduled
    BY DEF FreshActive
  <1>3. t.active = active /\ t.watermarks = s.watermarks /\ StateOK(t)
    BY <1>1 DEF Good, WithActive, State, StateOK
  <1>4. Covered(t, done)
    BY <1>3 DEF Good, Covered, AtOrBelowWatermark
  <1>5. ActiveAboveWatermark(t)
    BY <1>2, <1>3 DEF ActiveAboveWatermark, AtOrBelowWatermark
  <1>6. occ \notin done
    BY DEF Good, Covered
  <1> QED
    BY <1>1, <1>3, <1>4, <1>5, <1>6 DEF Good

-----------------------------------------------------------------------------
(* Reconciliation picks a newest occurrence, and there is one: the order   *)
(* of instants and alarm ids is total, so by well-founded induction over   *)
(* the subsets every finite nonempty set of armed alarms has a last one.   *)
IsNewest(d, ids, a) == a \in ids /\ \A b \in ids \ {a} : Before(d, b, a)

LEMMA NewestExists ==
  ASSUME NEW d, NEW S, S \subseteq AlarmIds, S # {},
         \A a \in S : d[a].scheduled \in Int
  PROVE  IsNewest(d, S, NewestOf(d, S))
  <1> DEFINE Lacking == {A \in SUBSET S : A # {} /\ \A a \in A : ~IsNewest(d, A, a)}
  <1>1. IsFiniteSet(S)
    BY EngineConstants, FS_Subset
  <1>2. Lacking \subseteq FiniteSubsetsOf(S)
    BY <1>1, FS_FiniteSubsetsOfFinite
  <1>3. Lacking = {}
    <2> SUFFICES ASSUME Lacking # {} PROVE FALSE
      OBVIOUS
    <2> HIDE DEF Lacking
    <2>1. PICK A \in Lacking :
            \A B \in Lacking : <<B, A>> \notin StrictSubsetOrdering(S)
      BY <1>2, FS_StrictSubsetOrderingWellFounded, WFMin
    <2> USE DEF Lacking
    <2>2. PICK e \in A : TRUE
      OBVIOUS
    <2> DEFINE B == A \ {e}
    <2>3. B \notin Lacking
      BY <2>1, <2>2 DEF StrictSubsetOrdering
    <2>4. CASE B = {}
      BY <2>2, <2>4 DEF IsNewest
    <2>5. CASE B # {}
      <3>1. PICK n \in B : IsNewest(d, B, n)
        BY <2>3, <2>5
      <3>2. /\ e \in Int /\ n \in Int /\ e # n
            /\ d[e].scheduled \in Int /\ d[n].scheduled \in Int
        BY <2>2, EngineConstants
      <3>3. CASE Before(d, e, n)
        <4>1. IsNewest(d, A, n)
          BY <3>1, <3>3 DEF IsNewest
        <4> QED BY <4>1, <3>1
      <3>4. CASE Before(d, n, e)
        <4>1. \A b \in A \ {e} : Before(d, b, e)
          <5> TAKE b \in A \ {e}
          <5>1. b = n \/ Before(d, b, n)
            BY <3>1 DEF IsNewest
          <5>2. b \in Int /\ d[b].scheduled \in Int
            BY EngineConstants
          <5> QED
            BY <3>2, <3>4, <5>1, <5>2 DEF Before
        <4>2. IsNewest(d, A, e)
          BY <2>2, <4>1 DEF IsNewest
        <4> QED BY <2>2, <4>2
      <3> QED
        BY <3>2, <3>3, <3>4 DEF Before
    <2> QED
      BY <2>4, <2>5
  <1>4. \E a \in S : IsNewest(d, S, a)
    BY <1>3
  <1> QED
    BY <1>4 DEF NewestOf, IsNewest

(* The batch of missed occurrences covers them all and uncovers no other,  *)
(* because each of them was above its alarm's watermark.                   *)
LEMMA GoodMissed ==
  ASSUME NEW s, NEW done, Good(s, done), s.active = None,
         NEW d \in [AlarmIds -> AlarmDefinitions \cup {None}], NEW w \in Int,
         NEW missed, missed \subseteq Crossed(s, d, w)
  PROVE  /\ Good(JournalMissed(s, d, missed), done \cup MissedIds(d, missed))
         /\ JournalMissed(s, d, missed).active = None
         /\ \A a \in AlarmIds \ missed :
              JournalMissed(s, d, missed).watermarks[a] = s.watermarks[a]
  <1> DEFINE t   == JournalMissed(s, d, missed)
             new == {MakeOccurrenceId(a, d[a]) : a \in missed}
  <1>1. \A a \in missed : /\ a \in AlarmIds
                          /\ d[a] \in AlarmDefinitions
                          /\ ~AtOrBelowWatermark(s, a, d[a].scheduled)
    BY DEF Crossed
  <1>2. /\ t = State(t.active, t.terminal, t.watermarks)
        /\ t.active = None
        /\ t.watermarks = [a \in AlarmIds |-> IF a \in missed
                                              THEN d[a].scheduled
                                              ELSE s.watermarks[a]]
    BY DEF JournalMissed, State
  <1>3. \A a \in missed : d[a].scheduled \in Int
    BY <1>1 DEF AlarmDefinitions
  <1>4. s.watermarks \in [AlarmIds -> Int \cup {None}]
    BY DEF Good, StateOK
  <1> HIDE DEF t
  <1>5. StateOK(t)
    BY <1>2, <1>3, <1>4 DEF StateOK
  <1>6. new \subseteq OccurrenceIds
    BY <1>1 DEF MakeOccurrenceId, OccurrenceId, OccurrenceIds, AlarmDefinitions
  <1>7. \A a \in missed : /\ MakeOccurrenceId(a, d[a]).alarm = a
                          /\ MakeOccurrenceId(a, d[a]).scheduled = d[a].scheduled
    BY DEF MakeOccurrenceId, OccurrenceId
  <1>8. ASSUME NEW o \in new
        PROVE  AtOrBelowWatermark(t, o.alarm, o.scheduled)
    <2>1. PICK a \in missed : o = MakeOccurrenceId(a, d[a])
      OBVIOUS
    <2>2. o.alarm = a /\ o.scheduled = d[a].scheduled
      BY <1>7, <2>1
    <2>3. t.watermarks[a] = d[a].scheduled
      BY <1>1, <1>2
    <2> QED
      BY <1>3, <2>2, <2>3, EngineConstants DEF AtOrBelowWatermark
  <1>9. ASSUME NEW o \in done
        PROVE  AtOrBelowWatermark(t, o.alarm, o.scheduled)
    <2>1. o.alarm \in AlarmIds /\ o.scheduled \in Int
      BY DEF Good, OccurrenceIds
    <2>2. s.watermarks[o.alarm] # None /\ o.scheduled <= s.watermarks[o.alarm]
      BY DEF Good, Covered, AtOrBelowWatermark
    <2>3. CASE o.alarm \notin missed
      BY <1>2, <2>1, <2>2, <2>3 DEF AtOrBelowWatermark
    <2>4. CASE o.alarm \in missed
      <3>1. s.watermarks[o.alarm] \in Int
        BY <1>4, <2>1, <2>2
      <3>2. s.watermarks[o.alarm] < d[o.alarm].scheduled
        BY <1>1, <1>3, <2>2, <2>4, <3>1 DEF AtOrBelowWatermark
      <3>3. t.watermarks[o.alarm] = d[o.alarm].scheduled
        BY <1>2, <2>1, <2>4
      <3>4. d[o.alarm].scheduled \in Int /\ d[o.alarm].scheduled # None
        BY <1>3, <2>4, EngineConstants
      <3> QED
        BY <2>1, <2>2, <3>1, <3>2, <3>3, <3>4 DEF AtOrBelowWatermark
    <2> QED BY <2>3, <2>4
  <1>10. Good(t, done \cup new)
    BY <1>2, <1>5, <1>6, <1>8, <1>9 DEF Good, Covered, ActiveAboveWatermark
  <1> QED
    BY <1>1, <1>2, <1>10 DEF t, MissedIds

(* A reconciliation batch: the missed occurrences get their outcomes, and  *)
(* the one that rings, if any, is none of them and has no older outcome.   *)
LEMMA GoodBatch ==
  ASSUME NEW s, NEW done, Good(s, done),
         NEW d \in [AlarmIds -> AlarmDefinitions \cup {None}],
         NEW w \in Int, NEW m \in Int,
         Reconciliation(s, d, w, m).status = "batch"
  PROVE  LET r   == Reconciliation(s, d, w, m)
             new == MissedIds(d, r.missed)
         IN  /\ s.active = None
             /\ Good(r.state, done \cup new)
             /\ r.state.active # None =>
                  /\ r.state.active.occurrence_id \in OccurrenceIds
                  /\ r.state.active.occurrence_id \notin done \cup new
  <1> DEFINE crossed == Crossed(s, d, w)
             newest  == NewestOf(d, crossed)
             rings   == w - d[newest].scheduled <= Grace
             missed  == IF rings THEN crossed \ {newest} ELSE crossed
             journal == JournalMissed(s, d, missed)
             r       == Reconciliation(s, d, w, m)
             occ     == MakeOccurrenceId(newest, d[newest])
             new     == MissedIds(d, missed)
  <1>0. s.active = None
    BY DEF Reconciliation
  <1>1. /\ s.active = None
        /\ crossed # {}
        /\ r.missed = missed
        /\ r.state = IF rings
                     THEN BeginRecoveredRing(journal, newest, occ,
                                             d[newest].scheduled, w, m)
                     ELSE journal
    BY DEF Reconciliation
  <1>2. \A a \in crossed : /\ a \in AlarmIds
                           /\ d[a] \in AlarmDefinitions
                           /\ d[a].scheduled \in Int
                           /\ ~AtOrBelowWatermark(s, a, d[a].scheduled)
    BY DEF Crossed, AlarmDefinitions
  <1> HIDE DEF crossed
  <1>3. newest \in crossed
    BY <1>1, <1>2, NewestExists DEF IsNewest
  <1> HIDE DEF newest, r
  <1>4. missed \subseteq Crossed(s, d, w) /\ (rings => newest \notin missed)
    BY DEF crossed
  <1> HIDE DEF missed
  <1>5. /\ Good(journal, done \cup new)
        /\ journal.active = None
        /\ \A a \in AlarmIds \ missed :
             journal.watermarks[a] = s.watermarks[a]
    <2>1. missed \subseteq Crossed(s, d, w)
      BY <1>4
    <2> HIDE DEF rings, occ
    <2>2. Good(JournalMissed(s, d, missed), done \cup MissedIds(d, missed))
      BY <1>0, <2>1, GoodMissed
    <2>3. JournalMissed(s, d, missed).active = None
      BY <1>0, <2>1, <2>2, GoodMissed
    <2>4. \A a \in AlarmIds \ missed :
             JournalMissed(s, d, missed).watermarks[a] = s.watermarks[a]
      BY <1>0, <2>1, <2>2, GoodMissed
    <2> QED
      BY <2>2, <2>3, <2>4
  <1> HIDE DEF journal
  <1>6. CASE ~rings
    BY <1>1, <1>5, <1>6 DEF r
  <1>7. CASE rings
    <2>1. /\ occ.alarm = newest /\ occ.scheduled = d[newest].scheduled
          /\ occ \in OccurrenceIds
      BY <1>2, <1>3 DEF MakeOccurrenceId, OccurrenceId, OccurrenceIds,
                        AlarmDefinitions
    <2>2. newest \in AlarmIds \ missed
      BY <1>2, <1>3, <1>4, <1>7
    <2>3. ~AtOrBelowWatermark(journal, newest, d[newest].scheduled)
      BY <1>2, <1>3, <1>5, <2>2 DEF AtOrBelowWatermark
    <2> DEFINE active == FreshActive(occ.alarm, occ, occ.scheduled, w, m)
    <2> HIDE DEF occ
    <2>4. /\ Good(WithActive(journal, active), done \cup new)
          /\ active.occurrence_id = occ
          /\ occ \notin done \cup new
      BY <1>5, <2>1, <2>3, GoodFresh DEF FreshActive
    <2>5. r.state = WithActive(journal, active)
      BY <1>1, <1>7, <2>1 DEF BeginRecoveredRing
    <2>6. r.state.active = active
      BY <2>5 DEF WithActive, State
    <2> QED
      BY <1>1, <2>1, <2>4, <2>5, <2>6 DEF r
  <1> QED
    BY <1>6, <1>7

-----------------------------------------------------------------------------
(* Advancing, dismissing or snoozing the active occurrence either keeps it *)
(* the active one or ends it.                                              *)
ContinuesOrEnds(s, t) ==
  \/ /\ t.active \in ActiveOccurrences
     /\ t = WithActive(s, t.active)
     /\ t.active.alarm_id = s.active.alarm_id
     /\ t.active.occurrence_id = s.active.occurrence_id
     /\ t.active.scheduled = s.active.scheduled
  \/ \E reason \in Reasons : t = EndActive(s, reason)

LEMMA GoodContinuesOrEnds ==
  ASSUME NEW s, NEW t, NEW done, Good(s, done), s.active # None,
         ContinuesOrEnds(s, t)
  PROVE  /\ Good(t, IF t.active = None
                    THEN done \cup {s.active.occurrence_id} ELSE done)
         /\ s.active.occurrence_id \in OccurrenceIds
         /\ t.active # None =>
              t.active.occurrence_id = s.active.occurrence_id
  <1>1. s.active.occurrence_id \in OccurrenceIds
    BY DEF Good, StateOK, ActiveOccurrences
  <1>2. CASE \E reason \in Reasons : t = EndActive(s, reason)
    BY <1>1, <1>2, GoodEnd
  <1>3. CASE ~ \E reason \in Reasons : t = EndActive(s, reason)
    <2>1. /\ t.active \in ActiveOccurrences
          /\ t = WithActive(s, t.active)
          /\ t.active.alarm_id = s.active.alarm_id
          /\ t.active.occurrence_id = s.active.occurrence_id
          /\ t.active.scheduled = s.active.scheduled
      BY <1>3 DEF ContinuesOrEnds
    <2>2. Good(t, done)
      BY <2>1, GoodKeep
    <2>3. t.active # None
      BY <2>1, NoneIsNoOccurrence
    <2> QED BY <1>1, <2>1, <2>2, <2>3
  <1> QED BY <1>2, <1>3

LEMMA AdvanceContinuesOrEnds ==
  ASSUME NEW s, StateOK(s), NEW m \in Int, AdvanceActive(s, m).persist
  PROVE  /\ s.active # None
         /\ ContinuesOrEnds(s, AdvanceActive(s, m).state)
  <1> DEFINE r == AdvanceActive(s, m)
             a == [s.active EXCEPT !.snooze_deadline = None]
  <1>1. s.active # None
    BY DEF AdvanceActive, NoChange
  <1>2. s.active \in ActiveOccurrences
    BY <1>1 DEF StateOK
  <1>3. /\ a \in ActiveOccurrences
        /\ a.alarm_id = s.active.alarm_id
        /\ a.occurrence_id = s.active.occurrence_id
        /\ a.scheduled = s.active.scheduled
    BY <1>2 DEF ActiveOccurrences
  <1>4. \/ r = Result(EndActive(s, "timed_out"), "timed_out", FALSE, TRUE)
        \/ r = Result(WithActive(s, a), "ringing", TRUE, FALSE)
    BY DEF AdvanceActive, NoChange
  <1>5. CASE r = Result(EndActive(s, "timed_out"), "timed_out", FALSE, TRUE)
    BY <1>1, <1>5 DEF Result, ContinuesOrEnds, Reasons
  <1>6. CASE r = Result(WithActive(s, a), "ringing", TRUE, FALSE)
    <2>1. r.state = WithActive(s, a)
      BY <1>6 DEF Result
    <2>2. r.state.active = a
      BY <2>1 DEF WithActive, State
    <2> HIDE DEF r, a
    <2> QED
      BY <1>1, <1>3, <2>1, <2>2 DEF ContinuesOrEnds, r
  <1> QED BY <1>4, <1>5, <1>6

LEMMA SnoozeContinues ==
  ASSUME NEW s, StateOK(s), s.active # None, NEW m \in Int, NEW duration \in Int,
         RequestSnooze(s, s.active.occurrence_id, m, duration).persist
  PROVE  ContinuesOrEnds(s,
           RequestSnooze(s, s.active.occurrence_id, m, duration).state)
  <1> DEFINE r == RequestSnooze(s, s.active.occurrence_id, m, duration)
             a == [s.active EXCEPT !.snooze_count = @ + 1,
                                   !.snooze_deadline = m + duration]
  <1>1. s.active \in ActiveOccurrences
    BY DEF StateOK
  <1>2. /\ a \in ActiveOccurrences
        /\ a.alarm_id = s.active.alarm_id
        /\ a.occurrence_id = s.active.occurrence_id
        /\ a.scheduled = s.active.scheduled
    <2>1. s.active.snooze_count + 1 \in Nat /\ m + duration \in Int
      BY <1>1 DEF ActiveOccurrences
    <2> QED
      BY <1>1, <2>1 DEF ActiveOccurrences
  <1>3. r = Result(WithActive(s, a), "snoozed", FALSE, TRUE)
    BY DEF RequestSnooze, NoChange
  <1>4. r.state = WithActive(s, a)
    BY <1>3 DEF Result
  <1>5. r.state.active = a
    BY <1>4 DEF WithActive, State
  <1> HIDE DEF r, a
  <1> QED
    BY <1>2, <1>4, <1>5 DEF ContinuesOrEnds, r

LEMMA DismissEnds ==
  ASSUME NEW s, s.active # None, NEW disabled \in BOOLEAN
  PROVE  ContinuesOrEnds(s,
           DismissActive(s, s.active.occurrence_id, disabled).state)
  <1>1. PICK reason \in Reasons :
          DismissActive(s, s.active.occurrence_id, disabled)
            = Result(EndActive(s, reason), "dismissed", FALSE, TRUE)
    BY DEF DismissActive, Reasons
  <1> QED
    BY <1>1 DEF Result, ContinuesOrEnds

(* Recovery together with the translation of the anchor. *)
LEMMA RecoveryContinuesOrEnds ==
  ASSUME NEW s, NEW done, Good(s, done), NEW w \in Int, NEW m \in Int,
         NEW b \in Nat, RecoverAfterReboot(s, w, b).persist
  PROVE  /\ s.active # None
         /\ ContinuesOrEnds(s,
              Reanchored(RecoverAfterReboot(s, w, b).state, w, m))
  <1> DEFINE r == RecoverAfterReboot(s, w, b)
             t == Reanchored(r.state, w, m)
             z == Resumed(s.active, b)
             a == [z EXCEPT !.first_ring_mono = m - (w - z.first_ring_utc)]
  <1>1. s.active # None
    BY DEF RecoverAfterReboot, NoChange
  <1>2. s.active \in ActiveOccurrences
    BY <1>1 DEF Good, StateOK
  <1>3. \/ r = Result(EndActive(s, "prolonged_power_off"), "missed",
                      FALSE, FALSE)
        \/ r = Result(WithActive(s, z), "ringing", TRUE, FALSE)
    BY DEF RecoverAfterReboot, NoChange
  <1>4. CASE r = Result(EndActive(s, "prolonged_power_off"), "missed",
                        FALSE, FALSE)
    <2>1. r.state = EndActive(s, "prolonged_power_off")
      BY <1>4 DEF Result
    <2>2. r.state.active = None
      BY <1>1, <2>1, GoodEnd
    <2>3. t = r.state
      BY <2>2 DEF Reanchored
    <2> HIDE DEF t, r
    <2> QED
      BY <1>1, <2>1, <2>3 DEF ContinuesOrEnds, Reasons, t, r
  <1>5. CASE r = Result(WithActive(s, z), "ringing", TRUE, FALSE)
    <2>1. r.state = WithActive(s, z)
      BY <1>5 DEF Result
    <2>2. /\ z \in ActiveOccurrences
          /\ z.alarm_id = s.active.alarm_id
          /\ z.occurrence_id = s.active.occurrence_id
          /\ z.scheduled = s.active.scheduled
      BY <1>2 DEF Resumed, ActiveOccurrences
    <2>3. z # None
      BY <2>2, NoneIsNoOccurrence
    <2> HIDE DEF z
    <2>4. /\ a \in ActiveOccurrences
          /\ a.alarm_id = z.alarm_id
          /\ a.occurrence_id = z.occurrence_id
          /\ a.scheduled = z.scheduled
      BY <2>2 DEF ActiveOccurrences
    <2>5. t = WithActive(s, a)
      BY <2>1, <2>3 DEF Reanchored, WithActive, State
    <2>6. t.active = a
      BY <2>5 DEF WithActive, State
    <2> HIDE DEF t, a, r
    <2>7. ContinuesOrEnds(s, t)
      BY <2>2, <2>4, <2>5, <2>6 DEF ContinuesOrEnds
    <2> QED
      BY <1>1, <2>7 DEF t, r
  <1> QED
    BY <1>3, <1>4, <1>5

-----------------------------------------------------------------------------
(* The order in which the alarms of a schedule are handled exists, whatever *)
(* their number, and lists none of them twice.                             *)
IsOrder(d, ids, order) ==
  /\ order \in [1 .. Cardinality(ids) -> ids]
  /\ \A i, j \in DOMAIN order : i < j => Before(d, order[i], order[j])

LEMMA OrderExists ==
  ASSUME NEW d, NEW S, S \subseteq AlarmIds,
         \A a \in S : d[a].scheduled \in Int
  PROVE  IsOrder(d, S, InScheduleOrder(d, S))
  <1> DEFINE Mixed == {A \in SUBSET S :
                         \A order \in [1 .. Cardinality(A) -> A] :
                           ~IsOrder(d, A, order)}
  <1>1. IsFiniteSet(S)
    BY EngineConstants, FS_Subset
  <1>2. Mixed \subseteq FiniteSubsetsOf(S)
    BY <1>1, FS_FiniteSubsetsOfFinite
  <1>3. Mixed = {}
    <2> SUFFICES ASSUME Mixed # {} PROVE FALSE
      OBVIOUS
    <2> HIDE DEF Mixed
    <2>1. PICK A \in Mixed :
            \A B \in Mixed : <<B, A>> \notin StrictSubsetOrdering(S)
      BY <1>2, FS_StrictSubsetOrderingWellFounded, WFMin
    <2> USE DEF Mixed
    <2>2. A \in SUBSET S /\ IsFiniteSet(A)
      BY <1>1, FS_Subset
    <2>3. CASE A = {}
      <3>1. Cardinality(A) = 0
        BY <2>3, FS_EmptySet
      <3>2. [i \in 1 .. 0 |-> i] \in [1 .. Cardinality(A) -> A]
        BY <3>1
      <3>3. IsOrder(d, A, [i \in 1 .. 0 |-> i])
        BY <3>2 DEF IsOrder
      <3> QED
        BY <3>2, <3>3
    <2>4. CASE A # {}
      <3> DEFINE n == NewestOf(d, A)
                 B == A \ {n}
                 k == Cardinality(B)
      <3>1. n \in A /\ \A b \in B : Before(d, b, n)
        BY <2>2, <2>4, NewestExists DEF IsNewest
      <3> HIDE DEF n
      <3>2. B \notin Mixed
        BY <2>1, <3>1 DEF StrictSubsetOrdering
      <3>3. PICK q \in [1 .. Cardinality(B) -> B] : IsOrder(d, B, q)
        BY <3>2
      <3>4. /\ k \in Nat
            /\ Cardinality(A) = k + 1
        <4>1. IsFiniteSet(B) /\ k = Cardinality(A) - 1
          BY <2>2, <3>1, FS_RemoveElement
        <4>2. k \in Nat /\ Cardinality(A) \in Nat
          BY <2>2, <4>1, FS_CardinalityType
        <4> HIDE DEF k
        <4> QED
          BY <4>1, <4>2
      <3> HIDE DEF k
      <3> DEFINE order == [i \in 1 .. k + 1 |-> IF i = k + 1 THEN n ELSE q[i]]
      <3>5. \A i \in 1 .. k : q[i] \in B
        BY <3>3 DEF k
      <3>6. \A i, j \in 1 .. k : i < j => Before(d, q[i], q[j])
        BY <3>3 DEF IsOrder, k
      <3>7. order \in [1 .. Cardinality(A) -> A]
        <4>1. \A i \in 1 .. k + 1 : (IF i = k + 1 THEN n ELSE q[i]) \in A
          <5> TAKE i \in 1 .. k + 1
          <5>1. i = k + 1 \/ i \in 1 .. k
            BY <3>4
          <5> QED
            BY <3>1, <3>5, <5>1
        <4> QED
          BY <3>4, <4>1
      <3>8. ASSUME NEW i \in 1 .. k + 1, NEW j \in 1 .. k + 1, i < j
            PROVE  Before(d, order[i], order[j])
        <4>1. i \in 1 .. k /\ order[i] = q[i]
          BY <3>4, <3>8
        <4>2. CASE j = k + 1
          BY <3>1, <3>5, <4>1, <4>2
        <4>3. CASE j # k + 1
          <5>1. j \in 1 .. k /\ order[j] = q[j]
            BY <3>4, <4>3
          <5> HIDE DEF order
          <5> QED
            BY <3>6, <3>8, <4>1, <5>1
        <4> QED
          BY <4>2, <4>3
      <3>9. DOMAIN order = 1 .. k + 1
        OBVIOUS
      <3> HIDE DEF order
      <3>10. IsOrder(d, A, order)
        BY <3>7, <3>8, <3>9 DEF IsOrder
      <3> QED
        BY <3>7, <3>10
    <2> QED
      BY <2>3, <2>4
  <1>4. PICK order \in [1 .. Cardinality(S) -> S] : IsOrder(d, S, order)
    BY <1>3
  <1> QED
    BY <1>4 DEF InScheduleOrder, IsOrder

(* As a sequence, without repetition.                                      *)
LEMMA OrderFacts ==
  ASSUME NEW d, NEW S, S \subseteq AlarmIds,
         \A a \in S : d[a].scheduled \in Int
  PROVE  LET order == InScheduleOrder(d, S) IN
         /\ order \in Seq(S)
         /\ Len(order) = Cardinality(S)
         /\ \A i, j \in 1 .. Len(order) : order[i] = order[j] => i = j
  <1> DEFINE order == InScheduleOrder(d, S)
             n     == Cardinality(S)
  <1>1. n \in Nat
    BY EngineConstants, FS_Subset, FS_CardinalityType
  <1>2. IsOrder(d, S, order)
    BY OrderExists
  <1> HIDE DEF order, n
  <1>3. /\ order \in [1 .. n -> S]
        /\ \A i, j \in 1 .. n : i < j => Before(d, order[i], order[j])
    BY <1>2 DEF IsOrder, n
  <1>4. order \in Seq(S) /\ Len(order) = n
    BY <1>1, <1>3
  <1>5. ASSUME NEW i \in 1 .. n, NEW j \in 1 .. n, order[i] = order[j]
        PROVE  i = j
    <2>1. PICK a \in S : a = order[i]
      BY <1>3
    <2>2. a \in Nat /\ d[a].scheduled \in Int
      BY EngineConstants
    <2>3. ~Before(d, a, a)
      BY <2>2 DEF Before
    <2>4. ~(i < j) /\ ~(j < i)
      BY <1>3, <1>5, <2>1, <2>3
    <2> QED
      BY <1>1, <2>4
  <1> QED
    BY <1>4, <1>5 DEF order, n

-----------------------------------------------------------------------------
(* What the store agrees to write, in the form in which the engine keeps   *)
(* it: the outcomes that are listed are as many as are retained, none is   *)
(* listed twice, and there is room for the watermark of whatever rings.    *)
Recorded(list) ==
  /\ list \in Seq(TerminalRecords)
  /\ Len(list) <= Retention
  /\ \A i, j \in 1 .. Len(list) :
       list[i].occurrence_id = list[j].occurrence_id => i = j

ListedIds(list) == {list[i].occurrence_id : i \in 1 .. Len(list)}

(* An occurrence as it may be active next to those listed. *)
MayRun(active, list, tracked) ==
  /\ active.occurrence_id \notin ListedIds(list)
  /\ active.snooze_count <= MaxSnoozes
  /\ active.snooze_deadline # None =>
       active.snooze_deadline >= active.first_ring_mono
  /\ active.alarm_id \in tracked \/ Cardinality(tracked) < Capacity

Storable(s) ==
  /\ StateOK(s)
  /\ Recorded(s.terminal)
  /\ Cardinality(Tracked(s)) <= Capacity
  /\ s.active # None => MayRun(s.active, s.terminal, Tracked(s))

LEMMA TrackedIsFinite ==
  ASSUME NEW s
  PROVE  /\ IsFiniteSet(Tracked(s)) /\ Cardinality(Tracked(s)) \in Nat
         /\ Tracked(s) \subseteq AlarmIds
  BY EngineConstants, FS_Subset, FS_CardinalityType DEF Tracked

(* The ids of a list are those of its records, and as many as it is long.  *)
LEMMA ListedIdsFacts ==
  ASSUME NEW s, Recorded(s.terminal)
  PROVE  /\ TerminalIds(s) = ListedIds(s.terminal)
         /\ Cardinality(TerminalIds(s)) = Len(s.terminal)
  <1> DEFINE list == s.terminal
             n    == Len(list)
             f    == [i \in 1 .. n |-> list[i].occurrence_id]
  <1>1. n \in Nat /\ DOMAIN list = 1 .. n
    BY LenProperties DEF Recorded
  <1>2. TerminalIds(s) = ListedIds(list)
    BY <1>1 DEF TerminalIds, ListedIds
  <1>3. f \in Bijection(1 .. n, ListedIds(list))
    <2>1. f \in Injection(1 .. n, ListedIds(list))
      BY DEF Recorded, ListedIds, Injection, IsInjective
    <2>2. f \in Surjection(1 .. n, ListedIds(list))
      BY DEF ListedIds, Surjection
    <2> QED
      BY <2>1, <2>2 DEF Bijection
  <1>4. IsFiniteSet(1 .. n) /\ Cardinality(1 .. n) = n
    BY <1>1, FS_Interval
  <1>5. ExistsBijection(1 .. n, ListedIds(list))
    BY <1>3 DEF ExistsBijection
  <1>6. Cardinality(ListedIds(list)) = n
    BY <1>4, <1>5, FS_Bijection
  <1> QED
    BY <1>2, <1>6

LEMMA StorableIsSavable ==
  ASSUME NEW s, Storable(s)
  PROVE  SavableState(s)
  BY ListedIdsFacts DEF Storable, SavableState, Recorded, MayRun

(* The last records of a list without repetition.                          *)
LEMMA LastRecords ==
  ASSUME NEW grown \in Seq(TerminalRecords),
         \A i, j \in 1 .. Len(grown) :
           grown[i].occurrence_id = grown[j].occurrence_id => i = j
  PROVE  LET extra == Len(grown) - Retention
             last  == IF extra > 0 THEN SubSeq(grown, extra + 1, Len(grown))
                      ELSE grown
         IN  Recorded(last) /\ ListedIds(last) \subseteq ListedIds(grown)
  <1> DEFINE n     == Len(grown)
             extra == n - Retention
             last  == SubSeq(grown, extra + 1, n)
  <1>1. n \in Nat /\ extra \in Int /\ Retention \in Nat \ {0}
    BY LenProperties, EngineConstants
  <1>2. CASE ~(extra > 0)
    BY <1>1, <1>2 DEF Recorded
  <1>3. CASE extra > 0
    <2>1. \A i \in extra + 1 .. n : i \in 1 .. n /\ grown[i] \in TerminalRecords
      BY <1>1, <1>3, ElementOfSeq
    <2> HIDE DEF extra, n
    <2>2. /\ last \in Seq(TerminalRecords)
          /\ Len(last) = IF extra + 1 <= n THEN n - (extra + 1) + 1 ELSE 0
          /\ \A i \in 1 .. n - (extra + 1) + 1 :
               last[i] = grown[extra + 1 + i - 1]
      BY <1>1, <2>1, SubSeqProperties
    <2> HIDE DEF last
    <2>3. Len(last) = Retention /\ Retention <= n
      BY <1>1, <1>3, <2>2 DEF extra
    <2>4. \A i \in 1 .. Retention : /\ last[i] = grown[extra + i]
                                    /\ extra + i \in 1 .. n
      <3> TAKE i \in 1 .. Retention
      <3>1. /\ i \in 1 .. n - (extra + 1) + 1
            /\ extra + 1 + i - 1 = extra + i
            /\ extra + i \in 1 .. n
        BY <1>1, <1>3, <2>3 DEF extra
      <3> QED
        BY <2>2, <3>1
    <2>5. ASSUME NEW i \in 1 .. Retention, NEW j \in 1 .. Retention,
                 last[i].occurrence_id = last[j].occurrence_id
          PROVE  i = j
      <3>1. extra + i = extra + j
        BY <2>4, <2>5 DEF n
      <3> QED
        BY <1>1, <3>1
    <2>6. Recorded(last)
      BY <1>1, <2>2, <2>3, <2>5 DEF Recorded
    <2>7. ListedIds(last) \subseteq ListedIds(grown)
      BY <2>3, <2>4 DEF ListedIds, n
    <2> QED
      BY <1>3, <2>6, <2>7 DEF last, extra, n
  <1> QED
    BY <1>2, <1>3

(* An outcome is listed once.                                              *)
LEMMA AppendTerminalFacts ==
  ASSUME NEW list, Recorded(list), NEW occ \in OccurrenceIds,
         NEW reason \in Reasons
  PROVE  /\ Recorded(AppendTerminal(list, occ, reason))
         /\ ListedIds(AppendTerminal(list, occ, reason))
              \subseteq ListedIds(list) \cup {occ}
  <1> DEFINE record == [occurrence_id |-> occ, reason |-> reason]
             grown  == Append(list, record)
             n      == Len(list)
  <1>1. /\ list \in Seq(TerminalRecords) /\ n \in Nat
        /\ DOMAIN list = 1 .. n
        /\ record \in TerminalRecords
    BY LenProperties DEF Recorded, TerminalRecords
  <1>2. CASE \E i \in DOMAIN list : list[i].occurrence_id = occ
    BY <1>2 DEF AppendTerminal
  <1>3. CASE ~ \E i \in DOMAIN list : list[i].occurrence_id = occ
    <2>1. /\ grown \in Seq(TerminalRecords) /\ Len(grown) = n + 1
          /\ \A i \in 1 .. n : grown[i] = list[i]
          /\ grown[n + 1] = record
      BY <1>1, AppendProperties
    <2> HIDE DEF grown
    <2>2. \A i \in 1 .. n + 1 : i \in 1 .. n \/ i = n + 1
      BY <1>1
    <2>3. ASSUME NEW i \in 1 .. n + 1, NEW j \in 1 .. n + 1,
                 grown[i].occurrence_id = grown[j].occurrence_id
          PROVE  i = j
      <3>1. CASE i \in 1 .. n /\ j \in 1 .. n
        BY <2>1, <2>3, <3>1 DEF Recorded
      <3>2. CASE i \in 1 .. n /\ j = n + 1
        BY <1>1, <1>3, <2>1, <2>3, <3>2
      <3>3. CASE i = n + 1 /\ j \in 1 .. n
        BY <1>1, <1>3, <2>1, <2>3, <3>3
      <3> QED
        BY <2>2, <3>1, <3>2, <3>3
    <2>4. ListedIds(grown) \subseteq ListedIds(list) \cup {occ}
      <3> SUFFICES ASSUME NEW i \in 1 .. n + 1
                   PROVE  grown[i].occurrence_id \in ListedIds(list) \cup {occ}
        BY <2>1 DEF ListedIds
      <3>1. CASE i \in 1 .. n
        BY <2>1, <3>1 DEF ListedIds
      <3>2. CASE i = n + 1
        BY <2>1, <3>2
      <3> QED
        BY <2>2, <3>1, <3>2
    <2> DEFINE last == IF Len(grown) - Retention > 0
                       THEN SubSeq(grown, Len(grown) - Retention + 1,
                                   Len(grown))
                       ELSE grown
    <2>5. Recorded(last) /\ ListedIds(last) \subseteq ListedIds(grown)
      BY <2>1, <2>3, LastRecords
    <2>6. AppendTerminal(list, occ, reason) = last
      BY <1>3 DEF AppendTerminal, grown
    <2> QED
      BY <2>4, <2>5, <2>6
  <1> QED
    BY <1>2, <1>3

(* Recording one outcome leaves a state that can be stored, if there is    *)
(* room for its watermark.                                                 *)
LEMMA StorableOutcome ==
  ASSUME NEW s, Storable(s), NEW occ \in OccurrenceIds, NEW reason \in Reasons,
         CanTrackTerminal(s, occ.alarm)
  PROVE  Storable(WithActive(
           JournalTerminal(s, occ.alarm, occ, occ.scheduled, reason), None))
  <1> DEFINE up == RaiseWatermark(s.watermarks, occ.alarm, occ.scheduled)
             t  == State(None, AppendTerminal(s.terminal, occ, reason), up)
  <1>1. occ.alarm \in AlarmIds /\ occ.scheduled \in Int
    BY DEF OccurrenceIds
  <1>2. s.watermarks \in [AlarmIds -> Int \cup {None}]
    BY DEF Storable, StateOK
  <1>3. /\ up \in [AlarmIds -> Int \cup {None}]
        /\ up[occ.alarm] # None
        /\ \A a \in AlarmIds \ {occ.alarm} : up[a] = s.watermarks[a]
    BY <1>1, <1>2, RaiseWatermarkFacts
  <1> HIDE DEF up
  <1>4. Tracked(t) = Tracked(s) \cup {occ.alarm}
    BY <1>1, <1>3 DEF Tracked, State
  <1>5. Cardinality(Tracked(t)) <= Capacity
    <2>1. CASE occ.alarm \in Tracked(s)
      <3>1. Tracked(t) = Tracked(s)
        BY <1>4, <2>1
      <3> QED
        BY <3>1 DEF Storable
    <2>2. CASE occ.alarm \notin Tracked(s)
      <3>1. Cardinality(Tracked(t)) = Cardinality(Tracked(s)) + 1
        BY <1>4, <2>2, TrackedIsFinite, FS_AddElement
      <3>2. Cardinality(Tracked(s)) < Capacity
        BY <2>2 DEF CanTrackTerminal
      <3> QED
        BY <3>1, <3>2, TrackedIsFinite, EngineConstants
    <2> QED
      BY <2>1, <2>2
  <1>6. Recorded(AppendTerminal(s.terminal, occ, reason))
    BY AppendTerminalFacts DEF Storable
  <1>7. StateOK(t) /\ t.active = None
        /\ t.terminal = AppendTerminal(s.terminal, occ, reason)
    BY <1>3 DEF StateOK, State
  <1>8. WithActive(JournalTerminal(s, occ.alarm, occ, occ.scheduled, reason),
                   None) = t
    BY DEF WithActive, JournalTerminal, State, up
  <1> HIDE DEF t
  <1> QED
    BY <1>5, <1>6, <1>7, <1>8 DEF Storable

(* Another active occurrence, for which there is room.                     *)
LEMMA StorableActive ==
  ASSUME NEW s, Storable(s), NEW active \in ActiveOccurrences,
         MayRun(active, s.terminal, Tracked(s))
  PROVE  Storable(WithActive(s, active))
  <1> DEFINE t == WithActive(s, active)
  <1>1. t.active = active /\ t.terminal = s.terminal /\ StateOK(t)
    BY DEF Storable, StateOK, WithActive, State
  <1>2. Tracked(t) = Tracked(s)
    BY DEF Tracked, WithActive, State
  <1> HIDE DEF t
  <1>3. MayRun(t.active, t.terminal, Tracked(t))
    BY <1>1, <1>2
  <1>4. Storable(t)
    BY <1>1, <1>2, <1>3 DEF Storable
  <1> QED
    BY <1>4 DEF t

(* The end of the active occurrence, for which there was room.             *)
LEMMA StorableEnd ==
  ASSUME NEW s, Storable(s), ActiveAboveWatermark(s), s.active # None,
         NEW reason \in Reasons
  PROVE  Storable(EndActive(s, reason))
  <1> DEFINE occ == s.active.occurrence_id
  <1>1. /\ occ \in OccurrenceIds
        /\ s.active.alarm_id = occ.alarm /\ s.active.scheduled = occ.scheduled
    BY DEF Storable, StateOK, ActiveOccurrences, ActiveAboveWatermark
  <1>2. CanTrackTerminal(s, occ.alarm)
    BY <1>1 DEF Storable, MayRun, CanTrackTerminal
  <1> QED
    BY <1>1, <1>2, StorableOutcome DEF EndActive

(* A batch of missed occurrences that fits.                                *)
LEMMA StorableMissed ==
  ASSUME NEW s, Storable(s), s.active = None,
         NEW d \in [AlarmIds -> AlarmDefinitions \cup {None}], NEW w \in Int,
         NEW missed, missed \subseteq Crossed(s, d, w),
         Cardinality(Tracked(s) \cup missed) <= Capacity
  PROVE  LET t == JournalMissed(s, d, missed) IN
         /\ Storable(t)
         /\ t.active = None
         /\ Tracked(t) = Tracked(s) \cup missed
         /\ ListedIds(t.terminal)
              \subseteq ListedIds(s.terminal) \cup MissedIds(d, missed)
  <1> DEFINE order == InScheduleOrder(d, missed)
             k     == Len(order)
             list  == s.terminal
             n     == Len(list)
             tail  == [i \in 1 .. k |->
                         [occurrence_id |-> MakeOccurrenceId(order[i],
                                                             d[order[i]]),
                          reason |-> "invalid_time"]]
             grown == list \o tail
             extra == Len(grown) - Retention
             last  == IF extra > 0
                      THEN SubSeq(grown, extra + 1, Len(grown)) ELSE grown
             marks == [a \in AlarmIds |-> IF a \in missed THEN d[a].scheduled
                                                        ELSE s.watermarks[a]]
             t     == JournalMissed(s, d, missed)
  <1>1. \A a \in missed : /\ a \in AlarmIds
                          /\ d[a] \in AlarmDefinitions
                          /\ d[a].scheduled \in Int
                          /\ MakeOccurrenceId(a, d[a]) \notin TerminalIds(s)
    BY DEF Crossed, IsTerminal, AlarmDefinitions
  <1>2. t = State(None, last, marks)
    BY DEF JournalMissed
  <1>3. /\ order \in Seq(missed)
        /\ \A i, j \in 1 .. k : order[i] = order[j] => i = j
    BY <1>1, OrderFacts
  <1>4. /\ list \in Seq(TerminalRecords) /\ n \in Nat
        /\ \A i, j \in 1 .. n :
             list[i].occurrence_id = list[j].occurrence_id => i = j
        /\ TerminalIds(s) = ListedIds(list)
    BY ListedIdsFacts, LenProperties DEF Storable, Recorded
  <1> HIDE DEF order, list, t
  <1>5. k \in Nat /\ \A i \in 1 .. k : order[i] \in missed
    BY <1>3, LenProperties, ElementOfSeq
  <1> HIDE DEF k, n
  <1>6. \A a \in missed : MakeOccurrenceId(a, d[a]) \in OccurrenceIds
    BY <1>1 DEF MakeOccurrenceId, OccurrenceId, OccurrenceIds,
                AlarmDefinitions
  <1>7. \A i \in 1 .. k :
          /\ tail[i] \in TerminalRecords
          /\ tail[i].occurrence_id = MakeOccurrenceId(order[i], d[order[i]])
    BY <1>5, <1>6 DEF TerminalRecords, Reasons
  <1>8. tail \in Seq(TerminalRecords) /\ Len(tail) = k
    <2>1. tail \in [1 .. k -> TerminalRecords]
      <3>1. \A i \in 1 .. k :
              [occurrence_id |-> MakeOccurrenceId(order[i], d[order[i]]),
               reason |-> "invalid_time"] \in TerminalRecords
        BY <1>5, <1>6 DEF TerminalRecords, Reasons
      <3> QED
        BY <3>1
    <2> HIDE DEF tail
    <2> QED
      BY <1>5, <2>1
  <1> HIDE DEF tail
  <1>9. /\ grown \in Seq(TerminalRecords)
        /\ Len(grown) = n + k
        /\ \A i \in 1 .. n + k :
             grown[i] = IF i <= n THEN list[i] ELSE tail[i - n]
    BY <1>4, <1>8, ConcatProperties DEF n
  <1> HIDE DEF grown
  <1>10. \A i \in 1 .. n + k :
           \/ i \in 1 .. n /\ grown[i] = list[i]
           \/ i - n \in 1 .. k /\ i > n /\ grown[i] = tail[i - n]
    BY <1>4, <1>5, <1>9
  <1>11. \A i \in 1 .. n : list[i].occurrence_id \in ListedIds(list)
    BY DEF ListedIds, n
  <1>12. \A i \in 1 .. k :
           /\ tail[i].occurrence_id \in MissedIds(d, missed)
           /\ tail[i].occurrence_id \notin ListedIds(list)
           /\ tail[i].occurrence_id.alarm = order[i]
    <2> TAKE i \in 1 .. k
    <2>1. PICK a \in missed : a = order[i]
      BY <1>5
    <2>2. tail[i].occurrence_id = MakeOccurrenceId(a, d[a])
      BY <1>7, <2>1
    <2>3. MakeOccurrenceId(a, d[a]).alarm = a
      BY DEF MakeOccurrenceId, OccurrenceId
    <2>4. MakeOccurrenceId(a, d[a]) \notin ListedIds(list)
      BY <1>1, <1>4
    <2> QED
      BY <2>1, <2>2, <2>3, <2>4 DEF MissedIds
  <1>13. ASSUME NEW i \in 1 .. n + k, NEW j \in 1 .. n + k,
                grown[i].occurrence_id = grown[j].occurrence_id
         PROVE  i = j
    <2>1. CASE i \in 1 .. n /\ grown[i] = list[i]
      <3>1. ~(j - n \in 1 .. k /\ j > n /\ grown[j] = tail[j - n])
        BY <1>11, <1>12, <1>13, <2>1
      <3> QED
        BY <1>4, <1>10, <1>13, <2>1, <3>1
    <2>2. CASE i - n \in 1 .. k /\ i > n /\ grown[i] = tail[i - n]
      <3>1. ~(j \in 1 .. n /\ grown[j] = list[j])
        BY <1>11, <1>12, <1>13, <2>2
      <3>2. j - n \in 1 .. k /\ grown[j] = tail[j - n]
        BY <1>10, <3>1
      <3>3. order[i - n] = order[j - n]
        BY <1>12, <1>13, <2>2, <3>2
      <3>4. i - n = j - n
        BY <1>3, <2>2, <3>2, <3>3
      <3> QED
        BY <1>4, <1>5, <3>4
    <2> QED
      BY <1>10, <2>1, <2>2
  <1>14. Recorded(last) /\ ListedIds(last) \subseteq ListedIds(grown)
    BY <1>9, <1>13, LastRecords
  <1>15. ListedIds(grown) \subseteq ListedIds(list) \cup MissedIds(d, missed)
    <2> SUFFICES ASSUME NEW i \in 1 .. n + k
                 PROVE  grown[i].occurrence_id
                          \in ListedIds(list) \cup MissedIds(d, missed)
      BY <1>9 DEF ListedIds
    <2> QED
      BY <1>10, <1>11, <1>12
  <1> HIDE DEF last
  <1>16. marks \in [AlarmIds -> Int \cup {None}]
    BY <1>1 DEF Storable, StateOK
  <1>17. Tracked(t) = Tracked(s) \cup missed
    BY <1>1, <1>2, EngineConstants DEF Tracked, State
  <1> HIDE DEF marks
  <1>18. t.active = None /\ t.terminal = last /\ StateOK(t)
    BY <1>2, <1>16 DEF State, StateOK
  <1>19. Storable(t)
    BY <1>14, <1>17, <1>18 DEF Storable
  <1> QED
    BY <1>14, <1>15, <1>17, <1>18, <1>19 DEF list, t

-----------------------------------------------------------------------------
(* Every operation of the engine leaves a state that can be stored.        *)
LEMMA StorableAdvance ==
  ASSUME NEW s, Storable(s), ActiveAboveWatermark(s), NEW m \in Int,
         AdvanceActive(s, m).persist
  PROVE  Storable(AdvanceActive(s, m).state)
  <1> DEFINE r == AdvanceActive(s, m)
             a == [s.active EXCEPT !.snooze_deadline = None]
  <1>1. s.active # None
    BY DEF AdvanceActive, NoChange
  <1>2. \/ r = Result(EndActive(s, "timed_out"), "timed_out", FALSE, TRUE)
        \/ r = Result(WithActive(s, a), "ringing", TRUE, FALSE)
    BY DEF AdvanceActive, NoChange
  <1>3. CASE r = Result(EndActive(s, "timed_out"), "timed_out", FALSE, TRUE)
    <2>1. r.state = EndActive(s, "timed_out")
      BY <1>3 DEF Result
    <2> QED
      BY <1>1, <2>1, StorableEnd DEF Reasons
  <1>4. CASE r = Result(WithActive(s, a), "ringing", TRUE, FALSE)
    <2>1. r.state = WithActive(s, a)
      BY <1>4 DEF Result
    <2>2. s.active \in ActiveOccurrences /\ MayRun(s.active, s.terminal,
                                                   Tracked(s))
      BY <1>1 DEF Storable, StateOK
    <2>3. a \in ActiveOccurrences /\ MayRun(a, s.terminal, Tracked(s))
      BY <2>2 DEF ActiveOccurrences, MayRun
    <2> HIDE DEF r, a
    <2> QED
      BY <2>1, <2>3, StorableActive DEF r
  <1> QED
    BY <1>2, <1>3, <1>4

LEMMA StorableSnooze ==
  ASSUME NEW s, Storable(s), s.active # None, NEW m \in Int,
         NEW duration \in Int,
         RequestSnooze(s, s.active.occurrence_id, m, duration).persist
  PROVE  Storable(RequestSnooze(s, s.active.occurrence_id, m, duration).state)
  <1> DEFINE r == RequestSnooze(s, s.active.occurrence_id, m, duration)
             a == [s.active EXCEPT !.snooze_count = @ + 1,
                                   !.snooze_deadline = m + duration]
  <1>1. s.active \in ActiveOccurrences /\ MayRun(s.active, s.terminal,
                                                 Tracked(s))
    BY DEF Storable, StateOK
  <1>2. /\ r = Result(WithActive(s, a), "snoozed", FALSE, TRUE)
        /\ duration \in MinSnooze .. MaxSnooze
        /\ ~(s.active.snooze_count >= MaxSnoozes)
        /\ ~(m < s.active.first_ring_mono)
    BY DEF RequestSnooze, NoChange
  <1>3. /\ s.active.snooze_count \in Nat /\ s.active.first_ring_mono \in Int
        /\ duration \in Nat /\ MaxSnoozes \in Nat
    BY <1>1, <1>2, EngineConstants DEF ActiveOccurrences
  <1>4. /\ s.active.snooze_count + 1 \in Nat
        /\ s.active.snooze_count + 1 <= MaxSnoozes
        /\ m + duration \in Int /\ m + duration >= s.active.first_ring_mono
    BY <1>2, <1>3
  <1>5. /\ a.alarm_id = s.active.alarm_id
        /\ a.occurrence_id = s.active.occurrence_id
        /\ a.snooze_count = s.active.snooze_count + 1
        /\ a.snooze_deadline = m + duration
        /\ a.first_ring_mono = s.active.first_ring_mono
        /\ a \in ActiveOccurrences
    BY <1>1, <1>4 DEF ActiveOccurrences
  <1> HIDE DEF a
  <1>6. MayRun(a, s.terminal, Tracked(s))
    BY <1>1, <1>4, <1>5 DEF MayRun
  <1>7. r.state = WithActive(s, a)
    BY <1>2 DEF Result
  <1> HIDE DEF r
  <1> QED
    BY <1>5, <1>6, <1>7, StorableActive DEF r

LEMMA StorableDismiss ==
  ASSUME NEW s, Storable(s), ActiveAboveWatermark(s), s.active # None,
         NEW disabled \in BOOLEAN
  PROVE  Storable(DismissActive(s, s.active.occurrence_id, disabled).state)
  <1>1. PICK reason \in Reasons :
          DismissActive(s, s.active.occurrence_id, disabled)
            = Result(EndActive(s, reason), "dismissed", FALSE, TRUE)
    BY DEF DismissActive, Reasons
  <1>2. DismissActive(s, s.active.occurrence_id, disabled).state
          = EndActive(s, reason)
    BY <1>1 DEF Result
  <1> QED
    BY <1>2, StorableEnd

(* A recovery leaves no snooze, so that its anchor may be moved anywhere.  *)
LEMMA StorableRecovery ==
  ASSUME NEW s, Storable(s), ActiveAboveWatermark(s), NEW w \in Int,
         NEW m \in Int, NEW b \in Nat, RecoverAfterReboot(s, w, b).persist
  PROVE  Storable(Reanchored(RecoverAfterReboot(s, w, b).state, w, m))
  <1> DEFINE r == RecoverAfterReboot(s, w, b)
             z == Resumed(s.active, b)
             a == [z EXCEPT !.first_ring_mono = m - (w - z.first_ring_utc)]
  <1>1. s.active # None
    BY DEF RecoverAfterReboot, NoChange
  <1>2. s.active \in ActiveOccurrences /\ MayRun(s.active, s.terminal,
                                                 Tracked(s))
    BY <1>1 DEF Storable, StateOK
  <1>3. \/ r = Result(EndActive(s, "prolonged_power_off"), "missed",
                      FALSE, FALSE)
        \/ r = Result(WithActive(s, z), "ringing", TRUE, FALSE)
    BY DEF RecoverAfterReboot, NoChange
  <1>4. CASE r = Result(EndActive(s, "prolonged_power_off"), "missed",
                        FALSE, FALSE)
    <2>1. r.state = EndActive(s, "prolonged_power_off")
      BY <1>4 DEF Result
    <2>2. Storable(r.state)
      BY <1>1, <2>1, StorableEnd DEF Reasons
    <2>3. r.state.active = None
      BY <2>1 DEF EndActive, WithActive, State
    <2> QED
      BY <2>2, <2>3 DEF Reanchored
  <1>5. CASE r = Result(WithActive(s, z), "ringing", TRUE, FALSE)
    <2>1. r.state = WithActive(s, z)
      BY <1>5 DEF Result
    <2>2. /\ z \in ActiveOccurrences
          /\ z.snooze_deadline = None
          /\ z.alarm_id = s.active.alarm_id
          /\ z.occurrence_id = s.active.occurrence_id
          /\ z.snooze_count = s.active.snooze_count
      BY <1>2 DEF Resumed, ActiveOccurrences
    <2>3. z # None
      BY <2>2, NoneIsNoOccurrence
    <2> HIDE DEF z
    <2>4. /\ a \in ActiveOccurrences
          /\ a.snooze_deadline = None
          /\ a.alarm_id = s.active.alarm_id
          /\ a.occurrence_id = s.active.occurrence_id
          /\ a.snooze_count = s.active.snooze_count
      BY <2>2 DEF ActiveOccurrences
    <2>5. Reanchored(r.state, w, m) = WithActive(s, a)
      BY <2>1, <2>3 DEF Reanchored, WithActive, State
    <2> HIDE DEF r, a
    <2>6. MayRun(a, s.terminal, Tracked(s))
      BY <1>2, <2>4 DEF MayRun
    <2> QED
      BY <2>4, <2>5, <2>6, StorableActive DEF r
  <1> QED
    BY <1>3, <1>4, <1>5

(* What a due evaluation that needs a commit does: it admits the           *)
(* occurrence of its alarm, or records it as missed, on an idle journal.   *)
LEMMA DueFacts ==
  ASSUME NEW s, NEW done, Good(s, done), Storable(s), NEW id \in AlarmIds,
         NEW def \in AlarmDefinitions, NEW w \in Int, NEW m \in Int,
         EvaluateDue(s, id, def, w, m, TRUE).persist
  PROVE  LET r   == EvaluateDue(s, id, def, w, m, TRUE)
             occ == MakeOccurrenceId(id, def)
             out == IF r.start THEN {} ELSE {occ}
         IN  /\ s.active = None
             /\ def.enabled
             /\ occ \in OccurrenceIds
             /\ Storable(r.state)
             /\ Good(r.state, done \cup out)
             /\ r.start \in BOOLEAN
             /\ r.start <=> r.state.active # None
             /\ r.start => /\ r.state.active.occurrence_id = occ
                           /\ r.state.active.snooze_deadline = None
                           /\ r.state.active.last_recovery_boot = None
                           /\ occ \notin done
  <1> DEFINE occ == MakeOccurrenceId(id, def)
             r   == EvaluateDue(s, id, def, w, m, TRUE)
             a   == FreshActive(id, occ, def.scheduled, w, m)
             j   == JournalTerminal(s, id, occ, def.scheduled, "forward_jump")
  <1>1. /\ occ \in OccurrenceIds
        /\ occ.alarm = id /\ occ.scheduled = def.scheduled
    BY DEF MakeOccurrenceId, OccurrenceId, OccurrenceIds, AlarmDefinitions
  <1> HIDE DEF occ
  <1>2. /\ s.active = None
        /\ def.enabled
        /\ occ \notin TerminalIds(s)
        /\ ~AtOrBelowWatermark(s, id, def.scheduled)
        /\ CanTrackTerminal(s, id)
        /\ \/ r = Result(j, "missed", FALSE, FALSE)
           \/ r = Result(WithActive(s, a), "ringing", TRUE, FALSE)
    BY DEF EvaluateDue, NoChange, occ, IsTerminal
  <1>3. CASE r = Result(j, "missed", FALSE, FALSE)
    <2> HIDE DEF r, j
    <2>1. r.state = j /\ r.start = FALSE
      BY <1>3 DEF Result
    <2>2. j = JournalTerminal(s, occ.alarm, occ, occ.scheduled, "forward_jump")
      BY <1>1 DEF j
    <2>3. StateOK(j) /\ j.active = None /\ Covered(j, done \cup {occ})
      BY <1>1, <1>2, <2>2, JournalTerminalFacts DEF Good
    <2>4. Good(j, done \cup {occ})
      BY <1>1, <2>3 DEF Good, ActiveAboveWatermark
    <2>5. Storable(WithActive(j, None))
      BY <1>1, <1>2, <2>2, StorableOutcome DEF Reasons
    <2>6. WithActive(j, None) = j
      BY <2>3 DEF StateOK, WithActive
    <2>7. Storable(j)
      BY <2>5, <2>6
    <2> QED
      BY <1>1, <1>2, <2>1, <2>3, <2>4, <2>7 DEF r, occ
  <1>4. CASE r = Result(WithActive(s, a), "ringing", TRUE, FALSE)
    <2>0. /\ a.occurrence_id = occ /\ a.snooze_count = 0
          /\ a.snooze_deadline = None /\ a.alarm_id = id
          /\ a.last_recovery_boot = None
      BY DEF FreshActive
    <2>1. /\ a \in ActiveOccurrences
          /\ Good(WithActive(s, a), done)
          /\ occ \notin done
      BY <1>1, <1>2, GoodFresh
    <2> HIDE DEF r, a
    <2>2. r.state = WithActive(s, a) /\ r.start = TRUE
      BY <1>4 DEF Result
    <2>3. Recorded(s.terminal)
      BY DEF Storable
    <2>4. MayRun(a, s.terminal, Tracked(s))
      BY <1>2, <2>0, <2>3, ListedIdsFacts, EngineConstants
         DEF MayRun, CanTrackTerminal
    <2>5. Storable(WithActive(s, a))
      BY <2>1, <2>4, StorableActive
    <2>6. WithActive(s, a).active = a /\ a # None
      BY <2>1, NoneIsNoOccurrence DEF WithActive, State
    <2> QED
      BY <1>1, <1>2, <2>0, <2>1, <2>2, <2>5, <2>6 DEF r, occ
  <1> QED
    BY <1>2, <1>3, <1>4

(* A reconciliation batch can be stored, and rings only what was armed.    *)
LEMMA BatchFacts ==
  ASSUME NEW s, NEW done, Good(s, done), Storable(s),
         NEW d \in [AlarmIds -> AlarmDefinitions \cup {None}],
         NEW w \in Int, NEW m \in Int,
         Reconciliation(s, d, w, m).status = "batch"
  PROVE  LET r == Reconciliation(s, d, w, m) IN
         /\ Storable(r.state)
         /\ r.missed \subseteq Crossed(s, d, w)
         /\ r.ringing = None <=> r.state.active = None
         /\ r.state.active # None =>
              /\ r.ringing \in Crossed(s, d, w)
              /\ r.state.active.occurrence_id
                   = MakeOccurrenceId(r.ringing, d[r.ringing])
              /\ r.state.active.snooze_deadline = None
              /\ r.state.active.last_recovery_boot = None
  <1> DEFINE crossed == Crossed(s, d, w)
             newest  == NewestOf(d, crossed)
             rings   == w - d[newest].scheduled <= Grace
             missed  == IF rings THEN crossed \ {newest} ELSE crossed
             journal == JournalMissed(s, d, missed)
             occ     == MakeOccurrenceId(newest, d[newest])
             a       == FreshActive(newest, occ, d[newest].scheduled, w, m)
             r       == Reconciliation(s, d, w, m)
  <1>1. /\ s.active = None
        /\ crossed # {}
        /\ ~(Cardinality(Tracked(s) \cup missed) > Capacity)
        /\ rings => CanBeginRecoveredRing(journal, newest)
        /\ r.missed = missed
        /\ r.ringing = IF rings THEN newest ELSE None
        /\ r.state = IF rings THEN WithActive(journal, a) ELSE journal
    <2>0. s.active = None
      BY DEF Reconciliation
    <2> QED
      BY <2>0 DEF Reconciliation, BeginRecoveredRing
  <1>2. \A x \in crossed : /\ x \in AlarmIds
                           /\ d[x] \in AlarmDefinitions
                           /\ d[x].scheduled \in Int
                           /\ MakeOccurrenceId(x, d[x]) \notin TerminalIds(s)
    BY DEF Crossed, AlarmDefinitions, IsTerminal
  <1> HIDE DEF crossed
  <1>3. newest \in crossed
    BY <1>1, <1>2, NewestExists DEF IsNewest
  <1> HIDE DEF newest, r
  <1>4. missed \subseteq Crossed(s, d, w) /\ (rings => newest \notin missed)
    BY DEF crossed
  <1> HIDE DEF missed, rings
  <1>5. Cardinality(Tracked(s) \cup missed) <= Capacity
    <2>1. IsFiniteSet(Tracked(s) \cup missed)
      BY <1>2, <1>4, TrackedIsFinite, EngineConstants, FS_Subset DEF crossed
    <2>2. Cardinality(Tracked(s) \cup missed) \in Nat
      BY <2>1, FS_CardinalityType
    <2> QED
      BY <1>1, <2>2, EngineConstants
  <1>6. /\ Storable(journal)
        /\ journal.active = None
        /\ ListedIds(journal.terminal)
             \subseteq ListedIds(s.terminal) \cup MissedIds(d, missed)
    BY <1>1, <1>4, <1>5, StorableMissed
  <1> HIDE DEF journal
  <1>7. newest # None
    BY <1>2, <1>3, EngineConstants
  <1>8. CASE ~rings
    BY <1>1, <1>4, <1>6, <1>8 DEF r
  <1>9. CASE rings
    <2>1. occ \in OccurrenceIds /\ occ.alarm = newest
          /\ occ.scheduled = d[newest].scheduled
      BY <1>2, <1>3 DEF MakeOccurrenceId, OccurrenceId, OccurrenceIds,
                        AlarmDefinitions
    <2>2. occ \notin TerminalIds(s)
      BY <1>2, <1>3
    <2>3. occ \notin MissedIds(d, missed)
      <3>1. \A x \in missed : MakeOccurrenceId(x, d[x]).alarm = x
        BY DEF MakeOccurrenceId, OccurrenceId
      <3> HIDE DEF occ
      <3> QED
        BY <1>4, <1>9, <2>1, <3>1 DEF MissedIds
    <2> HIDE DEF occ
    <2>4. /\ a \in ActiveOccurrences
          /\ a.occurrence_id = occ /\ a.snooze_count = 0
          /\ a.snooze_deadline = None /\ a.alarm_id = newest
          /\ a.last_recovery_boot = None
      BY <1>2, <1>3, <2>1 DEF FreshActive, ActiveOccurrences
    <2> HIDE DEF a
    <2>5. TerminalIds(s) = ListedIds(s.terminal)
      BY ListedIdsFacts DEF Storable
    <2>6. occ \notin ListedIds(journal.terminal)
      BY <1>6, <2>2, <2>3, <2>5
    <2>7. CanTrackTerminal(journal, newest)
      BY <1>1, <1>9 DEF CanBeginRecoveredRing
    <2>8. MayRun(a, journal.terminal, Tracked(journal))
      BY <2>4, <2>6, <2>7, EngineConstants DEF MayRun, CanTrackTerminal
    <2>9. Storable(WithActive(journal, a))
      BY <1>6, <2>4, <2>8, StorableActive
    <2>10. WithActive(journal, a).active = a /\ a # None
      BY <2>4, NoneIsNoOccurrence DEF WithActive, State
    <2>11. r.state = WithActive(journal, a) /\ r.ringing = newest
      BY <1>1, <1>9
    <2> QED
      BY <1>1, <1>3, <1>4, <1>7, <2>4, <2>9, <2>10, <2>11
         DEF r, occ, crossed
  <1> QED
    BY <1>8, <1>9

-----------------------------------------------------------------------------
(* The start of a result is shown exactly if the state it leaves rings.    *)
RingsOn(s, r) ==
  /\ r.start \in BOOLEAN
  /\ IF r.start
     THEN /\ r.state.active # None
          /\ r.state.active.snooze_deadline = None
          /\ r.state.active.occurrence_id = s.active.occurrence_id
     ELSE r.state.active = None \/ r.state.active.snooze_deadline # None

LEMMA AdvanceRings ==
  ASSUME NEW s, StateOK(s), NEW m \in Int, AdvanceActive(s, m).persist
  PROVE  LET r == AdvanceActive(s, m) IN
         /\ RingsOn(s, r)
         /\ r.start \/ r.stop
         /\ r.start => ~AdvanceActive(r.state, m).persist
         /\ r.state.active # None =>
              r.state.active.last_recovery_boot = s.active.last_recovery_boot
  <1> DEFINE r == AdvanceActive(s, m)
             a == [s.active EXCEPT !.snooze_deadline = None]
  <1>1. s.active # None
    BY DEF AdvanceActive, NoChange
  <1>2. s.active \in ActiveOccurrences
    BY <1>1 DEF StateOK
  <1>3. /\ a # None
        /\ a.snooze_deadline = None
        /\ a.occurrence_id = s.active.occurrence_id
        /\ a.first_ring_mono = s.active.first_ring_mono
        /\ a.last_recovery_boot = s.active.last_recovery_boot
    <2>1. a \in ActiveOccurrences
      BY <1>2 DEF ActiveOccurrences
    <2>2. a # None
      BY <2>1, NoneIsNoOccurrence
    <2> QED
      BY <1>2, <2>2 DEF ActiveOccurrences
  <1>4. \/ r = Result(EndActive(s, "timed_out"), "timed_out", FALSE, TRUE)
        \/ /\ r = Result(WithActive(s, a), "ringing", TRUE, FALSE)
           /\ ElapsedOk(m, s.active.first_ring_mono)
           /\ ~(m - s.active.first_ring_mono >= Lifetime)
    BY DEF AdvanceActive, NoChange
  <1>5. CASE r = Result(EndActive(s, "timed_out"), "timed_out", FALSE, TRUE)
    <2>1. /\ r.state.active = None /\ r.start = FALSE /\ r.stop = TRUE
      BY <1>5 DEF Result, EndActive, WithActive, State
    <2> QED
      BY <2>1 DEF RingsOn
  <1>6. CASE /\ r = Result(WithActive(s, a), "ringing", TRUE, FALSE)
             /\ ElapsedOk(m, s.active.first_ring_mono)
             /\ ~(m - s.active.first_ring_mono >= Lifetime)
    <2>1. r.state = WithActive(s, a) /\ r.start = TRUE
      BY <1>6 DEF Result
    <2> HIDE DEF a
    <2>2. r.state.active = a
      BY <2>1 DEF WithActive, State
    <2> HIDE DEF r
    <2>3. ~AdvanceActive(r.state, m).persist
      BY <1>3, <1>6, <2>2 DEF AdvanceActive, NoChange
    <2> QED
      BY <1>3, <2>1, <2>2, <2>3 DEF RingsOn, r
  <1> QED
    BY <1>4, <1>5, <1>6

LEMMA RecoveryRings ==
  ASSUME NEW s, StateOK(s), NEW w \in Int, NEW m \in Int,
         NEW b \in Nat, RecoverAfterReboot(s, w, b).persist
  PROVE  LET r == RecoverAfterReboot(s, w, b)
             t == [r EXCEPT !.state = Reanchored(r.state, w, m)]
         IN  /\ RingsOn(s, t)
             /\ t.start => ~AdvanceActive(t.state, m).persist
             /\ t.state.active # None => t.state.active.last_recovery_boot = b
  <1> DEFINE r == RecoverAfterReboot(s, w, b)
             t == [r EXCEPT !.state = Reanchored(r.state, w, m)]
             z == Resumed(s.active, b)
             a == [z EXCEPT !.first_ring_mono = m - (w - z.first_ring_utc)]
  <1>1. s.active # None
    BY DEF RecoverAfterReboot, NoChange
  <1>2. s.active \in ActiveOccurrences
    BY <1>1 DEF StateOK
  <1>3. \/ r = Result(EndActive(s, "prolonged_power_off"), "missed",
                      FALSE, FALSE)
        \/ /\ r = Result(WithActive(s, z), "ringing", TRUE, FALSE)
           /\ ElapsedOk(w, s.active.first_ring_utc)
           /\ ~(w - s.active.first_ring_utc >= Lifetime)
    BY DEF RecoverAfterReboot, NoChange
  <1>4. CASE r = Result(EndActive(s, "prolonged_power_off"), "missed",
                        FALSE, FALSE)
    <2>1. r.state.active = None
      BY <1>4 DEF Result, EndActive, WithActive, State
    <2>2. Reanchored(r.state, w, m) = r.state
      BY <2>1 DEF Reanchored
    <2>3. t.state = r.state /\ t.start = FALSE
      BY <1>4, <2>2 DEF Result
    <2> HIDE DEF t, r
    <2> QED
      BY <2>1, <2>3 DEF RingsOn, t, r
  <1>5. CASE /\ r = Result(WithActive(s, z), "ringing", TRUE, FALSE)
             /\ ElapsedOk(w, s.active.first_ring_utc)
             /\ ~(w - s.active.first_ring_utc >= Lifetime)
    <2>1. r.state = WithActive(s, z)
      BY <1>5 DEF Result
    <2>2. /\ z.snooze_deadline = None
          /\ z.occurrence_id = s.active.occurrence_id
          /\ z.first_ring_utc = s.active.first_ring_utc
          /\ z.last_recovery_boot = b
          /\ z \in ActiveOccurrences
      BY <1>2 DEF Resumed, ActiveOccurrences
    <2> HIDE DEF z
    <2>3. /\ a.snooze_deadline = None
          /\ a.occurrence_id = s.active.occurrence_id
          /\ a.first_ring_mono = m - (w - s.active.first_ring_utc)
          /\ a.last_recovery_boot = b
          /\ a \in ActiveOccurrences
      <3>1. PICK u \in Int : u = s.active.first_ring_utc
        BY <1>2 DEF ActiveOccurrences
      <3>2. m - (w - u) \in Int
        OBVIOUS
      <3> QED
        BY <2>2, <3>1, <3>2 DEF ActiveOccurrences
    <2>4. z # None /\ a # None
      BY <2>2, <2>3, NoneIsNoOccurrence
    <2>5. Reanchored(r.state, w, m) = WithActive(s, a)
      BY <2>1, <2>4 DEF Reanchored, WithActive, State
    <2>6. t.state = WithActive(s, a) /\ t.start = TRUE
      BY <1>5, <2>5 DEF Result
    <2> HIDE DEF a, t, r
    <2>7. t.state.active = a
      BY <2>6 DEF WithActive, State
    <2>8. ~AdvanceActive(t.state, m).persist
      <3>1. s.active.first_ring_utc \in Int
        BY <1>2 DEF ActiveOccurrences
      <3>2. PICK u \in Int : u = s.active.first_ring_utc
        BY <3>1
      <3>3. /\ ElapsedOk(m, a.first_ring_mono)
            /\ ~(m - a.first_ring_mono >= Lifetime)
        BY <1>5, <2>3, <3>2, EngineConstants DEF ElapsedOk
      <3> QED
        BY <2>3, <2>7, <3>3 DEF AdvanceActive, NoChange
    <2> QED
      BY <2>3, <2>4, <2>6, <2>7, <2>8 DEF RingsOn, t, r
  <1> QED
    BY <1>3, <1>4, <1>5

(* A recovery that changes nothing finds no occurrence, or one that was    *)
(* recovered in this boot, or cannot tell how long the power was off.      *)
LEMMA NothingRecovered ==
  ASSUME NEW s, NEW w, NEW b, ~RecoverAfterReboot(s, w, b).persist,
         RecoverAfterReboot(s, w, b).status # "invalid_time"
  PROVE  s.active = None \/ s.active.last_recovery_boot = b
  BY DEF RecoverAfterReboot, NoChange, Result

LEMMA SnoozeRings ==
  ASSUME NEW s, StateOK(s), s.active # None, NEW m \in Int, NEW duration \in Int,
         RequestSnooze(s, s.active.occurrence_id, m, duration).persist
  PROVE  LET r == RequestSnooze(s, s.active.occurrence_id, m, duration) IN
         /\ RingsOn(s, r)
         /\ r.start = FALSE /\ r.stop = TRUE
         /\ r.state.active # None =>
              r.state.active.last_recovery_boot = s.active.last_recovery_boot
  <1> DEFINE r == RequestSnooze(s, s.active.occurrence_id, m, duration)
             a == [s.active EXCEPT !.snooze_count = @ + 1,
                                   !.snooze_deadline = m + duration]
  <1>1. s.active \in ActiveOccurrences
    BY DEF StateOK
  <1>2. r = Result(WithActive(s, a), "snoozed", FALSE, TRUE)
    BY DEF RequestSnooze, NoChange
  <1>3. /\ a.snooze_deadline = m + duration
        /\ a.last_recovery_boot = s.active.last_recovery_boot
    BY <1>1 DEF ActiveOccurrences
  <1>4. m + duration # None
    <2>1. m + duration \in Int
      OBVIOUS
    <2> QED
      BY <2>1, EngineConstants
  <1>5. r.state = WithActive(s, a) /\ r.start = FALSE /\ r.stop = TRUE
    BY <1>2 DEF Result
  <1> HIDE DEF a
  <1>6. r.state.active = a
    BY <1>5 DEF WithActive, State
  <1> HIDE DEF r
  <1> QED
    BY <1>3, <1>4, <1>5, <1>6 DEF RingsOn, r

LEMMA DismissRings ==
  ASSUME NEW s, s.active # None, NEW disabled \in BOOLEAN
  PROVE  LET r == DismissActive(s, s.active.occurrence_id, disabled) IN
         /\ RingsOn(s, r)
         /\ r.start = FALSE /\ r.stop = TRUE
         /\ r.state.active = None
  <1> DEFINE r == DismissActive(s, s.active.occurrence_id, disabled)
  <1>1. PICK reason \in Reasons :
          r = Result(EndActive(s, reason), "dismissed", FALSE, TRUE)
    BY DEF DismissActive, Reasons
  <1>2. r.state.active = None /\ r.start = FALSE /\ r.stop = TRUE
    BY <1>1 DEF Result, EndActive, WithActive, State
  <1> HIDE DEF r
  <1> QED
    BY <1>2 DEF RingsOn, r
=============================================================================
