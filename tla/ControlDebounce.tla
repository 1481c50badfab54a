--------------------------- MODULE ControlDebounce ---------------------------
(***************************************************************************)
(* One push control: a finger, contacts that bounce for a while after it   *)
(* moves, polls at uneven distances with a clock that may be set back, and *)
(* the policy that turns samples into press events.                        *)
(***************************************************************************)
EXTENDS Integers

CONSTANTS
  None,
  Stable,      \* kDebounceStableMilliseconds, in ticks
  Bounce,      \* longest bounce of the contacts, in ticks
  Gap,         \* longest distance between two polls, in ticks
  Budget,      \* share of kValidPressResponseBudgetMilliseconds, in ticks
  Wrap,        \* number of values of an unsigned time difference
  MaxPresses,  \* bound: times the finger goes down
  MaxTime,     \* bound: ticks of one behaviour
  MaxSkew      \* bound: how far the clock is set back in all

ASSUME DebounceConstants ==
  /\ Stable \in Nat \ {0} /\ Bounce \in Nat /\ Gap \in Nat \ {0}
  /\ Budget \in Nat /\ Wrap \in Nat \ {0}
  /\ MaxPresses \in Nat /\ MaxTime \in Nat /\ MaxSkew \in Nat
  /\ None \notin BOOLEAN

VARIABLES
  line,      \* ControlDebounce: stable level, candidate and when it started
  now,       \* true time
  skew,      \* how far the clock is behind true time
  polled,    \* true time of the last poll
  finger,    \* whether the control is held
  moved,     \* true time the finger last moved
  armed,     \* history: the release was confirmed when the finger went down
  presses,   \* history: times the finger went down since boot
  events,    \* history: press events since boot
  answered   \* history: a press event since the finger went down

debounceVars == <<line, now, skew, polled, finger, moved, armed, presses,
                  events, answered>>

Levels == {None} \cup BOOLEAN

(* A control may be held at boot, which is no press. *)
DebounceInit ==
  /\ line = [stable |-> None, candidate |-> None, started |-> 0]
  /\ now = 0 /\ skew = 0 /\ polled = 0
  /\ finger \in BOOLEAN /\ moved = 0
  /\ armed = FALSE /\ presses = 0 /\ events = 0 /\ answered = FALSE

(* Mutant: an elapsed time is computed across a clock that went back. *)
RestartsOnLevel(pressed, clock) == line.candidate # pressed

(* Another level or a clock that went back starts the interval anew. *)
Restarts(pressed, clock) ==
  line.candidate # pressed \/ clock < line.started

(* Mutant: the level must hold for two windows. *)
HeldTwice(clock) == (clock - line.started) % Wrap >= 2 * Stable

(* The elapsed time is a difference of unsigned values. *)
HeldStable(clock) == (clock - line.started) % Wrap >= Stable

(* Mutant: a control held at boot acts. *)
ActsAtOnce(pressed) == pressed

(* Only a press after a confirmed level is an event. *)
Acts(pressed) == line.stable # None /\ pressed

(* sample(pressed, clock), and whether it returns a press event *)
SampleLine(pressed, clock) ==
  IF line.stable = pressed
  THEN /\ line' = [line EXCEPT !.candidate = None]
       /\ UNCHANGED <<events, answered>>
  ELSE IF Restarts(pressed, clock)
  THEN /\ line' = [line EXCEPT !.candidate = pressed, !.started = clock]
       /\ UNCHANGED <<events, answered>>
  ELSE IF ~HeldStable(clock) THEN UNCHANGED <<line, events, answered>>
  ELSE /\ line' = [line EXCEPT !.stable = pressed, !.candidate = None]
       /\ events' = IF Acts(pressed) THEN events + 1 ELSE events
       /\ answered' = (answered \/ Acts(pressed))

(* The contacts: any level while they bounce, the finger's after that. *)
Contacts == IF now - moved < Bounce THEN BOOLEAN ELSE {finger}

Poll ==
  /\ \E pressed \in Contacts : SampleLine(pressed, now - skew)
  /\ polled' = now
  /\ UNCHANGED <<now, skew, finger, moved, armed, presses>>

Tick ==
  /\ now < MaxTime /\ now - polled < Gap
  /\ now' = now + 1
  /\ UNCHANGED <<line, skew, polled, finger, moved, armed, presses, events,
                 answered>>

SetClockBack ==
  /\ skew < MaxSkew /\ skew' = skew + 1
  /\ UNCHANGED <<line, now, polled, finger, moved, armed, presses, events,
                 answered>>

Move ==
  /\ finger \/ presses < MaxPresses
  /\ finger' = ~finger /\ moved' = now
  /\ IF finger THEN UNCHANGED <<armed, presses, answered>>
     ELSE /\ presses' = presses + 1 /\ answered' = FALSE
          /\ armed' = (line.stable = FALSE /\ line.candidate = None)
  /\ UNCHANGED <<line, now, skew, polled, events>>

DebounceNext == Poll \/ Tick \/ SetClockBack \/ Move

DebounceSpec == DebounceInit /\ [][DebounceNext]_debounceVars

-----------------------------------------------------------------------------
DebounceTypeOK ==
  /\ line \in [stable : Levels, candidate : Levels,
               started : -MaxSkew .. MaxTime]
  /\ now \in 0 .. MaxTime /\ skew \in 0 .. MaxSkew
  /\ polled \in 0 .. now /\ moved \in 0 .. now
  /\ finger \in BOOLEAN /\ armed \in BOOLEAN /\ answered \in BOOLEAN
  /\ presses \in 0 .. MaxPresses /\ events \in 0 .. MaxPresses

(* Every press event belongs to a press of its own: bounce on either edge, *)
(* a held control, a control held through boot and a clock that goes back  *)
(* add none.                                                               *)
OneEventPerPress ==
  [][events' # events => presses > 0 /\ ~answered]_debounceVars

(* A control held after a confirmed release acts within the budget, unless *)
(* the clock went back.                                                    *)
AnsweredInTime ==
  finger /\ armed /\ ~answered /\ skew = 0 => now - moved <= Budget
=============================================================================
