--------------------------- MODULE HoldPadProofs ---------------------------
(***************************************************************************)
(* With a single pointer, a mouse or one finger, the pad does what the      *)
(* comment above its handlers says, for any number of buttons and timers.   *)
(* The run with two pointers shows that the assumption is needed.           *)
(***************************************************************************)
EXTENDS HoldPad, TLAPS

OnePointer == \A p, q \in Pointers : p = q

Held(t) == \E p \in Pointers : down[p] = {t.button}

Kept == [id : Timers, button : Buttons]

\* The page remembers every timer that runs, at most one does, and it belongs to
\* the button that is held down.
HoldInv ==
    /\ down \in [Pointers -> SUBSET Buttons]
    /\ delays \subseteq Kept /\ intervals \subseteq Kept
    /\ \A t \in delays : Held(t) /\ t.id \in holdTimer /\ intervals = {}
    /\ \A t, u \in delays : t = u
    /\ \A t \in intervals : Held(t) /\ t.id \in repeatTimer

\* Lifting the pointer, or leaving the window, leaves no timer running.
LEMMA StopHoldStopsAll == HoldInv /\ StopHold => delays' = {} /\ intervals' = {}
BY DEF HoldInv, StopHold

LEMMA HoldStep == OnePointer /\ HoldInv /\ [Next]_vars => HoldInv'
<1> SUFFICES ASSUME OnePointer, HoldInv, [Next]_vars PROVE HoldInv'
    OBVIOUS
<1>1. ASSUME NEW p \in Pointers, NEW b \in Buttons, Press(p, b) PROVE HoldInv'
  <2>1. /\ down' \in [Pointers -> SUBSET Buttons] /\ down'[p] = {b}
        /\ \A t \in Kept : ~Held(t)
      BY <1>1 DEF Press, HoldInv, OnePointer, Held
  <2>2. delays = {} /\ intervals = {}
      BY <2>1 DEF HoldInv
  <2>3. CASE manualOn
    <3>1. PICK id \in Fresh : delays' = {[id |-> id, button |-> b]} /\ holdTimer' = {id}
        BY <1>1, <2>2, <2>3 DEF Press
    <3>2. intervals' = {} /\ [id |-> id, button |-> b] \in Kept
        BY <1>1, <2>2, <2>3 DEF Press, Kept, Fresh
    <3> QED
        BY <2>1, <3>1, <3>2 DEF HoldInv, Held
  <2>4. CASE ~manualOn
      BY <1>1, <2>1, <2>2, <2>4 DEF Press, timers, HoldInv
  <2> QED
      BY <2>3, <2>4
<1>2. ASSUME NEW p \in Pointers, Release(p) PROVE HoldInv'
    BY <1>2, StopHoldStopsAll DEF Release, HoldInv
<1>3. CASE Blur
    BY <1>3, StopHoldStopsAll DEF Blur, HoldInv
<1>4. ASSUME NEW t \in delays, DelayFires(t) PROVE HoldInv'
  <2>1. intervals = {} /\ delays' = {} /\ Held(t) /\ t \in Kept /\ down' = down
      BY <1>4 DEF DelayFires, HoldInv
  <2>2. PICK id \in Fresh : intervals' = {[t EXCEPT !.id = id]} /\ repeatTimer' = {id}
      BY <1>4, <2>1 DEF DelayFires
  <2>3. /\ [t EXCEPT !.id = id] \in Kept
        /\ [t EXCEPT !.id = id].id = id /\ [t EXCEPT !.id = id].button = t.button
      BY <2>1 DEF Kept, Fresh
  <2> QED
      BY <2>1, <2>2, <2>3 DEF HoldInv, Held
<1>5. ASSUME NEW t \in intervals, IntervalFires(t) PROVE HoldInv'
  <2>1. CASE manualOn
      BY <1>5, <2>1 DEF IntervalFires, timers, HoldInv, Held
  <2>2. CASE ~manualOn
      BY <1>5, <2>2, StopHoldStopsAll DEF IntervalFires, HoldInv
  <2> QED
      BY <2>1, <2>2
<1>6. CASE UNCHANGED <<down, timers>>
    BY <1>6 DEF timers, HoldInv, Held
<1> QED
    BY <1>1, <1>2, <1>3, <1>4, <1>5, <1>6 DEF Next, SetManual, KeyDown, vars

\* Only the interval of the held button sends moves by itself.
LEMMA OnlyHeldSends ==
    HoldInv /\ [Next]_vars =>
        \A b \in Buttons : sent' # sent /\ sent' = {[button |-> b, by |-> "timer"]}
            => \E p \in Pointers : down[p] = {b}
<1> SUFFICES ASSUME HoldInv, [Next]_vars, NEW b \in Buttons,
                    sent' # sent, sent' = {[button |-> b, by |-> "timer"]}
             PROVE  \E p \in Pointers : down[p] = {b}
    OBVIOUS
<1>1. \A a, who : Move(a, who) => a = b /\ who = "timer"
  <2> SUFFICES ASSUME NEW a, NEW who, Move(a, who) PROVE a = b /\ who = "timer"
      OBVIOUS
  <2>1. [button |-> a, by |-> who] = [button |-> b, by |-> "timer"]
      BY DEF Move
  <2>2. /\ [button |-> a, by |-> who].button = a /\ [button |-> a, by |-> who].by = who
        /\ [button |-> b, by |-> "timer"].button = b
        /\ [button |-> b, by |-> "timer"].by = "timer"
      OBVIOUS
  <2> QED
      BY <2>1, <2>2
<1>2. ~(\E p \in Pointers, a \in Buttons : Press(p, a)) /\ \A a : ~KeyDown(a)
  <2>1. "pointer" # "timer" /\ "key" # "timer"
      OBVIOUS
  <2> QED
      BY <1>1, <2>1 DEF Press, KeyDown
<1>3. PICK t \in intervals : IntervalFires(t)
    BY <1>2 DEF Next, Release, Blur, DelayFires, SetManual, vars
<1>4. t.button = b
    BY <1>1, <1>3 DEF IntervalFires
<1> QED
    BY <1>4 DEF HoldInv, Held

\* Held down with one pointer, a button of the pad sends moves as long as it is
\* held and not longer: the pointer's going up, its leaving and the window's
\* losing the focus each stop the timer.
THEOREM OnePointerRepeatsWhileHeld ==
    ASSUME OnePointer PROVE Spec => RepeatsWhileHeld
<1>1. Init => HoldInv
    BY DEF Init, HoldInv, Held
<1>2. OnePointer /\ HoldInv /\ [Next]_vars => HoldInv'
    BY HoldStep
<1>3. HoldInv /\ [Next]_vars =>
        [\A b \in Buttons : sent' # sent /\ sent' = {[button |-> b, by |-> "timer"]}
            => \E p \in Pointers : down[p] = {b}]_vars
    BY OnlyHeldSends
<1> QED
    BY <1>1, <1>2, <1>3, PTL DEF Spec, RepeatsWhileHeld
=============================================================================
