------------------------------ MODULE HoldPad ------------------------------
(***************************************************************************)
(* Pressing and holding a button of the steering pad (the operator's page,  *)
(* services/web-control/static/app.js): one move at once, and after a delay *)
(* one more at every tick of an interval, until the pointer leaves.  The    *)
(* page has one variable for the delay and one for the interval, whatever   *)
(* the number of pointers: a phone has as many as fingers.                  *)
(*                                                                          *)
(* A timer is the browser's and lives until it is cleared by its id; a      *)
(* delay ends when it fires.  The browser is taken to deliver every event   *)
(* of a pointer, to a disabled button, too (the handler looks whether it is *)
(* one).  What a move does is OperatorConsole's matter.                     *)
(***************************************************************************)
EXTENDS Naturals, FiniteSets

CONSTANTS
    Pointers,       \* the mouse, or the fingers on the screen
    Buttons,        \* the directions of the pad
    KeyButtons,     \* those of them that have an arrow key
    Timers          \* bound: the ids of timers

VARIABLES
    manualOn,       \* is the pad armed: the buttons are enabled when it is
    down,           \* the button each pointer is held down on: at most one
    delays,         \* the running timeouts of the browser
    intervals,      \* and its running intervals
    holdTimer,      \* the id the page remembers of each: at most one
    repeatTimer,
    sent            \* the move sent last, and whether a timer sent it

timers == <<delays, intervals, holdTimer, repeatTimer>>
vars == <<manualOn, down, timers, sent>>

Init ==
    /\ manualOn = FALSE /\ down = [p \in Pointers |-> {}]
    /\ delays = {} /\ intervals = {} /\ holdTimer = {} /\ repeatTimer = {}
    /\ sent = {}

\* An id the browser has not given to a timer the page may still speak of.
Fresh == {id \in Timers : /\ id \notin holdTimer \cup repeatTimer
                          /\ \A t \in delays \cup intervals : t.id # id}

Move(b, who) == sent' = {[button |-> b, by |-> who]}

StopHold ==
    /\ delays' = {t \in delays : t.id \notin holdTimer}
    /\ intervals' = {t \in intervals : t.id \notin repeatTimer}
    /\ holdTimer' = {} /\ repeatTimer' = {}

\* pointerdown: what holdTimer was is overwritten, not cleared.
Press(p, b) ==
    /\ down[p] = {}
    /\ down' = [down EXCEPT ![p] = {b}]
    /\ IF manualOn
       THEN /\ Move(b, "pointer")
            /\ \E id \in Fresh : /\ delays' = delays \cup {[id |-> id, button |-> b]}
                                 /\ holdTimer' = {id}
            /\ UNCHANGED <<intervals, repeatTimer>>
       ELSE UNCHANGED <<sent, timers>>
    /\ UNCHANGED manualOn

\* pointerup, pointerleave or pointercancel; a mouse also leaves a button it was
\* never pressed on.
Release(p) ==
    /\ down' = [down EXCEPT ![p] = {}]
    /\ StopHold
    /\ UNCHANGED <<manualOn, sent>>

\* The window loses the focus.
Blur == StopHold /\ UNCHANGED <<manualOn, down, sent>>

\* The id in holdTimer stays, that of the interval joins it.
DelayFires(t) ==
    /\ delays' = delays \ {t}
    /\ \E id \in Fresh : /\ intervals' = intervals \cup {[t EXCEPT !.id = id]}
                         /\ repeatTimer' = {id}
    /\ UNCHANGED <<manualOn, down, holdTimer, sent>>

\* On a disabled button the interval stops what the page remembers, which need
\* not be itself.
IntervalFires(t) ==
    /\ IF manualOn THEN Move(t.button, "timer") /\ UNCHANGED timers
                   ELSE StopHold /\ UNCHANGED sent
    /\ UNCHANGED <<manualOn, down>>

\* A poll or the answer to a mode command arms or disarms the pad.
SetManual == manualOn' = ~manualOn /\ UNCHANGED <<down, timers, sent>>

\* Keys steer without timers of the page.
KeyDown(b) == manualOn /\ Move(b, "key") /\ UNCHANGED <<manualOn, down, timers>>

Next ==
    \/ \E p \in Pointers, b \in Buttons : Press(p, b)
    \/ \E p \in Pointers : Release(p)
    \/ Blur
    \/ \E t \in delays : DelayFires(t)
    \/ \E t \in intervals : IntervalFires(t)
    \/ SetManual
    \/ \E b \in KeyButtons : KeyDown(b)

Spec == Init /\ [][Next]_vars

-----------------------------------------------------------------------------
(* Properties *)

\* "One step immediately, then repeats while the button stays held": no move is
\* sent by a timer for a button that no pointer is held down on any more.
RepeatsWhileHeld ==
    [][\A b \in Buttons :
          sent' # sent /\ sent' = {[button |-> b, by |-> "timer"]}
              => \E p \in Pointers : down[p] = {b}]_vars
=============================================================================
