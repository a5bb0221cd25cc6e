--------------------------- MODULE DashboardSetup ---------------------------
(***************************************************************************)
(* scripts/make_influx_dashboard.py: a run lists the dashboards, deletes    *)
(* those of its own name, creates a new one and adds its cells one by one.  *)
(*                                                                          *)
(* Between any two requests another run may do the same.  A request whose   *)
(* status the script checks may end the run; the status of a DELETE is not  *)
(* looked at.  The list holds at most LIMIT dashboards.                     *)
(***************************************************************************)
EXTENDS Naturals, FiniteSets

CONSTANTS
    Turns,          \* runs of the script
    Others,         \* dashboards of other names that are there
    LIMIT           \* dashboards in one answer

CELLS == 11     \* cells of a dashboard

VARIABLES
    boards,     \* the dashboards: owner's name and number of cells, complete or not
    pc,         \* per run, its next step
    found,      \* per run, the dashboards of its own name it has listed
    troubled    \* (history) a DELETE failed, runs overlapped, the list was cut

vars == <<boards, pc, found, troubled>>

\* A dashboard is told by who made it: an earlier run or somebody else.
Own == {b \in boards : b.by \in Turns}

Init ==
    /\ boards = {[by |-> o, cells |-> 1] : o \in Others}
    /\ pc = [r \in Turns |-> "idle"] /\ found = [r \in Turns |-> {}] /\ troubled = FALSE

Goes(r, step) == pc' = [pc EXCEPT ![r] = step]

\* A request the script checks raises, or the script is interrupted.
Dies(r) ==
    /\ pc[r] \in {"delete", "create", "add"} /\ Goes(r, "died")
    /\ UNCHANGED <<boards, found, troubled>>

-----------------------------------------------------------------------------
(* The steps of a run *)

\* (slip) The name is looked for among the descriptions: nothing is found.
ListNothing(r) ==
    /\ pc[r] = "idle" /\ Goes(r, "delete")
    /\ UNCHANGED <<boards, found, troubled>>

List(r) ==
    /\ pc[r] = "idle" /\ Goes(r, "delete")
    /\ \E listed \in SUBSET boards :
          /\ Cardinality(listed) <= LIMIT
          /\ listed # boards => Cardinality(listed) = LIMIT
          /\ found' = [found EXCEPT ![r] = {b.by : b \in listed} \cap Turns]
          /\ troubled' = (\/ troubled \/ listed # boards
                          \/ \E q \in Turns \ {r} : pc[q] \in {"delete", "create", "add"})
    /\ UNCHANGED boards

\* DELETE: whether it worked is not looked at.
Delete(r, d) ==
    /\ pc[r] = "delete" /\ d \in found[r]
    /\ \/ boards' = {b \in boards : b.by # d} /\ UNCHANGED troubled
       \/ troubled' = TRUE /\ UNCHANGED boards
    /\ found' = [found EXCEPT ![r] = @ \ {d}]
    /\ UNCHANGED pc

Listed(r) == /\ pc[r] = "delete" /\ found[r] = {} /\ Goes(r, "create")
             /\ UNCHANGED <<boards, found, troubled>>

Create(r) ==
    /\ pc[r] = "create" /\ Goes(r, "add")
    /\ boards' = boards \cup {[by |-> r, cells |-> 0]}
    /\ UNCHANGED <<found, troubled>>

\* POST of the cell, PATCH of its view.  The dashboard may be gone: 404.
AddCell(r) ==
    /\ pc[r] = "add"
    /\ \E b \in boards :
          /\ b.by = r
          /\ boards' = (boards \ {b}) \cup {[b EXCEPT !.cells = @ + 1]}
          /\ IF b.cells + 1 = CELLS THEN Goes(r, "done") ELSE UNCHANGED pc
    /\ UNCHANGED <<found, troubled>>

-----------------------------------------------------------------------------
Next ==
    \E r \in Turns :
        \/ List(r)
        \/ \E d \in Turns \cup Others : Delete(r, d)
        \/ Listed(r)
        \/ Create(r)
        \/ AddCell(r)
        \/ Dies(r)

Spec == Init /\ [][Next]_vars

-----------------------------------------------------------------------------
(* Properties *)

\* The runs and the dashboards keep their types.
TypeOK ==
    /\ \A b \in boards : b.by \in Turns \cup Others /\ b.cells \in 0..CELLS
    /\ pc \in [Turns -> {"idle", "delete", "create", "add", "done", "died"}]
    /\ \A r \in Turns : found[r] \subseteq Turns
    /\ troubled \in BOOLEAN

\* Turns after each other whose DELETEs work never leave a second dashboard,
\* whatever runs that died have left behind; and no run, however troubled,
\* removes or changes a dashboard of another name.
OneAfterAnother ==
    /\ ~troubled => Cardinality(Own) <= 1
    /\ \A o \in Others : [by |-> o, cells |-> 1] \in boards
=============================================================================
