------------------------------ MODULE GridMap ------------------------------
(***************************************************************************)
(* The room the robot works in (services/robot-simulator/grid_map.py): a   *)
(* rectangle of cells with a perimeter wall, some desks inside it, a dock   *)
(* at HOME, and the lawnmower path the autonomous mode follows.  The size   *)
(* of the room and its desks are parameters; the room of the repository has *)
(* 10 x 10 cells and five desks.                                            *)
(***************************************************************************)
EXTENDS Integers, Sequences

CONSTANTS GRID_ROWS, GRID_COLS,   \* the shape of the layout, walls included
          Desks                   \* the cells of the inside that are blocked

\* The cells inside the perimeter wall.
Inside == (1 .. GRID_ROWS - 2) \X (1 .. GRID_COLS - 2)

HOME == <<1, 1>>

ASSUME GridAssumption ==
    /\ GRID_ROWS \in Nat /\ GRID_ROWS >= 3
    /\ GRID_COLS \in Nat /\ GRID_COLS >= 3
    /\ Desks \subseteq Inside \ {HOME}

AccessibleCells == Inside \ Desks

IsAccessible(r, c) == <<r, c>> \in AccessibleCells

-----------------------------------------------------------------------------
(* Geometry the navigation code writes out in place *)

\* math.copysign(1, d) if d != 0 else 0
Sign(d) == IF d > 0 THEN 1 ELSE IF d < 0 THEN -1 ELSE 0

\* The cell one king move from p in the direction of q.
Toward(p, q) == <<p[1] + Sign(q[1] - p[1]), p[2] + Sign(q[2] - p[2])>>

Magnitude(d) == IF d < 0 THEN -d ELSE d

Manhattan(p, q) == Magnitude(p[1] - q[1]) + Magnitude(p[2] - q[2])

-----------------------------------------------------------------------------
(* The cleaning order *)

\* Every inside cell, odd rows west to east and even rows east to west.
Boustrophedon ==
    LET width == GRID_COLS - 2
    IN  [k \in 1 .. (GRID_ROWS - 2) * width |->
            LET r == 1 + ((k - 1) \div width)
                j == 1 + ((k - 1) % width)
            IN  <<r, IF r % 2 = 1 THEN j ELSE width + 1 - j>>]

LawnmowerPath ==
    SelectSeq(Boustrophedon, LAMBDA cell : cell \in AccessibleCells)
=============================================================================
