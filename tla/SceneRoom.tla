----------------------------- MODULE SceneRoom -----------------------------
(***************************************************************************)
(* The room as omniverse/create_scene.py builds it, beside the room as the  *)
(* robot knows it (grid_map.py, robot_state.py) and the tiles as            *)
(* live_update.py looks for them: three programs that state the same        *)
(* geometry on their own.  Lengths are in centimetres, seen from above.     *)
(***************************************************************************)
EXTENDS Integers

-----------------------------------------------------------------------------
(* The robot's room *)

Layout == {<<2, 4>>, <<3, 4>>, <<4, 6>>, <<5, 6>>, <<7, 3>>}

G == INSTANCE GridMap WITH GRID_ROWS <- 10, GRID_COLS <- 10, Desks <- Layout

\* x_m and y_m of a cell
Pose(cell) == <<50 * cell[2], 50 * cell[1]>>

-----------------------------------------------------------------------------
(* The scene *)

CELL_SIZE == 50
TILE_COUNT == 10
ROOM_SIZE == TILE_COUNT * CELL_SIZE
ROBOT_BRUSH_RADIUS == 28

Cube(centre, size) == [centre |-> centre, size |-> size]

Walls ==
    LET half == ROOM_SIZE \div 2
    IN  {Cube(<<half, y>>, <<ROOM_SIZE, 10>>) : y \in {0, ROOM_SIZE}}
        \cup {Cube(<<x, half>>, <<10, ROOM_SIZE>>) : x \in {0, ROOM_SIZE}}

DeskCubes ==
    {Cube(<<200, 125>>, <<40, 110>>), Cube(<<300, 225>>, <<40, 110>>),
     Cube(<<150, 350>>, <<40, 40>>)}

TileNames == (0 .. TILE_COUNT - 1) \X (0 .. TILE_COUNT - 1)
Tile(name) ==
    Cube(<<CELL_SIZE * name[1] + CELL_SIZE \div 2, CELL_SIZE * name[2] + CELL_SIZE \div 2>>,
         <<45, 45>>)

CleaningRobot == <<50, 50>>

\* The tile _apply_pose lights for a position.
TileAt(p) == <<p[1] \div CELL_SIZE, p[2] \div CELL_SIZE>>

-----------------------------------------------------------------------------
(* What fits *)

Magnitude(d) == IF d < 0 THEN -d ELSE d

\* A point is less than this far from a cube, along both axes.
Within(p, cube, margin) ==
    \A axis \in {1, 2} :
        2 * Magnitude(p[axis] - cube.centre[axis]) < cube.size[axis] + 2 * margin

\* The robot's centre is drawn inside a desk exactly where a cell is blocked.
DesksStandWhereTheyBlock ==
    \A cell \in G!Inside :
        G!IsAccessible(cell[1], cell[2])
            <=> ~\E desk \in DeskCubes : Within(Pose(cell), desk, 0)

\* Nowhere inside does the brush reach into a wall.
WallsAreClear ==
    \A cell \in G!Inside, wall \in Walls : ~Within(Pose(cell), wall, ROBOT_BRUSH_RADIUS)

\* Each cell has a tile of its own that touches the robot's footprint there,
\* though its centre is a quarter of a metre away along both axes.
TilesAreUnderTheRobot ==
    /\ \A cell \in G!Inside :
          /\ TileAt(Pose(cell)) = <<cell[2], cell[1]>> /\ TileAt(Pose(cell)) \in TileNames
          /\ Within(Pose(cell), Tile(TileAt(Pose(cell))), ROBOT_BRUSH_RADIUS)
    /\ CleaningRobot = Pose(G!HOME)
=============================================================================
