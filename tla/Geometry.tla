------------------------------ MODULE Geometry ------------------------------
(***************************************************************************)
(* The screen arithmetic of server.rs (check_edge, center_cursor) and of   *)
(* client.rs (check_exit_edge): pure operators, shared by both machines.   *)
(* x grows to the right and y downwards, in pixels, from 0.                *)
(***************************************************************************)
EXTENDS Integers

Positions == {"Left", "Right", "Top", "Bottom"}

\* i32::clamp(lo, hi)
Clamp(v, lo, hi) == IF v < lo THEN lo ELSE IF v > hi THEN hi ELSE v

\* The centre of an extent, where center_cursor puts the server's cursor.
Centre(extent) == extent \div 2

\* The server's cursor touches the edge where a client of position pos sits.
AtEdge(pos, x, y, w, h, threshold) ==
  \/ pos = "Left"   /\ x <= threshold
  \/ pos = "Right"  /\ x >= w - threshold - 1
  \/ pos = "Top"    /\ y <= threshold
  \/ pos = "Bottom" /\ y >= h - threshold - 1

\* Where the cursor appears on a client screen of cw x ch, offset pixels away
\* from the side it came from, at the same height or width in proportion.
EntryX(pos, x, w, cw, offset) ==
  CASE pos = "Left"  -> cw - offset
    [] pos = "Right" -> offset
    [] OTHER         -> (x * cw) \div w

EntryY(pos, y, h, ch, offset) ==
  CASE pos = "Top"    -> ch - offset
    [] pos = "Bottom" -> offset
    [] OTHER          -> (y * ch) \div h

\* The client's cursor touches the side that faces the server's screen.
AtExitEdge(pos, x, y, w, h) ==
  \/ pos = "Left"   /\ x >= w - 1
  \/ pos = "Right"  /\ x <= 0
  \/ pos = "Top"    /\ y >= h - 1
  \/ pos = "Bottom" /\ y <= 0

\* A motion against that side, and one away from it.
PushingExit(pos, dx, dy) ==
  \/ pos = "Left"   /\ dx > 0
  \/ pos = "Right"  /\ dx < 0
  \/ pos = "Top"    /\ dy > 0
  \/ pos = "Bottom" /\ dy < 0

MovingAway(pos, dx, dy) == PushingExit(pos, -dx, -dy)
=============================================================================
