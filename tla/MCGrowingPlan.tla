--------------------------- MODULE MCGrowingPlan ---------------------------
(* Small files for GrowingPlan, a cut every 4 and the grid's step 2.       *)
EXTENDS GrowingPlan

K(ms) == [t |-> "v", ms |-> ms, key |-> TRUE]
V(ms) == [t |-> "v", ms |-> ms, key |-> FALSE]
A(ms) == [t |-> "a", ms |-> ms, key |-> TRUE]
Both  == {"v", "a"}
File(clusters, tracks, grid, ending) ==
  [blocks |-> FlattenSeq(clusters), ends |-> [c \in DOMAIN clusters |-> Len(FlattenSeq(SubSeq(clusters, 1, c)))],
   tracks |-> tracks, grid |-> grid, ending |-> ending]

\* Audio beside its video, part of the next window's ahead of it.
Steady(grid, ending) ==
  File(<<<<K(0), A(0), V(2), A(2)>>, <<K(4), A(4), A(6), A(8)>>, <<K(8), A(10)>>, <<K(12), V(14), A(14)>>>>,
       Both, grid, ending)
\* A lace runs ahead of the grid over a cut, and the window after leaves the grid in its last cluster only.
Laced(ending) ==
  File(<<<<K(0), A(0), A(2), A(2), A(2)>>, <<K(4), A(4)>>, <<V(6), A(4), A(6)>>, <<K(8), A(8), V(10), A(10)>>>>,
       Both, TRUE, ending)
\* The audio of a window stored a whole window late.
Late(grid) ==
  File(<<<<K(0), A(0)>>, <<K(4)>>, <<A(2), A(4)>>, <<K(8)>>, <<V(10), A(10)>>>>, Both, grid, "cues")
\* Two cuts in one cluster, a keyframe too early to cut on, an audio that ends early.
Dense ==
  File(<<<<K(0), A(0), K(2), K(5), A(2)>>, <<K(6), V(8), K(9), V(11)>>>>, Both, FALSE, "open")
\* A last window of one frame.
Lonely ==
  File(<<<<K(0), V(2)>>, <<K(4)>>>>, {"v"}, FALSE, "declared")

MCFiles == {Steady(TRUE, "cues"), Steady(FALSE, "open"), Laced("declared"), Late(TRUE), Late(FALSE), Dense, Lonely}
=============================================================================
