--------------------------- MODULE MCKeptWindows ---------------------------
(* Two Matroska plans and one over a remote MP4, with room for one window  *)
(* and a bit: every reserve but the first has to take something back.      *)
EXTENDS KeptWindows, TLC

CONSTANTS m1, m2, s, v, a, r1, r2, r3, r4

MCSize == v :> 2 @@ a :> 1
\* The first window weighs more than its estimate, the second less.
MCSpan == 1 :> 2 @@ 2 :> 4
Ask(p, n, t) == [p |-> p, n |-> n, t |-> t]
MCAsks == 
    { \* Two viewers of a window race for it, and two of a shared one.
      r1 :> Ask(m1, 1, v) @@ r2 :> Ask(m1, 1, a) @@ r3 :> Ask(s, 1, v) @@ r4 :> Ask(s, 1, a),
      \* Two windows of a plan, and all the plans reclaiming from each other.
      r1 :> Ask(m1, 1, v) @@ r2 :> Ask(m1, 2, a) @@ r3 :> Ask(s, 1, v) @@ r4 :> Ask(m2, 1, a),
      \* A shared window is read again.
      r1 :> Ask(m1, 1, a) @@ r2 :> Ask(s, 1, a) @@ r3 :> Ask(s, 1, v) @@ r4 :> Ask(s, 1, v) }
=============================================================================
