---------------------------- MODULE AtomicPatch -----------------------------
(***************************************************************************)
(* What an in-place patch promises its caller: the file holds the original *)
(* or the finished content and nothing else, changes from one to the other *)
(* once and at once, and a reply is true of the content when it is given.  *)
(* (docs/library.md, ReindexInPlace.)                                      *)
(***************************************************************************)
VARIABLES content, \* "original" or "finished"
          reply    \* of the last call: "none" while it runs or when it was lost

vars == <<content, reply>>

Init == content = "original" /\ reply = "none"

\* A call starts, or dies before it replies.
Lose     == reply' = "none" /\ UNCHANGED content
Commit   == content = "original" /\ content' = "finished" /\ UNCHANGED reply
Succeed  == content = "finished" /\ reply' = "done" /\ UNCHANGED content
Undo     == content = "original" /\ reply' = "restored" /\ UNCHANGED content
GiveUp   == reply' = "failed" /\ UNCHANGED content

Next == Lose \/ Commit \/ Succeed \/ Undo \/ GiveUp

Spec == Init /\ [][Next]_vars
=============================================================================
