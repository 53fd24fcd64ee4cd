---------------------------- MODULE NewsArchive ----------------------------
(*****************************************************************************)
(* What the news projection promises its readers: the archive they page      *)
(* through is at every moment empty or one complete snapshot some producer   *)
(* froze, and it changes from one to another in a single step.               *)
(*****************************************************************************)
CONSTANTS Snapshots, Items(_)

VARIABLE shown

Init == shown = {}

Publish(s) == shown' = Items(s)

Next == \E s \in Snapshots : Publish(s)

Spec == Init /\ [][Next]_shown
=============================================================================
