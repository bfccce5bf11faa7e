----------------------------- MODULE ConfigStore -----------------------------
(***************************************************************************)
(* What the config engine promises of a running service: the tree it       *)
(* serves from is always one its own checker accepts, and it changes by    *)
(* one file at a time.                                                     *)
(***************************************************************************)
CONSTANTS
  Files,       \* the paths of one service
  Bodies,      \* what a file may say
  None,        \* what an absent file says
  ValidTrees   \* the trees the service's checker accepts

VARIABLE tree

Init == tree \in ValidTrees

Change(f, b) ==
  /\ tree' = [tree EXCEPT ![f] = b]
  /\ tree' \in ValidTrees

Next == \E f \in Files, b \in Bodies \cup {None} : Change(f, b)

Spec == Init /\ [][Next]_tree
=============================================================================
