--------------------------- MODULE MCKitchenBoard ---------------------------
(* Instances of KitchenBoard for TLC. *)
EXTENDS KitchenBoard, TLC

\* Polls are interchangeable.
Alike == Permutations(Polls)
=============================================================================
