---------------------------- MODULE MCInteractions ----------------------------
(* Instances of Interactions for TLC: callbacks of one session and of the host. *)
EXTENDS Interactions

CONSTANTS root, ask, more, free

AskedOf == [x \in Callbacks |-> IF x = free THEN Host ELSE root]

=============================================================================
