------------------------------ MODULE MCInput ------------------------------
(* Keys: `a', Enter, Backspace, the release of `a'.  A click with a movement
   to the left, and one to the right, which looks like a first byte, and fast up. *)
EXTENDS Input
MCKeyBytes == {30, Enter, Backspace, 30 + 128}
Step(dx, dy, buttons) == [dx |-> dx, dy |-> dy, buttons |-> buttons]
MCMoves == {Step(-16, 1, 1), Step(8, 144, 0)}
=============================================================================
