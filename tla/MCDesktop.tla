------------------------------ MODULE MCDesktop ------------------------------
(* A screen of 4 by 2 with three overlapping windows of 3 by 2, a close button
   and a title bar one pixel high, and a dock with one icon beside them. *)
EXTENDS Desktop

Rect(x, y, w, h) == [x |-> x, y |-> y, w |-> w, h |-> h]
MCCloseBox == Rect(1, 0, 1, 1)
MCLoginButton == Rect(1, 1, 2, 1)
MCTerminal == Rect(0, 0, 3, 2)
MCFiles == Rect(1, 0, 3, 2)
MCSettings == Rect(0, 1, 3, 2)
MCDock == <<[icon |-> Rect(3, 1, 1, 1), opens |-> Rect(0, 0, 3, 2)]>>
MCPassword == <<"n", "a">>
=============================================================================
