------------------------------- MODULE Desktop -------------------------------
(***************************************************************************)
(* The user interface behind the event queue: the login screen             *)
(* (ui/login), the desktop's event handler (ui/nanaura) and the window     *)
(* manager (ui/nanawm), fed by the mouse and keyboard drivers.             *)
(*                                                                         *)
(* All of it runs in the main loop, one event at a time; EventQueue is     *)
(* about how events get there, and one that finds the queue full is lost   *)
(* here.  The sizes of the screen, the windows and their parts are         *)
(* parameters.  What only changes the picture is left out: titles,         *)
(* colours, g_error and g_launcher.  Every window of the code is movable.  *)
(***************************************************************************)
EXTENDS Integers, Sequences, SequencesExt

CONSTANTS Width, Height,      \* of the screen
          TitleH,             \* height of a title bar
          CloseBox,           \* the close button, from the window's upper right corner
          LoginButton,        \* a rectangle
          Terminal, Files, Settings, \* the windows the desktop begins with
          Dock,               \* sequence of icons: a rectangle and the window it opens
          MaxWindows,         \* WM_MAX_WINDOWS
          Password, PassMax,  \* the password, and how much of one the field holds
          Printable, Other,   \* keys with a character, and the rest
          MaxKeys,            \* bound on keys between two attempts
          Beyond              \* bound on how far the mouse leaves the screen

Rectangle == [x : Nat, y : Nat, w : Nat, h : Nat]
Enter == "Enter"
Backspace == "Backspace"

ASSUME ScreenAssumption ==
  /\ Width \in Nat \ {0} /\ Height \in Nat \ {0} /\ TitleH \in Nat /\ CloseBox \in Rectangle
  /\ LoginButton \in Rectangle /\ MaxWindows \in Nat /\ {Beyond, MaxKeys, PassMax} \subseteq Nat
ASSUME WindowAssumption ==
  /\ \A r \in {Terminal, Files, Settings} \cup {Dock[i].opens : i \in DOMAIN Dock} :
       r \in Rectangle /\ r.x < Width /\ r.y < Height /\ r.w > 0 /\ r.h > 0
  /\ \A i \in DOMAIN Dock : Dock[i].icon \in Rectangle
ASSUME KeyAssumption == Password \in Seq(Printable) /\ {Enter, Backspace} \cap (Printable \cup Other) = {}

VARIABLES ui,       \* g_state
          pass,     \* what the password field holds
          keys,     \* history: the keys since the last attempt
          loginPrev,\* prev_left of the login screen
          desk,     \* the window manager
          prevLeft, \* g_prev_left of nanaura
          mouse     \* the driver's position, at the last event that came through

vars == <<ui, pass, keys, loginPrev, desk, prevLeft, mouse>>

Slot == 1 .. MaxWindows
XPos == 0 .. Width - 1 + Beyond
YPos == 0 .. Height - 1 + Beyond
Window == [used : BOOLEAN, active : BOOLEAN, x : Nat, y : Nat, w : Nat, h : Nat]
Desk == [win : [Slot -> Window], active : 0 .. MaxWindows, dragging : BOOLEAN,
         offx : Nat, offy : Nat, prevBtn : BOOLEAN]
Unused == [used |-> FALSE, active |-> FALSE, x |-> 0, y |-> 0, w |-> 0, h |-> 0]

TypeOK ==
  /\ ui \in {"LOGIN", "DESKTOP"}
  /\ pass \in Seq(Printable) /\ Len(pass) <= PassMax
  /\ keys \in Seq(Printable \cup Other \cup {Backspace})
  /\ loginPrev \in BOOLEAN /\ prevLeft \in BOOLEAN
  /\ desk \in Desk
  /\ mouse \in [x : XPos, y : YPos]

Init == /\ ui = "LOGIN"
        /\ pass = << >> /\ keys = << >>
        /\ loginPrev = FALSE /\ prevLeft = FALSE
        /\ desk = [win |-> [i \in Slot |-> Unused], active |-> 0, dragging |-> FALSE,
                   offx |-> 0, offy |-> 0, prevBtn |-> FALSE]
        /\ mouse = [x |-> 0, y |-> 0]

-----------------------------------------------------------------------------
(* The window manager, as functions of its state d.                        *)

(* point_in *)
PointIn(px, py, r) == px >= r.x /\ py >= r.y /\ px < r.x + r.w /\ py < r.y + r.h

FocusKeepsOld(d, i) == \* a bug: the others stay marked active
  [d EXCEPT !.win[i].active = TRUE, !.active = i]

(* wm_focus_window *)
FocusWindow(d, i) == [d EXCEPT !.win = [j \in Slot |-> [@[j] EXCEPT !.active = (j = i)]],
                               !.active = i]

(* wm_create_window in the first free slot *)
FreeSlots(d) == {i \in Slot : ~d.win[i].used}
CreateWindow(d, r) ==
  IF FreeSlots(d) = {} THEN d
  ELSE LET i == Min(FreeSlots(d))
       IN  FocusWindow([d EXCEPT !.win[i] = [used |-> TRUE, active |-> FALSE,
                                             x |-> r.x, y |-> r.y, w |-> r.w, h |-> r.h]], i)

(* wm_close_window; of a window not in use nothing is read again *)
CloseWindow(d, i) == [d EXCEPT !.win[i] = Unused, !.active = IF @ = i THEN 0 ELSE @]

(* pick_window_at: the active window first, then from the last slot down *)
Hits(d, x, y) == {i \in Slot : d.win[i].used /\ PointIn(x, y, d.win[i])}
PickFromFirst(d, x, y) == \* a bug: the slots are searched upwards
  IF d.active \in Hits(d, x, y) THEN d.active
  ELSE IF Hits(d, x, y) = {} THEN 0 ELSE Min(Hits(d, x, y))
PickWindowAt(d, x, y) ==
  IF d.active \in Hits(d, x, y) THEN d.active
  ELSE IF Hits(d, x, y) = {} THEN 0 ELSE Max(Hits(d, x, y))

CloseButton(w) == [x |-> w.x + w.w - CloseBox.x, y |-> w.y + CloseBox.y, w |-> CloseBox.w, h |-> CloseBox.h]
TitleBar(w) == [x |-> w.x, y |-> w.y, w |-> w.w, h |-> TitleH]

CloseAny(d, x, y) == \* a bug: a close button under another window reacts
  LET S == {i \in Slot : d.win[i].used /\ PointIn(x, y, CloseButton(d.win[i]))}
  IN  IF S = {} THEN d ELSE CloseWindow(d, Min(S))

(* wm_handle_mouse, the press: focus, then close or begin to drag *)
Press(d, x, y) ==
  LET i == PickWindowAt(d, x, y)
      f == FocusWindow(d, i)
  IN  IF i = 0 THEN d
      ELSE IF PointIn(x, y, CloseButton(d.win[i])) THEN CloseWindow(f, i)
      ELSE IF PointIn(x, y, TitleBar(d.win[i]))
           THEN [f EXCEPT !.dragging = TRUE, !.offx = x - d.win[i].x, !.offy = y - d.win[i].y]
      ELSE f

(* the drag; a window does not leave the screen to the left or above *)
Drag(d, x, y) ==
  [d EXCEPT !.win[d.active].x = Max({0, x - d.offx}), !.win[d.active].y = Max({0, y - d.offy})]

(* the position is limited to the screen *)
Clamp(v, size) == Min({v, size - 1})

(* the three parts of wm_handle_mouse *)
AfterPress(d, x, y, left) == IF left /\ ~d.prevBtn THEN Press(d, x, y) ELSE d
DragOnRelease(d, x, y, left) == \* a bug: the event of the release still drags
  IF d.dragging /\ d.active # 0 THEN Drag(d, x, y) ELSE d
AfterDrag(d, x, y, left) ==
  IF d.dragging /\ d.active # 0 /\ d.win[d.active].used /\ left THEN Drag(d, x, y) ELSE d
NeverRelease(d, left) == [d EXCEPT !.prevBtn = left] \* a bug: the release does not end the drag
AfterRelease(d, left) == [d EXCEPT !.dragging = @ /\ (left \/ ~d.prevBtn), !.prevBtn = left]

HandleMouse(d, x, y, left) ==
  LET cx == Clamp(x, Width)
      cy == Clamp(y, Height)
  IN  AfterRelease(AfterDrag(AfterPress(d, cx, cy, left), cx, cy, left), left)

-----------------------------------------------------------------------------
(* The login screen.                                                       *)

(* login_screen_authenticate *)
Authenticated == pass = Password

(* a call of wm_create_window for which there may be no memory *)
Attempted(d, r) == {d, CreateWindow(d, r)}

(* nanaura_init *)
EnterDesktop ==
  /\ ui' = "DESKTOP"
  /\ \E d1 \in Attempted(desk, Terminal) : \E d2 \in Attempted(d1, Files) :
       desk' \in Attempted(d2, Settings)
  /\ keys' = << >> /\ UNCHANGED pass

FailKeepsText == \* a bug: the field is not cleared
  ~Authenticated /\ keys' = << >> /\ UNCHANGED <<ui, pass, desk>>
Fail == ~Authenticated /\ pass' = << >> /\ keys' = << >> /\ UNCHANGED <<ui, desk>>

Attempt == (Authenticated /\ EnterDesktop) \/ Fail

(* a key in the password field *)
TypeUnbounded(key) == \* a bug: no limit
  pass' = IF key = Backspace THEN (IF pass = << >> THEN pass ELSE Front(pass))
          ELSE IF key \in Printable THEN Append(pass, key) ELSE pass
Type(key) ==
  pass' = IF key = Backspace THEN (IF pass = << >> THEN pass ELSE Front(pass))
          ELSE IF key \in Printable /\ Len(pass) < PassMax THEN Append(pass, key) ELSE pass

LoginKey(key) ==
  /\ ui = "LOGIN"
  /\ IF key = Enter THEN Attempt
     ELSE Type(key) /\ Len(keys) < MaxKeys /\ keys' = Append(keys, key) /\ UNCHANGED <<ui, desk>>
  /\ UNCHANGED <<loginPrev, prevLeft, mouse>>

LoginMouse(x, y, left) ==
  /\ ui = "LOGIN"
  /\ loginPrev' = left
  /\ IF left /\ ~loginPrev /\ PointIn(x, y, LoginButton) THEN Attempt
     ELSE UNCHANGED <<ui, pass, keys, desk>>
  /\ UNCHANGED prevLeft

Icons(x, y) == {i \in DOMAIN Dock : PointIn(x, y, Dock[i].icon)}

(* nanaura_handle_event: the dock, then the window manager.  No memory for the
   window, or no slot, and the icon opens nothing. *)
DesktopMouse(x, y, left) ==
  /\ ui = "DESKTOP"
  /\ prevLeft' = left
  /\ \/ desk' = HandleMouse(desk, x, y, left)
     \/ /\ left /\ ~prevLeft
        /\ \E i \in Icons(x, y) : desk' = HandleMouse(CreateWindow(desk, Dock[i].opens), x, y, left)
  /\ UNCHANGED <<ui, pass, keys, loginPrev>>

(* mouse_on_interrupt, which limits the position on two sides only, and the
   main loop.  An event that finds the queue full is lost, so between two of
   them the mouse may have gone anywhere and its button up and down. *)
MouseEvent(x, y, left) == /\ mouse' = [x |-> x, y |-> y]
                          /\ LoginMouse(x, y, left) \/ DesktopMouse(x, y, left)

Next == \/ \E key \in Printable \cup Other \cup {Enter, Backspace} : LoginKey(key)
        \/ \E x \in XPos, y \in YPos, left \in BOOLEAN : MouseEvent(x, y, left)

Spec == Init /\ [][Next]_vars

-----------------------------------------------------------------------------
(* wm_composite: the windows in the order of their slots, the active one last;
   what is seen at a point was painted last. *)
PaintOrder == [i \in Slot |-> i] \o (IF desk.active = 0 THEN << >> ELSE <<desk.active>>)
SeenAt(x, y) ==
  LET cover == {k \in DOMAIN PaintOrder : PaintOrder[k] \in Hits(desk, x, y)}
  IN  IF cover = {} THEN 0 ELSE PaintOrder[Max(cover)]
Pixel == (0 .. Width - 1) \X (0 .. Height - 1)

(* A click goes to the window that is seen where it lands. *)
ClickHitsSeen == \A p \in Pixel : PickWindowAt(desk, p[1], p[2]) = SeenAt(p[1], p[2])

(* The windows marked active, which get the active frame, are g_active and no
   other; g_active is never a closed window. *)
OneActive == /\ \A i \in Slot : desk.win[i].used => (desk.win[i].active <=> desk.active = i)
             /\ desk.active # 0 => desk.win[desk.active].used

(* While the button is held on a title bar the window stays under the pointer at
   the place it was grabbed; nothing else ends or outlives the drag. *)
DragFollows == desk.dragging =>
  /\ prevLeft /\ desk.active # 0
  /\ LET w == desk.win[desk.active]
     IN  /\ w.used
         /\ w.x = Max({0, Clamp(mouse.x, Width) - desk.offx})
         /\ w.y = Max({0, Clamp(mouse.y, Height) - desk.offy})

(* A window moves only when it is dragged: not by another window's drag, by a
   release, or by a window that opens. *)
OnlyDraggedMoves == [][\A i \in Slot :
  LET v == desk.win[i]
      w == desk'.win[i]
  IN  v.used /\ w.used /\ <<v.x, v.y>> # <<w.x, w.y>>
        => desk'.dragging /\ prevLeft' /\ desk'.active = i]_vars

(* A window closes only by a press on its close button, where that is seen or
   the press lies on a dock icon: an icon reacts through a window that covers it,
   and the new window takes the priority from the one that was seen. *)
ClosedBySight == [][\A i \in Slot : desk.win[i].used /\ ~desk'.win[i].used =>
  LET x == Clamp(mouse'.x, Width)
      y == Clamp(mouse'.y, Height)
  IN  /\ prevLeft' /\ ~prevLeft
      /\ PointIn(x, y, CloseButton(desk.win[i]))
      /\ SeenAt(x, y) = i \/ Icons(mouse'.x, mouse'.y) # {}]_vars

(* The desktop opens to who typed the password since the last attempt: the keys,
   with what was deleted and, when the field was full, ignored taken out. *)
Stroke(text, key) ==
  IF key = Backspace THEN SubSeq(text, 1, Len(text) - 1)
  ELSE IF key \in Printable THEN SubSeq(Append(text, key), 1, Min({Len(text) + 1, PassMax})) ELSE text
Edited(typed) ==
  LET text[i \in 0 .. Len(typed)] == IF i = 0 THEN << >> ELSE Stroke(text[i - 1], typed[i])
  IN  text[Len(typed)]
PasswordOpens == [][ui # ui' => Edited(keys) = Password]_vars

=============================================================================
