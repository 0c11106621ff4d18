--------------------------- MODULE Desktop_proofs ---------------------------
(***************************************************************************)
(* That clicks, focus, drags and closed windows agree with what is seen on *)
(* the screen, and that the password opens it, for every size of the       *)
(* screen, every set of windows and dock icons, every number of slots and  *)
(* every password.                                                         *)
(***************************************************************************)
EXTENDS Desktop, ListLemmas

-----------------------------------------------------------------------------
(* A window manager in order: the mark of every window agrees with d.active, which
   is a window in use, or none. *)
Marked(d) == /\ \A i \in Slot : d.win[i].used => (d.win[i].active <=> d.active = i)
             /\ d.active # 0 => d.win[d.active].used
Sound(d) == d \in Desk /\ Marked(d)

(* The button is kept by the window manager and by the desktop alike; a drag needs it,
   and has the window under the pointer. *)
IInv == /\ TypeOK /\ Marked(desk)
        /\ prevLeft = desk.prevBtn
        /\ ui = "LOGIN" => ~desk.dragging
        /\ DragFollows

-----------------------------------------------------------------------------
(* The operators of the window manager, field by field.                    *)

Place(w) == <<w.used, w.x, w.y, w.w, w.h>>

LEMMA Slots == /\ MaxWindows \in Nat /\ Slot = 1 .. MaxWindows
               /\ \A i \in 0 .. MaxWindows : i # 0 => i \in Slot
               /\ \A i \in Slot : i # 0 /\ i \in 0 .. MaxWindows
BY ScreenAssumption DEF Slot

LEMMA Focused ==
  ASSUME NEW d \in Desk, NEW i \in Slot
  PROVE  LET f == FocusWindow(d, i)
         IN  /\ f \in Desk /\ f.active = i
             /\ \A j \in Slot : /\ Place(f.win[j]) = Place(d.win[j])
                                /\ f.win[j].active <=> j = i
             /\ f.dragging = d.dragging /\ f.offx = d.offx /\ f.offy = d.offy /\ f.prevBtn = d.prevBtn
<1> DEFINE win == [j \in Slot |-> [d.win[j] EXCEPT !.active = (j = i)]]
           f == [d EXCEPT !.win = win, !.active = i]
<1>1. FocusWindow(d, i) = f
  BY DEF FocusWindow
<1>2. \A j \in Slot : d.win[j] \in Window
  BY DEF Desk
<1>3. \A j \in Slot : /\ win[j] \in Window
                      /\ Place(win[j]) = Place(d.win[j]) /\ (win[j].active <=> j = i)
  BY <1>2 DEF Window, Place
<1>4. win \in [Slot -> Window]
  BY <1>3
<1>5. i \in 0 .. MaxWindows
  BY Slots
<1> HIDE DEF win
<1>6. f \in Desk /\ f.win = win /\ f.active = i
      /\ f.dragging = d.dragging /\ f.offx = d.offx /\ f.offy = d.offy /\ f.prevBtn = d.prevBtn
  BY <1>4, <1>5 DEF Desk
<1> QED BY <1>1, <1>3, <1>6

LEMMA Closed ==
  ASSUME NEW d \in Desk, NEW i \in Slot
  PROVE  LET c == CloseWindow(d, i)
         IN  /\ c \in Desk /\ c.active = (IF d.active = i THEN 0 ELSE d.active)
             /\ ~c.win[i].used
             /\ \A j \in Slot \ {i} : c.win[j] = d.win[j]
             /\ c.dragging = d.dragging /\ c.offx = d.offx /\ c.offy = d.offy /\ c.prevBtn = d.prevBtn
<1> DEFINE a == IF d.active = i THEN 0 ELSE d.active
           win == [d.win EXCEPT ![i] = Unused]
           c == [d EXCEPT !.win = win, !.active = a]
<1>1. CloseWindow(d, i) = c
  BY DEF CloseWindow, Desk
<1>2. Unused \in Window /\ ~Unused.used
  BY DEF Unused, Window
<1>3. /\ win \in [Slot -> Window] /\ ~win[i].used
      /\ \A j \in Slot \ {i} : win[j] = d.win[j]
  BY <1>2 DEF Desk
<1>4. a \in 0 .. MaxWindows
  BY Slots DEF Desk
<1> HIDE DEF win, a
<1>5. c \in Desk /\ c.win = win /\ c.active = a
      /\ c.dragging = d.dragging /\ c.offx = d.offx /\ c.offy = d.offy /\ c.prevBtn = d.prevBtn
  BY <1>3, <1>4 DEF Desk
<1> QED BY <1>1, <1>3, <1>5 DEF a

LEMMA FreeSlot ==
  ASSUME NEW d, FreeSlots(d) # {}
  PROVE  Min(FreeSlots(d)) \in Slot /\ ~d.win[Min(FreeSlots(d))].used
BY Slots, FirstIndex DEF FreeSlots

(* A rectangle that may become a window. *)
Opens == {Terminal, Files, Settings} \cup {Dock[i].opens : i \in DOMAIN Dock}

LEMMA Created ==
  ASSUME NEW d, Sound(d), NEW r \in Opens
  PROVE  LET c == CreateWindow(d, r)
         IN  /\ Sound(c)
             /\ \A j \in Slot : d.win[j].used => Place(c.win[j]) = Place(d.win[j])
             /\ c.dragging = d.dragging /\ c.offx = d.offx /\ c.offy = d.offy /\ c.prevBtn = d.prevBtn
<1>1. r.x \in Nat /\ r.y \in Nat /\ r.w \in Nat /\ r.h \in Nat
  BY WindowAssumption DEF Opens, Rectangle
<1>2. CASE FreeSlots(d) = {}
  BY <1>2 DEF CreateWindow
<1>3. CASE FreeSlots(d) # {}
  <2> DEFINE i == Min(FreeSlots(d))
             w == [used |-> TRUE, active |-> FALSE, x |-> r.x, y |-> r.y, w |-> r.w, h |-> r.h]
             e == [d EXCEPT !.win[i] = w]
  <2>1. i \in Slot /\ ~d.win[i].used
    BY <1>3, FreeSlot
  <2>2. w \in Window /\ w.used
    BY <1>1 DEF Window
  <2>3. CreateWindow(d, r) = FocusWindow(e, i)
    BY <1>3 DEF CreateWindow
  <2> HIDE DEF i, w
  <2>4. /\ e \in Desk /\ e.win[i] = w /\ \A j \in Slot \ {i} : e.win[j] = d.win[j]
        /\ e.dragging = d.dragging /\ e.offx = d.offx /\ e.offy = d.offy /\ e.prevBtn = d.prevBtn
    BY <2>1, <2>2 DEF Sound, Desk
  <2> HIDE DEF e
  <2>5. PICK f : f = FocusWindow(e, i)
    OBVIOUS
  <2>6. /\ f \in Desk /\ f.active = i
        /\ \A j \in Slot : Place(f.win[j]) = Place(e.win[j]) /\ (f.win[j].active <=> j = i)
        /\ f.dragging = e.dragging /\ f.offx = e.offx /\ f.offy = e.offy /\ f.prevBtn = e.prevBtn
    BY <2>1, <2>4, <2>5, Focused
  <2>7. f.win[i].used
    BY <2>1, <2>2, <2>4, <2>6 DEF Place
  <2>8. Sound(f)
    BY <2>1, <2>6, <2>7 DEF Sound, Marked
  <2>9. \A j \in Slot : d.win[j].used => Place(f.win[j]) = Place(d.win[j])
    BY <2>1, <2>4, <2>6
  <2> QED BY <2>3, <2>4, <2>5, <2>6, <2>8, <2>9
<1> QED BY <1>2, <1>3

(* Where the window is that was grabbed off from its edge. *)
Held(at, off) == Max({0, at - off})

LEMMA HeldIs ==
  ASSUME NEW at \in Nat, NEW off \in Nat
  PROVE  Held(at, off) \in Nat
<1>1. PICK v \in Int : v = at - off
  OBVIOUS
<1> QED BY <1>1, OfTwo DEF Held

LEMMA Clamped ==
  ASSUME NEW v \in Nat, NEW n \in Nat \ {0}
  PROVE  Clamp(v, n) \in 0 .. n - 1
<1>1. PICK m \in Nat : m = n - 1
  OBVIOUS
<1>2. Min({v, m}) = (IF v <= m THEN v ELSE m)
  BY OfTwo
<1> QED BY <1>1, <1>2 DEF Clamp

LEMMA Picked ==
  ASSUME NEW d, NEW x, NEW y
  PROVE  PickWindowAt(d, x, y) # 0 => PickWindowAt(d, x, y) \in Hits(d, x, y)
<1>1. ASSUME Hits(d, x, y) # {} PROVE Max(Hits(d, x, y)) \in Hits(d, x, y)
  <2>1. Hits(d, x, y) \subseteq 0 .. MaxWindows
    BY Slots DEF Hits
  <2> QED BY <1>1, <2>1, Slots, Bounds
<1> QED BY <1>1 DEF PickWindowAt

(* A press raises one window, and may close it or begin to drag it. *)
LEMMA Pressed ==
  ASSUME NEW d, Sound(d), ~d.dragging, NEW x \in Nat, NEW y \in Nat
  PROVE  LET p == Press(d, x, y)
             i == PickWindowAt(d, x, y)
         IN  /\ Sound(p) /\ p.prevBtn = d.prevBtn
             /\ p.dragging => p.active # 0
             /\ \A j \in Slot : \/ Place(p.win[j]) = Place(d.win[j])
                                \/ j = i /\ ~p.win[j].used /\ PointIn(x, y, CloseButton(d.win[j]))
<1> DEFINE i == PickWindowAt(d, x, y)
           f == FocusWindow(d, i)
           c == CloseWindow(f, i)
           g == [f EXCEPT !.dragging = TRUE, !.offx = x - d.win[i].x, !.offy = y - d.win[i].y]
<1>1. CASE i = 0
  <2>1. Press(d, x, y) = d
    BY <1>1 DEF Press
  <2> HIDE DEF i
  <2> QED BY <2>1
<1>2. CASE i # 0
  <2>1. i \in Slot /\ d.win[i].used /\ d \in Desk
    BY <1>2, Picked DEF Hits, Sound
  <2>2. /\ f \in Desk /\ f.active = i
        /\ \A j \in Slot : Place(f.win[j]) = Place(d.win[j]) /\ (f.win[j].active <=> j = i)
        /\ ~f.dragging /\ f.prevBtn = d.prevBtn
    BY <2>1, Focused
  <2>3. Sound(f)
    BY <2>1, <2>2 DEF Sound, Marked, Place
  <2>4. CASE PointIn(x, y, CloseButton(d.win[i]))
    <3>1. Press(d, x, y) = c
      BY <1>2, <2>4 DEF Press
    <3> HIDE DEF f
    <3>2. /\ c \in Desk /\ c.active = 0 /\ ~c.win[i].used
          /\ \A j \in Slot \ {i} : c.win[j] = f.win[j]
          /\ ~c.dragging /\ c.prevBtn = d.prevBtn
      BY <2>1, <2>2, Closed
    <3> HIDE DEF c, i
    <3>3. Marked(c)
      BY <2>1, <2>2, <3>2, Slots DEF Marked
    <3> QED BY <2>2, <2>4, <3>1, <3>2, <3>3 DEF Sound, i
  <2>5. CASE ~PointIn(x, y, CloseButton(d.win[i])) /\ PointIn(x, y, TitleBar(d.win[i]))
    <3>1. Press(d, x, y) = g
      BY <1>2, <2>5 DEF Press
    <3>2. d.win[i] \in Window
      BY <2>1 DEF Desk
    <3>3. x - d.win[i].x \in Nat /\ y - d.win[i].y \in Nat
      BY <2>5, <3>2 DEF PointIn, TitleBar, Window
    <3> HIDE DEF f, i
    <3>4. g \in Desk /\ g.win = f.win /\ g.active = i /\ g.prevBtn = d.prevBtn
      BY <2>2, <3>3 DEF Desk
    <3> HIDE DEF g
    <3>5. Marked(g)
      BY <2>2, <2>3, <3>4 DEF Sound, Marked
    <3> QED BY <1>2, <2>1, <2>2, <3>1, <3>4, <3>5, Slots DEF Sound
  <2>6. CASE ~PointIn(x, y, CloseButton(d.win[i])) /\ ~PointIn(x, y, TitleBar(d.win[i]))
    <3>1. Press(d, x, y) = f
      BY <1>2, <2>6 DEF Press
    <3> HIDE DEF f
    <3> QED BY <2>2, <2>3, <3>1
  <2> QED BY <2>4, <2>5, <2>6
<1> QED BY <1>1, <1>2

(* A drag moves the active window and leaves the others. *)
LEMMA Dragged ==
  ASSUME NEW d, Sound(d), d.active # 0, NEW x \in Nat, NEW y \in Nat
  PROVE  LET r == Drag(d, x, y)
         IN  /\ Sound(r) /\ r.active = d.active /\ r.dragging = d.dragging /\ r.prevBtn = d.prevBtn
             /\ r.offx = d.offx /\ r.offy = d.offy
             /\ r.win[d.active].x = Held(x, d.offx) /\ r.win[d.active].y = Held(y, d.offy)
             /\ \A j \in Slot : r.win[j].used = d.win[j].used
             /\ \A j \in Slot \ {d.active} : r.win[j] = d.win[j]
<1> DEFINE a == d.active
           mx == Max({0, x - d.offx})
           my == Max({0, y - d.offy})
           w == [d.win[a] EXCEPT !.x = mx, !.y = my]
           win == [d.win EXCEPT ![a] = w]
           r == [d EXCEPT !.win = win]
<1>1. a \in Slot /\ d.win[a] \in Window /\ d \in Desk
  BY Slots DEF Sound, Desk
<1>2. mx \in Nat /\ my \in Nat /\ mx = Held(x, d.offx) /\ my = Held(y, d.offy)
  <2>1. d.offx \in Nat /\ d.offy \in Nat
    BY <1>1 DEF Desk
  <2>2. mx = Held(x, d.offx) /\ my = Held(y, d.offy)
    BY DEF Held
  <2> QED BY <2>1, <2>2, HeldIs
<1> HIDE DEF mx, my
<1>3. Drag(d, x, y) = r
  <2>1. d.win \in [Slot -> Window]
    BY <1>1 DEF Desk
  <2>2. Drag(d, x, y) = [d EXCEPT !.win[a].x = mx, !.win[a].y = my]
    BY DEF Drag, mx, my
  <2> QED BY <1>1, <2>1, <2>2 DEF Desk, Window
<1>4. w \in Window /\ w.x = mx /\ w.y = my /\ w.used = d.win[a].used /\ w.active = d.win[a].active
  BY <1>1, <1>2 DEF Window
<1> HIDE DEF w
<1>5. win \in [Slot -> Window] /\ win[a] = w /\ \A j \in Slot \ {a} : win[j] = d.win[j]
  BY <1>1, <1>4 DEF Desk
<1> HIDE DEF win
<1>6. /\ r \in Desk /\ r.win = win /\ r.active = a /\ r.dragging = d.dragging /\ r.prevBtn = d.prevBtn
      /\ r.offx = d.offx /\ r.offy = d.offy
  BY <1>1, <1>5 DEF Desk
<1> HIDE DEF r
<1>7. Marked(r)
  BY <1>1, <1>4, <1>5, <1>6 DEF Sound, Marked
<1> QED BY <1>1, <1>2, <1>3, <1>4, <1>5, <1>6, <1>7 DEF Sound

(* wm_handle_mouse, of a window manager in which only a held button drags. *)
Grabs(d) == d.dragging => d.prevBtn /\ d.active # 0 /\ d.win[d.active].used
Follows(d, x, y) == d.dragging =>
  /\ d.win[d.active].x = Held(x, d.offx) /\ d.win[d.active].y = Held(y, d.offy)

LEMMA Handled ==
  ASSUME NEW d, Sound(d), Grabs(d), NEW x \in Nat, NEW y \in Nat, NEW left \in BOOLEAN,
         NEW cx, cx = Clamp(x, Width), NEW cy, cy = Clamp(y, Height)
  PROVE  LET h == HandleMouse(d, x, y, left)
         IN  /\ Sound(h) /\ Grabs(h) /\ h.prevBtn = left
             /\ Follows(h, cx, cy)
             /\ \A j \in Slot : d.win[j].used /\ h.win[j].used /\ Place(d.win[j]) # Place(h.win[j])
                                  => h.dragging /\ left /\ h.active = j
             /\ \A j \in Slot : d.win[j].used /\ ~h.win[j].used
                                  => /\ left /\ ~d.prevBtn /\ j = PickWindowAt(d, cx, cy)
                                     /\ PointIn(cx, cy, CloseButton(d.win[j]))
<1> DEFINE p == AfterPress(d, cx, cy, left)
           q == AfterDrag(p, cx, cy, left)
           h == AfterRelease(q, left)
<1>1. cx \in Nat /\ cy \in Nat
  <2>1. cx \in 0 .. Width - 1 /\ cy \in 0 .. Height - 1
    BY Clamped, ScreenAssumption
  <2> QED BY <2>1, ScreenAssumption
<1>2. HandleMouse(d, x, y, left) = h
  BY DEF HandleMouse
<1>3. /\ Sound(p) /\ p.prevBtn = d.prevBtn
      /\ p.dragging => (left \/ d.dragging) /\ p.active # 0 /\ p.win[p.active].used
      /\ \A j \in Slot : \/ Place(p.win[j]) = Place(d.win[j])
                         \/ /\ left /\ ~d.prevBtn /\ j = PickWindowAt(d, cx, cy)
                            /\ ~p.win[j].used /\ PointIn(cx, cy, CloseButton(d.win[j]))
      /\ ~(left /\ ~d.prevBtn) => p = d
  <2>1. CASE left /\ ~d.prevBtn
    <3>1. ~d.dragging
      BY <2>1 DEF Grabs
    <3>2. p = Press(d, cx, cy)
      BY <2>1 DEF AfterPress
    <3> HIDE DEF p
    <3> QED BY <1>1, <2>1, <3>1, <3>2, Pressed DEF Sound, Marked
  <2>2. CASE ~(left /\ ~d.prevBtn)
    <3>1. p = d
      BY <2>2 DEF AfterPress
    <3> HIDE DEF p
    <3> QED BY <2>2, <3>1 DEF Grabs
  <2> QED BY <2>1, <2>2
<1> HIDE DEF p
<1>4. /\ Sound(q) /\ q.prevBtn = p.prevBtn /\ q.active = p.active /\ q.dragging = p.dragging
      /\ \A j \in Slot : q.win[j].used = p.win[j].used
      /\ \A j \in Slot : q.win[j] = p.win[j] \/ (p.dragging /\ left /\ p.active = j)
      /\ left => Follows(q, cx, cy)
  <2>1. CASE p.dragging /\ p.active # 0 /\ p.win[p.active].used /\ left
    <3>1. q = Drag(p, cx, cy)
      BY <2>1 DEF AfterDrag
    <3> HIDE DEF q
    <3>2. /\ Sound(q) /\ q.active = p.active /\ q.dragging = p.dragging /\ q.prevBtn = p.prevBtn
          /\ q.offx = p.offx /\ q.offy = p.offy
          /\ q.win[p.active].x = Held(cx, p.offx) /\ q.win[p.active].y = Held(cy, p.offy)
          /\ \A j \in Slot : q.win[j].used = p.win[j].used
          /\ \A j \in Slot \ {p.active} : q.win[j] = p.win[j]
      <4>1. Sound(p) /\ p.active # 0
        BY <1>3, <2>1
      <4> HIDE DEF q
      <4> QED BY <1>1, <3>1, <4>1, Dragged
    <3> QED BY <2>1, <3>2 DEF Follows
  <2>2. CASE ~(p.dragging /\ left)
    <3>1. q = p
      BY <2>2 DEF AfterDrag
    <3> HIDE DEF q
    <3> QED BY <1>3, <2>2, <3>1 DEF Follows
  <2> QED BY <1>3, <2>1, <2>2
<1> HIDE DEF q
<1>5. /\ h \in Desk /\ h.win = q.win /\ h.active = q.active /\ h.offx = q.offx /\ h.offy = q.offy
      /\ h.prevBtn = left /\ h.dragging = (q.dragging /\ (left \/ ~q.prevBtn))
  BY <1>4 DEF AfterRelease, Sound, Desk
<1> HIDE DEF h
<1>6. h.dragging => q.dragging /\ left
  BY <1>3, <1>4, <1>5 DEF Grabs
<1>7. q.dragging /\ left => h.dragging
  BY <1>5
<1>8. Sound(h)
  BY <1>4, <1>5 DEF Sound, Marked
<1>9. Grabs(h) /\ Follows(h, cx, cy)
  <2>1. p.dragging => p.active \in Slot
    BY <1>3, Slots DEF Sound, Desk
  <2> QED BY <1>3, <1>4, <1>5, <1>6, <2>1 DEF Grabs, Follows
<1>10. ASSUME NEW j \in Slot, d.win[j].used, h.win[j].used, Place(d.win[j]) # Place(h.win[j])
       PROVE  h.dragging /\ left /\ h.active = j
  <2>1. p.win[j].used
    BY <1>4, <1>5, <1>10
  <2>2. Place(p.win[j]) = Place(d.win[j])
    BY <1>3, <2>1
  <2> QED BY <1>4, <1>5, <1>7, <1>10, <2>2
<1>11. ASSUME NEW j \in Slot, d.win[j].used, ~h.win[j].used
       PROVE  /\ left /\ ~d.prevBtn /\ j = PickWindowAt(d, cx, cy)
              /\ PointIn(cx, cy, CloseButton(d.win[j]))
  <2>1. ~p.win[j].used
    BY <1>4, <1>5, <1>11
  <2> QED BY <1>3, <1>11, <2>1 DEF Place
<1> QED BY <1>2, <1>5, <1>8, <1>9, <1>10, <1>11

(* What is painted last at a point is what a click there picks. *)
LEMMA PicksSeen ==
  ASSUME desk \in Desk, NEW x, NEW y
  PROVE  PickWindowAt(desk, x, y) = SeenAt(x, y)
<1> DEFINE H == Hits(desk, x, y)
           N == MaxWindows
           base == [i \in Slot |-> i]
           last == IF desk.active = 0 THEN << >> ELSE <<desk.active>>
           cover == {k \in DOMAIN PaintOrder : PaintOrder[k] \in H}
<1>1. N \in Nat /\ H \subseteq 1 .. N /\ H \subseteq 0 .. N
  BY Slots DEF Hits
<1>2. /\ PaintOrder = base \o last /\ base \in Seq(Nat) /\ Len(base) = N
      /\ \A k \in 1 .. N : base[k] = k
  BY Slots DEF PaintOrder
<1>3. desk.active \in 0 .. N
  BY DEF Desk
<1> HIDE DEF base, H, N
<1>4. \A k \in 1 .. N + 1 : k \in 1 .. N \/ k = N + 1
  BY <1>1
<1>5. ASSUME NEW M, M \subseteq 0 .. N + 1, M # {}
      PROVE  Max(M) \in M /\ \A k \in M : k <= Max(M)
  <2>1. PICK n \in Nat : n = N + 1
    BY <1>1
  <2> QED BY <1>5, <2>1, Bounds
<1>6. SeenAt(x, y) = (IF cover = {} THEN 0 ELSE PaintOrder[Max(cover)])
  BY DEF SeenAt, H
<1>7. PickWindowAt(desk, x, y) = (IF desk.active \in H THEN desk.active ELSE IF H = {} THEN 0 ELSE Max(H))
  BY DEF PickWindowAt, H
<1>8. ASSUME cover = H, \A k \in 1 .. N : PaintOrder[k] = k, desk.active \notin H
      PROVE  PickWindowAt(desk, x, y) = SeenAt(x, y)
  <2>1. CASE H = {}
    BY <1>6, <1>7, <1>8, <2>1
  <2>2. CASE H # {}
    <3>1. PICK m : m = Max(H)
      OBVIOUS
    <3>2. m \in 1 .. N
      BY <1>1, <2>2, <3>1, Bounds
    <3> QED BY <1>6, <1>7, <1>8, <2>2, <3>1, <3>2
  <2> QED BY <2>1, <2>2
<1>9. CASE desk.active = 0
  <2>1. last = << >> /\ PaintOrder = base
    BY <1>2, <1>9
  <2>2. DOMAIN PaintOrder = 1 .. N /\ \A k \in 1 .. N : PaintOrder[k] = k
    BY <1>1, <1>2, <2>1
  <2>3. cover = H
    <3>1. \A k : k \in cover <=> k \in DOMAIN PaintOrder /\ PaintOrder[k] \in H
      OBVIOUS
    <3> HIDE DEF cover
    <3>2. \A k : k \in cover <=> k \in H
      BY <1>1, <2>2, <3>1
    <3> QED BY <3>2
  <2>4. desk.active \notin H
    BY <1>1, <1>9
  <2> QED BY <1>8, <2>2, <2>3, <2>4
<1>10. CASE desk.active # 0
  <2>1. /\ last \in Seq(Nat) /\ Len(last) = 1 /\ last[1] = desk.active
        /\ PaintOrder = base \o last
    BY <1>2, <1>3, <1>10, <1>1
  <2>2. /\ DOMAIN PaintOrder = 1 .. N + 1 /\ PaintOrder[N + 1] = desk.active
        /\ \A k \in 1 .. N : PaintOrder[k] = k
    BY <1>1, <1>2, <2>1
  <2>3. \A k : k \in cover <=> k \in DOMAIN PaintOrder /\ PaintOrder[k] \in H
    OBVIOUS
  <2> HIDE DEF cover
  <2>4. CASE desk.active \in H
    <3>1. cover \subseteq 0 .. N + 1 /\ N + 1 \in cover /\ N + 1 \in 1 .. N + 1
      BY <1>1, <2>2, <2>3, <2>4
    <3>2. PICK m : m = Max(cover)
      OBVIOUS
    <3>3. m \in cover /\ N + 1 <= m
      BY <1>5, <3>1, <3>2
    <3>4. m = N + 1
      BY <1>1, <3>1, <3>3
    <3> QED BY <1>6, <1>7, <2>2, <2>4, <3>1, <3>2, <3>4
  <2>5. CASE desk.active \notin H
    <3>1. \A k : k \in cover <=> k \in H
      <4>1. \A k : k \in H => k \in 1 .. N /\ k \in 1 .. N + 1
        BY <1>1
      <4>2. \A k \in 1 .. N + 1 : PaintOrder[k] \in H => k \in 1 .. N
        BY <1>4, <2>2, <2>5
      <4> QED BY <2>2, <2>3, <4>1, <4>2
    <3>2. cover = H
      BY <3>1
    <3> QED BY <1>8, <2>2, <2>5, <3>2
  <2> QED BY <2>4, <2>5
<1> QED BY <1>9, <1>10

-----------------------------------------------------------------------------
(* The steps.                                                              *)

(* nanaura_init *)
LEMMA Started ==
  ASSUME Sound(desk), EnterDesktop
  PROVE  /\ Sound(desk')
         /\ \A j \in Slot : desk.win[j].used => Place(desk'.win[j]) = Place(desk.win[j])
         /\ desk'.dragging = desk.dragging /\ desk'.prevBtn = desk.prevBtn
<1> DEFINE Kept(d, e) == /\ \A j \in Slot : d.win[j].used => Place(e.win[j]) = Place(d.win[j])
                         /\ e.dragging = d.dragging /\ e.prevBtn = d.prevBtn
<1>1. ASSUME NEW d, Sound(d), NEW r \in {Terminal, Files, Settings}, NEW e \in Attempted(d, r)
      PROVE  Sound(e) /\ Kept(d, e)
  <2>1. r \in Opens
    BY DEF Opens
  <2>2. CASE e = d
    BY <1>1, <2>2
  <2>3. CASE e = CreateWindow(d, r)
    BY <1>1, <2>1, <2>3, Created
  <2> QED BY <1>1, <2>2, <2>3 DEF Attempted
<1>2. ASSUME NEW c, NEW d, NEW e, Kept(c, d), Kept(d, e)
      PROVE  Kept(c, e)
  <2>1. \A j \in Slot : c.win[j].used => d.win[j].used
    BY <1>2 DEF Place
  <2> QED BY <1>2, <2>1
<1> HIDE DEF Kept
<1>3. PICK d1 \in Attempted(desk, Terminal) : \E d2 \in Attempted(d1, Files) : desk' \in Attempted(d2, Settings)
  BY DEF EnterDesktop
<1>4. PICK d2 \in Attempted(d1, Files) : desk' \in Attempted(d2, Settings)
  BY <1>3
<1>5. Sound(d1) /\ Kept(desk, d1)
  BY <1>1
<1>6. Sound(d2) /\ Kept(d1, d2)
  BY <1>1, <1>5
<1>7. Sound(desk') /\ Kept(d2, desk')
  BY <1>1, <1>4, <1>6
<1>8. Kept(desk, desk')
  BY <1>2, <1>5, <1>6, <1>7
<1> QED BY <1>7, <1>8 DEF Kept

(* What a step may do to a window, as the action properties state it. *)
Moves == \A i \in Slot :
  LET v == desk.win[i]
      w == desk'.win[i]
  IN  v.used /\ w.used /\ <<v.x, v.y>> # <<w.x, w.y>>
        => desk'.dragging /\ prevLeft' /\ desk'.active = i
Closes == \A i \in Slot : desk.win[i].used /\ ~desk'.win[i].used =>
  LET x == Clamp(mouse'.x, Width)
      y == Clamp(mouse'.y, Height)
  IN  /\ prevLeft' /\ ~prevLeft
      /\ PointIn(x, y, CloseButton(desk.win[i]))
      /\ SeenAt(x, y) = i \/ Icons(mouse'.x, mouse'.y) # {}

LEMMA DesktopStep ==
  ASSUME IInv, NEW x \in XPos, NEW y \in YPos, NEW left \in BOOLEAN,
         mouse' = [x |-> x, y |-> y], DesktopMouse(x, y, left)
  PROVE  IInv' /\ Moves /\ Closes
<1>1. Sound(desk) /\ Grabs(desk) /\ prevLeft = desk.prevBtn
  BY DEF IInv, TypeOK, Sound, DragFollows, Grabs
<1>2. x \in Nat /\ y \in Nat /\ mouse' \in [x : XPos, y : YPos] /\ mouse'.x = x /\ mouse'.y = y
  <2>1. XPos \subseteq Nat /\ YPos \subseteq Nat
    BY ScreenAssumption DEF XPos, YPos
  <2> QED BY <2>1
<1>3. PICK cx, cy : cx = Clamp(x, Width) /\ cy = Clamp(y, Height)
  OBVIOUS
<1>4. PICK d : /\ Sound(d) /\ Grabs(d)
               /\ \A j \in Slot : desk.win[j].used => Place(d.win[j]) = Place(desk.win[j])
               /\ d.prevBtn = desk.prevBtn
               /\ desk' = HandleMouse(d, x, y, left)
               /\ d = desk \/ Icons(x, y) # {}
  <2>1. CASE desk' = HandleMouse(desk, x, y, left)
    BY <1>1, <2>1
  <2>2. CASE /\ left /\ ~prevLeft
             /\ \E i \in Icons(x, y) : desk' = HandleMouse(CreateWindow(desk, Dock[i].opens), x, y, left)
    <3>1. PICK i \in Icons(x, y) : desk' = HandleMouse(CreateWindow(desk, Dock[i].opens), x, y, left)
      BY <2>2
    <3>2. Dock[i].opens \in Opens
      BY DEF Icons, Opens
    <3>3. PICK d : d = CreateWindow(desk, Dock[i].opens)
      OBVIOUS
    <3>4. /\ Sound(d) /\ d.dragging = desk.dragging /\ d.prevBtn = desk.prevBtn
          /\ \A j \in Slot : desk.win[j].used => Place(d.win[j]) = Place(desk.win[j])
      BY <1>1, <3>2, <3>3, Created
    <3>5. Grabs(d)
      BY <1>1, <2>2, <3>4 DEF Grabs
    <3> QED BY <3>1, <3>3, <3>4, <3>5
  <2> QED BY <2>1, <2>2 DEF DesktopMouse
<1>5. /\ Sound(desk') /\ Grabs(desk') /\ desk'.prevBtn = left
      /\ Follows(desk', cx, cy)
      /\ \A j \in Slot : d.win[j].used /\ desk'.win[j].used /\ Place(d.win[j]) # Place(desk'.win[j])
                           => desk'.dragging /\ left /\ desk'.active = j
      /\ \A j \in Slot : d.win[j].used /\ ~desk'.win[j].used
                           => /\ left /\ ~d.prevBtn /\ j = PickWindowAt(d, cx, cy)
                              /\ PointIn(cx, cy, CloseButton(d.win[j]))
  BY <1>2, <1>3, <1>4, Handled
<1>6. IInv'
  <2>1. ui = "DESKTOP" /\ prevLeft' = left /\ UNCHANGED <<ui, pass, keys, loginPrev>>
    BY DEF DesktopMouse
  <2>2. TypeOK'
    BY <1>2, <1>5, <2>1 DEF IInv, TypeOK, Sound
  <2>3. DragFollows'
    BY <1>2, <1>3, <1>5, <2>1 DEF DragFollows, Grabs, Follows, Held
  <2> QED BY <1>5, <2>1, <2>2, <2>3 DEF IInv, Sound, Marked
<1>7. Moves
  <2> SUFFICES ASSUME NEW j \in Slot, desk.win[j].used, desk'.win[j].used,
                      <<desk.win[j].x, desk.win[j].y>> # <<desk'.win[j].x, desk'.win[j].y>>
               PROVE  desk'.dragging /\ prevLeft' /\ desk'.active = j
    BY DEF Moves
  <2>1. Place(d.win[j]) = Place(desk.win[j]) /\ Place(desk.win[j]) # Place(desk'.win[j])
    BY <1>4 DEF Place
  <2>2. d.win[j].used
    BY <2>1 DEF Place
  <2> QED BY <1>5, <2>1, <2>2 DEF DesktopMouse
<1>8. Closes
  <2> SUFFICES ASSUME NEW j \in Slot, desk.win[j].used, ~desk'.win[j].used
               PROVE  /\ prevLeft' /\ ~prevLeft
                      /\ PointIn(cx, cy, CloseButton(desk.win[j]))
                      /\ SeenAt(cx, cy) = j \/ Icons(x, y) # {}
    BY <1>2, <1>3 DEF Closes
  <2>1. Place(d.win[j]) = Place(desk.win[j])
    BY <1>4
  <2>2. d.win[j].used /\ CloseButton(d.win[j]) = CloseButton(desk.win[j])
    BY <2>1 DEF Place, CloseButton
  <2>3. /\ left /\ ~d.prevBtn /\ j = PickWindowAt(d, cx, cy)
        /\ PointIn(cx, cy, CloseButton(d.win[j]))
    BY <1>5, <2>2
  <2>4. d = desk => SeenAt(cx, cy) = j
    BY <1>1, <2>3, PicksSeen DEF Sound
  <2> QED BY <1>1, <1>4, <2>2, <2>3, <2>4 DEF DesktopMouse
<1> QED BY <1>6, <1>7, <1>8

(* A key or a click that may try the password. *)
LEMMA AttemptStep ==
  ASSUME IInv, ui = "LOGIN", Attempt, UNCHANGED prevLeft
  PROVE  /\ pass' \in Seq(Printable) /\ Len(pass') <= PassMax /\ keys' = << >>
         /\ ui' \in {"LOGIN", "DESKTOP"} /\ desk' \in Desk /\ Marked(desk')
         /\ desk'.prevBtn = desk.prevBtn /\ ~desk'.dragging
         /\ Moves /\ Closes
<1>1. Sound(desk) /\ ~desk.dragging
  BY DEF IInv, TypeOK, Sound
<1>2. CASE Authenticated /\ EnterDesktop
  <2>1. /\ Sound(desk')
        /\ \A j \in Slot : desk.win[j].used => Place(desk'.win[j]) = Place(desk.win[j])
        /\ desk'.dragging = desk.dragging /\ desk'.prevBtn = desk.prevBtn
    BY <1>1, <1>2, Started
  <2>2. \A j \in Slot : desk.win[j].used =>
          /\ desk'.win[j].used /\ <<desk.win[j].x, desk.win[j].y>> = <<desk'.win[j].x, desk'.win[j].y>>
    BY <2>1 DEF Place
  <2>3. Moves /\ Closes
    BY <2>2 DEF Moves, Closes
  <2>4. ui' = "DESKTOP" /\ keys' = << >> /\ pass' = pass
    BY <1>2 DEF EnterDesktop
  <2> QED BY <1>1, <2>1, <2>3, <2>4 DEF IInv, TypeOK, Sound
<1>3. CASE Fail
  <2>1. pass' = << >> /\ keys' = << >> /\ UNCHANGED <<ui, desk>>
    BY <1>3 DEF Fail
  <2>2. Moves /\ Closes
    BY <2>1 DEF Moves, Closes
  <2>3. pass' \in Seq(Printable) /\ Len(pass') = 0 /\ 0 <= PassMax
    BY <2>1, ScreenAssumption
  <2> QED BY <1>1, <2>1, <2>2, <2>3 DEF IInv, TypeOK, Sound
<1> QED BY <1>2, <1>3 DEF Attempt

(* A key in the field leaves at most PassMax characters. *)
LEMMA Typed ==
  ASSUME TypeOK, NEW key \in Printable \cup Other \cup {Enter, Backspace}, Type(key)
  PROVE  pass' \in Seq(Printable) /\ Len(pass') <= PassMax
<1>1. pass \in Seq(Printable) /\ Len(pass) \in Nat /\ Len(pass) <= PassMax /\ PassMax \in Nat
  BY ScreenAssumption DEF TypeOK
<1>2. CASE key = Backspace /\ pass # << >>
  <2>1. pass' = SubSeq(pass, 1, Len(pass) - 1)
    BY <1>2 DEF Type, Front
  <2>2. PICK m \in Nat : m = Len(pass) - 1
    BY <1>1, <1>2
  <2>3. \A i \in 1 .. m : pass[i] \in Printable
    BY <1>1, <2>2
  <2>4. pass' \in Seq(Printable) /\ Len(pass') = m
    <3>1. pass' = SubSeq(pass, 1, m)
      BY <2>1, <2>2
    <3>2. SubSeq(pass, 1, m) \in Seq(Printable) /\ Len(SubSeq(pass, 1, m)) = IF 1 <= m THEN m - 1 + 1 ELSE 0
      BY <2>3, SubSeqProperties
    <3>3. (IF 1 <= m THEN m - 1 + 1 ELSE 0) = m
      OBVIOUS
    <3> QED BY <3>1, <3>2, <3>3
  <2> QED BY <1>1, <2>2, <2>4
<1>3. CASE key \in Printable /\ Len(pass) < PassMax /\ key # Backspace
  <2>1. pass' = Append(pass, key)
    BY <1>3 DEF Type
  <2> QED BY <1>1, <1>3, <2>1
<1>4. CASE pass' = pass
  BY <1>1, <1>4
<1> QED BY <1>2, <1>3, <1>4 DEF Type

LEMMA LoginStep ==
  ASSUME IInv,
         \/ \E key \in Printable \cup Other \cup {Enter, Backspace} : LoginKey(key)
         \/ \E x \in XPos, y \in YPos, left \in BOOLEAN :
              mouse' = [x |-> x, y |-> y] /\ LoginMouse(x, y, left)
  PROVE  IInv' /\ Moves /\ Closes
<1>1. /\ ui = "LOGIN" /\ UNCHANGED prevLeft /\ Sound(desk) /\ ~desk.dragging /\ prevLeft = desk.prevBtn
      /\ mouse' \in [x : XPos, y : YPos] /\ loginPrev' \in BOOLEAN
  BY DEF LoginKey, LoginMouse, IInv, TypeOK, Sound
<1>2. CASE Attempt
  <2>1. /\ pass' \in Seq(Printable) /\ Len(pass') <= PassMax /\ keys' = << >>
        /\ ui' \in {"LOGIN", "DESKTOP"} /\ desk' \in Desk /\ Marked(desk')
        /\ desk'.prevBtn = desk.prevBtn /\ ~desk'.dragging
        /\ Moves /\ Closes
    BY <1>1, <1>2, AttemptStep
  <2>2. TypeOK'
    BY <1>1, <2>1 DEF IInv, TypeOK
  <2>3. Marked(desk)' /\ DragFollows'
    BY <2>1 DEF Marked, DragFollows
  <2> QED BY <1>1, <2>1, <2>2, <2>3 DEF IInv
<1>3. ASSUME UNCHANGED <<ui, desk>>, pass' \in Seq(Printable), Len(pass') <= PassMax,
             keys' \in Seq(Printable \cup Other \cup {Backspace})
      PROVE  IInv' /\ Moves /\ Closes
  <2>1. TypeOK'
    BY <1>1, <1>3 DEF IInv, TypeOK
  <2>2. DragFollows' /\ Marked(desk)'
    BY <1>1, <1>3 DEF DragFollows, Sound, Marked
  <2>3. Moves /\ Closes
    BY <1>3 DEF Moves, Closes
  <2> QED BY <1>1, <1>3, <2>1, <2>2, <2>3 DEF IInv
<1>4. CASE \E key \in Printable \cup Other \cup {Enter, Backspace} :
             key # Enter /\ LoginKey(key)
  <2>1. PICK key \in Printable \cup Other \cup {Enter, Backspace} : key # Enter /\ LoginKey(key)
    BY <1>4
  <2>2. Type(key) /\ keys' = Append(keys, key) /\ UNCHANGED <<ui, desk>>
    BY <2>1 DEF LoginKey
  <2>3. pass' \in Seq(Printable) /\ Len(pass') <= PassMax
    BY <2>2, Typed DEF IInv
  <2>4. keys' \in Seq(Printable \cup Other \cup {Backspace})
    BY <2>1, <2>2 DEF IInv, TypeOK
  <2> QED BY <1>3, <2>2, <2>3, <2>4
<1>5. CASE UNCHANGED <<ui, pass, keys, desk>>
  BY <1>3, <1>5 DEF IInv, TypeOK
<1> QED BY <1>2, <1>4, <1>5 DEF LoginKey, LoginMouse

-----------------------------------------------------------------------------
(* What was typed.                                                         *)

KeyTyped == Printable \cup Other \cup {Backspace}
Texts(f, typed) == \A i \in 0 .. Len(typed) : f[i] = IF i = 0 THEN << >> ELSE Stroke(f[i - 1], typed[i])

(* A key takes at most the last character, or adds itself. *)
LEMMA StrokeFacts ==
  ASSUME NEW text \in Seq(Printable), NEW key
  PROVE  /\ Stroke(text, key) \in Seq(Printable)
         /\ key = Backspace => Stroke(text, key) = IF text = << >> THEN text ELSE Front(text)
         /\ key # Backspace /\ key \in Printable /\ Len(text) <= PassMax =>
              Stroke(text, key) = IF Len(text) < PassMax THEN Append(text, key) ELSE text
<1>1. PassMax \in Nat /\ Len(text) \in Nat /\ \A i \in 1 .. Len(text) : text[i] \in Printable
  BY ScreenAssumption
<1>2. CASE key = Backspace
  <2>1. Stroke(text, key) = SubSeq(text, 1, Len(text) - 1)
    BY <1>2 DEF Stroke
  <2>2. \A i \in 1 .. Len(text) - 1 : text[i] \in Printable
    BY <1>1
  <2>3. SubSeq(text, 1, Len(text) - 1) \in Seq(Printable)
    BY <1>1, <2>2, SubSeqProperties
  <2>4. text = << >> => SubSeq(text, 1, Len(text) - 1) = text
    <3> SUFFICES ASSUME text = << >> PROVE SubSeq(text, 1, Len(text) - 1) = << >>
      OBVIOUS
    <3>1. Len(text) - 1 < 1 /\ Len(text) - 1 \in Int
      OBVIOUS
    <3> QED BY <3>1, SubSeqEmpty
  <2> QED BY <1>2, <2>1, <2>3, <2>4 DEF Front
<1>3. CASE key # Backspace /\ key \in Printable
  <2> DEFINE longer == Append(text, key)
             room == Min({Len(text) + 1, PassMax})
  <2>1. Stroke(text, key) = SubSeq(longer, 1, room)
    BY <1>3 DEF Stroke
  <2>2. longer \in Seq(Printable) /\ Len(longer) = Len(text) + 1
        /\ \A i \in 1 .. Len(text) : longer[i] = text[i]
    BY <1>1, <1>3
  <2>3. room = IF Len(text) < PassMax THEN Len(text) + 1 ELSE PassMax
    <3>1. PICK a \in Int : a = Len(text) + 1
      BY <1>1
    <3>2. Min({a, PassMax}) = IF a <= PassMax THEN a ELSE PassMax
      <4>1. PassMax \in Int
        BY <1>1
      <4> QED BY <3>1, <4>1, OfTwo, Zenon
    <3> QED BY <1>1, <3>1, <3>2
  <2> HIDE DEF longer, room
  <2>4. room \in Nat /\ room <= Len(text) + 1
    BY <1>1, <2>3
  <2>5. \A i \in 1 .. room : longer[i] \in Printable
    BY <1>1, <2>2, <2>4
  <2>6. /\ SubSeq(longer, 1, room) \in Seq(Printable)
        /\ Len(SubSeq(longer, 1, room)) = IF 1 <= room THEN room - 1 + 1 ELSE 0
        /\ \A i \in 1 .. room - 1 + 1 : SubSeq(longer, 1, room)[i] = longer[1 + i - 1]
    BY <2>4, <2>5, SubSeqProperties
  <2>7. PICK cut : cut = SubSeq(longer, 1, room)
    OBVIOUS
  <2>8. cut \in Seq(Printable) /\ Len(cut) = room /\ \A i \in 1 .. room : cut[i] = longer[i]
    BY <2>4, <2>6, <2>7
  <2>9. Len(text) < PassMax => cut = longer
    <3> SUFFICES ASSUME Len(text) < PassMax PROVE cut = longer
      OBVIOUS
    <3>1. Len(cut) = Len(longer) /\ \A i \in 1 .. Len(cut) : cut[i] = longer[i]
      BY <2>2, <2>3, <2>8
    <3> QED BY <2>2, <2>8, <3>1, SeqEqual
  <2>10. Len(text) = PassMax => cut = text
    <3> SUFFICES ASSUME Len(text) = PassMax PROVE cut = text
      OBVIOUS
    <3>1. Len(cut) = Len(text) /\ \A i \in 1 .. Len(cut) : cut[i] = text[i]
      BY <1>1, <2>2, <2>3, <2>8
    <3> QED BY <2>8, <3>1, SeqEqual
  <2>11. Len(text) <= PassMax => cut = IF Len(text) < PassMax THEN longer ELSE text
    BY <1>1, <2>9, <2>10
  <2>12. Stroke(text, key) = cut
    BY <2>1, <2>7
  <2> QED BY <1>3, <2>8, <2>11, <2>12 DEF longer
<1> QED BY <1>1, <1>2, <1>3 DEF Stroke

(* The texts after each key, of which Edited is the last. *)
LEMMA EditedText ==
  ASSUME NEW typed \in Seq(KeyTyped)
  PROVE  \E f \in [0 .. Len(typed) -> Seq(Printable)] : Texts(f, typed) /\ Edited(typed) = f[Len(typed)]
<1> DEFINE n == Len(typed)
           R(f) == f = [i \in 0 .. n |-> IF i = 0 THEN << >> ELSE Stroke(f[i - 1], typed[i])]
           text == CHOOSE f : R(f)
           G == [x \in (0 .. n) \X Seq(Printable) |-> Stroke(x[2], typed[x[1]])]
<1>1. n \in Nat /\ Edited(typed) = text[n]
  BY DEF Edited
<1>2. G \in [(0 .. n) \X Seq(Printable) -> Seq(Printable)]
  BY StrokeFacts
<1>3. \A i \in 0 .. n, s \in Seq(Printable) : G[<<i, s>>] = Stroke(s, typed[i])
  OBVIOUS
<1> HIDE DEF n, G
<1>4. PICK f \in [0 .. n -> Seq(Printable)] : Steps(f, 0, n, << >>, G)
  <2>1. n \in Int /\ 0 \in Int /\ << >> \in Seq(Printable)
    BY <1>1
  <2> QED BY <1>2, <2>1, Iteration, Zenon
<1>5. \A i \in 0 .. n : i # 0 => i - 1 \in 0 .. n
  BY <1>1
<1>6. \A i \in 0 .. n : f[i] = IF i = 0 THEN << >> ELSE Stroke(f[i - 1], typed[i])
  BY <1>3, <1>4, <1>5 DEF Steps
<1>7. f = [i \in 0 .. n |-> f[i]]
  BY <1>4
<1>8. R(f)
  BY <1>6, <1>7
<1>9. R(text)
  <2> HIDE DEF R
  <2> QED BY <1>8
<1> HIDE DEF text
<1>10. DOMAIN text = 0 .. n /\ \A i \in 0 .. n : text[i] = IF i = 0 THEN << >> ELSE Stroke(text[i - 1], typed[i])
  BY <1>9
<1>11. \A i \in 0 .. n : text[i] \in Seq(Printable)
  <2> DEFINE P == {i \in 0 .. n : text[i] \in Seq(Printable)}
  <2>1. 0 \in P
    <3>1. 0 \in 0 .. n /\ << >> \in Seq(Printable)
      BY <1>1
    <3> QED BY <1>10, <3>1
  <2>2. ASSUME NEW i \in 0 .. n - 1, i \in P PROVE i + 1 \in P
    <3>1. PICK k \in 0 .. n : k = i + 1
      BY <1>1
    <3>2. k # 0 /\ k - 1 = i /\ text[i] \in Seq(Printable)
      BY <2>2, <3>1
    <3>3. text[k] = Stroke(text[i], typed[k])
      BY <1>10, <3>2
    <3> QED BY <3>1, <3>2, <3>3, StrokeFacts
  <2>3. 0 .. n \subseteq P
    <3> HIDE DEF P
    <3>1. n \in Int /\ 0 \in Int
      BY <1>1
    <3> QED BY <2>1, <2>2, <3>1, Upwards
  <2> QED BY <2>3
<1>12. text \in [0 .. n -> Seq(Printable)]
  <2>1. text = [i \in 0 .. n |-> IF i = 0 THEN << >> ELSE Stroke(text[i - 1], typed[i])]
    BY <1>9
  <2>2. text = [i \in 0 .. n |-> text[i]]
    BY <1>10, <2>1
  <2> QED BY <1>11, <2>2
<1> QED BY <1>1, <1>10, <1>12 DEF Texts, n

(* One more key is one more stroke. *)
LEMMA EditedAppend ==
  ASSUME NEW typed \in Seq(KeyTyped), NEW key \in KeyTyped
  PROVE  Edited(Append(typed, key)) = Stroke(Edited(typed), key)
<1> DEFINE n == Len(typed)
           more == Append(typed, key)
<1>1. n \in Nat /\ more \in Seq(KeyTyped) /\ Len(more) = n + 1 /\ more[n + 1] = key
      /\ \A i \in 1 .. n : more[i] = typed[i]
  OBVIOUS
<1>2. PICK f \in [0 .. n -> Seq(Printable)] : Texts(f, typed) /\ Edited(typed) = f[n]
  BY EditedText
<1> HIDE DEF more
<1>3. PICK g \in [0 .. Len(more) -> Seq(Printable)] : Texts(g, more) /\ Edited(more) = g[Len(more)]
  BY <1>1, EditedText
<1> HIDE DEF n
<1>4. /\ \A i \in 0 .. n : f[i] = IF i = 0 THEN << >> ELSE Stroke(f[i - 1], typed[i])
      /\ \A i \in 0 .. n + 1 : g[i] = IF i = 0 THEN << >> ELSE Stroke(g[i - 1], more[i])
  BY <1>1, <1>2, <1>3 DEF Texts, n
<1> DEFINE P == {i \in 0 .. n : f[i] = g[i]}
<1>5. 0 \in P
  <2>1. 0 \in 0 .. n /\ 0 \in 0 .. n + 1
    BY <1>1
  <2> QED BY <1>4, <2>1
<1>6. ASSUME NEW i \in 0 .. n - 1, i \in P PROVE i + 1 \in P
  <2>1. PICK k \in 1 .. n : k = i + 1
    BY <1>1
  <2>2. k \in 0 .. n /\ k \in 0 .. n + 1 /\ k # 0 /\ k - 1 = i
    <3>1. n \in Nat
      BY <1>1
    <3> HIDE DEF P
    <3> QED BY <2>1, <3>1
  <2>3. f[k] = Stroke(f[i], typed[k]) /\ g[k] = Stroke(g[i], more[k]) /\ more[k] = typed[k]
    BY <1>1, <1>4, <2>1, <2>2
  <2>4. f[i] = g[i]
    BY <1>6
  <2> QED BY <2>1, <2>2, <2>3, <2>4
<1>7. 0 .. n \subseteq P
  <2> HIDE DEF P
  <2>1. n \in Int /\ 0 \in Int
    BY <1>1
  <2> QED BY <1>5, <1>6, <2>1, Upwards
<1>8. f[n] = g[n]
  BY <1>1, <1>7
<1>9. g[n + 1] = Stroke(g[n], more[n + 1])
  <2>1. n + 1 \in 0 .. n + 1 /\ n + 1 # 0 /\ n + 1 - 1 = n
    BY <1>1
  <2>2. PICK k \in Nat : k = n + 1
    BY <1>1
  <2>3. k \in 0 .. n + 1 /\ k # 0 /\ k - 1 = n
    <3>1. n \in Nat
      BY <1>1
    <3> HIDE DEF P
    <3> QED BY <2>2, <3>1
  <2>4. g[k] = Stroke(g[k - 1], more[k])
    <3> HIDE DEF P
    <3> QED BY <1>4, <2>3, Zenon
  <2> QED BY <2>2, <2>3, <2>4
<1> QED BY <1>1, <1>2, <1>3, <1>8, <1>9 DEF more, n

LEMMA EditedEmpty == Edited(<< >>) = << >>
<1>1. << >> \in Seq(KeyTyped) /\ Len(<< >>) = 0
  OBVIOUS
<1>2. PICK f \in [0 .. 0 -> Seq(Printable)] : Texts(f, << >>) /\ Edited(<< >>) = f[0]
  BY <1>1, EditedText
<1> QED BY <1>1, <1>2 DEF Texts

(* The field holds what is left of the keys since the last attempt, so that an attempt
   which succeeds has the password. *)
Typing == ui = "LOGIN" => pass = Edited(keys)
OpensOnPassword == ui # ui' => Edited(keys) = Password

LEMMA TypingStep == TypeOK /\ Typing /\ [Next]_vars => Typing' /\ OpensOnPassword
<1> SUFFICES ASSUME TypeOK, Typing, [Next]_vars PROVE Typing' /\ OpensOnPassword
  OBVIOUS
<1>1. pass \in Seq(Printable) /\ Len(pass) <= PassMax /\ keys \in Seq(KeyTyped)
  BY DEF TypeOK, KeyTyped
<1>2. CASE UNCHANGED <<ui, pass, keys>>
  BY <1>2 DEF Typing, OpensOnPassword
<1>3. CASE ui = "LOGIN" /\ Attempt
  <2>1. CASE Authenticated /\ EnterDesktop
    BY <1>3, <2>1 DEF Authenticated, EnterDesktop, Typing, OpensOnPassword
  <2>2. CASE Fail
    BY <2>2, EditedEmpty DEF Fail, Typing, OpensOnPassword
  <2> QED BY <1>3, <2>1, <2>2 DEF Attempt
<1>4. ASSUME NEW key \in Printable \cup Other \cup {Enter, Backspace}, LoginKey(key), key # Enter
      PROVE  Typing' /\ OpensOnPassword
  <2>1. ui = "LOGIN" /\ ui' = ui /\ Type(key) /\ keys' = Append(keys, key) /\ key \in KeyTyped
    BY <1>4 DEF LoginKey, KeyTyped
  <2>2. Edited(keys') = Stroke(pass, key)
    BY <1>1, <2>1, EditedAppend DEF Typing
  <2>3. pass' = Stroke(pass, key)
    <3>1. CASE key = Backspace
      BY <1>1, <2>1, <3>1, StrokeFacts DEF Type
    <3>2. CASE key # Backspace /\ key \in Printable
      BY <1>1, <2>1, <3>2, StrokeFacts DEF Type
    <3>3. CASE key # Backspace /\ key \notin Printable
      BY <2>1, <3>3 DEF Type, Stroke
    <3> QED BY <3>1, <3>2, <3>3
  <2> QED BY <2>1, <2>2, <2>3 DEF Typing, OpensOnPassword
<1>5. CASE \E key \in Printable \cup Other \cup {Enter, Backspace} : LoginKey(key)
  BY <1>3, <1>4, <1>5 DEF LoginKey
<1>6. ASSUME NEW x, NEW y, NEW left, MouseEvent(x, y, left)
      PROVE  Typing' /\ OpensOnPassword
  BY <1>2, <1>3, <1>6 DEF MouseEvent, LoginMouse, DesktopMouse
<1>7. CASE UNCHANGED vars
  BY <1>2, <1>7 DEF vars
<1> QED BY <1>5, <1>6, <1>7 DEF Next

-----------------------------------------------------------------------------
LEMMA Initially == Init => IInv
<1> SUFFICES ASSUME Init PROVE IInv
  OBVIOUS
<1>1. desk.active = 0 /\ ~desk.dragging /\ desk.prevBtn = FALSE /\ \A i \in Slot : desk.win[i] = Unused
  BY DEF Init
<1>2. desk \in Desk
  <2>1. Unused \in Window /\ 0 \in 0 .. MaxWindows
    BY Slots DEF Unused, Window
  <2> QED BY <2>1 DEF Init, Desk
<1>3. mouse \in [x : XPos, y : YPos]
  <2>1. 0 \in XPos /\ 0 \in YPos
    BY ScreenAssumption DEF XPos, YPos
  <2> QED BY <2>1 DEF Init
<1>4. TypeOK
  <2>1. pass \in Seq(Printable) /\ Len(pass) = 0 /\ 0 <= PassMax
    BY ScreenAssumption DEF Init
  <2>2. keys \in Seq(Printable \cup Other \cup {Backspace})
    BY DEF Init
  <2>3. ui \in {"LOGIN", "DESKTOP"} /\ loginPrev \in BOOLEAN /\ prevLeft \in BOOLEAN
    BY DEF Init
  <2> QED BY <1>2, <1>3, <2>1, <2>2, <2>3 DEF TypeOK
<1>5. Marked(desk) /\ DragFollows
  BY <1>1 DEF Marked, Unused, DragFollows
<1>6. prevLeft = desk.prevBtn
  BY <1>1 DEF Init
<1> QED BY <1>1, <1>4, <1>5, <1>6 DEF IInv

LEMMA Inductive == IInv /\ [Next]_vars => IInv' /\ (UNCHANGED vars \/ (Moves /\ Closes))
<1> SUFFICES ASSUME IInv, [Next]_vars PROVE IInv' /\ (UNCHANGED vars \/ (Moves /\ Closes))
  OBVIOUS
<1>1. CASE UNCHANGED vars
  BY <1>1 DEF vars, IInv, TypeOK, Marked, DragFollows
<1>2. CASE \/ \E key \in Printable \cup Other \cup {Enter, Backspace} : LoginKey(key)
           \/ \E x \in XPos, y \in YPos, left \in BOOLEAN :
                mouse' = [x |-> x, y |-> y] /\ LoginMouse(x, y, left)
  BY <1>2, LoginStep
<1>3. ASSUME NEW x \in XPos, NEW y \in YPos, NEW left \in BOOLEAN,
             mouse' = [x |-> x, y |-> y], DesktopMouse(x, y, left)
      PROVE  IInv' /\ Moves /\ Closes
  BY <1>3, DesktopStep
<1> QED BY <1>1, <1>2, <1>3 DEF Next, MouseEvent

(* The inductive invariant holds in every state, for every screen and every desktop. *)
THEOREM Invariance == Spec => []IInv
BY Initially, Inductive, PTL DEF Spec

(* Positions, slots, the field and what was typed stay what wm.c and login_screen.c
   have room for. *)
THEOREM TypeCorrect == Spec => []TypeOK
<1>1. IInv => TypeOK
  BY DEF IInv
<1> QED BY <1>1, Invariance, PTL

(* wm.c, wm_focus_window: the window with the active frame is g_active, and g_active
   is never a closed window. *)
THEOREM ActiveIsOne == Spec => []OneActive
<1>1. IInv => OneActive
  BY DEF IInv, Marked, OneActive
<1> QED BY <1>1, Invariance, PTL

(* wm.c, pick_window_at and wm_composite: a click goes to the window seen there. *)
THEOREM ClicksHitSeen == Spec => []ClickHitsSeen
<1>1. IInv => ClickHitsSeen
  BY PicksSeen DEF IInv, TypeOK, ClickHitsSeen
<1> QED BY <1>1, Invariance, PTL

(* wm.c, wm_handle_mouse: a dragged window stays under the pointer, and a drag ends
   with the button although three places keep the button's last state. *)
THEOREM DragsFollow == Spec => []DragFollows
<1>1. IInv => DragFollows
  BY DEF IInv
<1> QED BY <1>1, Invariance, PTL

(* wm.c, wm_handle_mouse: a window moves only when it is the one that is dragged. *)
THEOREM MovesByDrag == Spec => OnlyDraggedMoves
<1>1. IInv /\ [Next]_vars => [Moves]_vars
  BY Inductive
<1> QED BY <1>1, Invariance, PTL DEF Spec, OnlyDraggedMoves, Moves

(* wm.c, wm_handle_mouse: a window closes only by a press on its close button, where
   that is seen or an icon of the dock lies. *)
THEOREM ClosesBySight == Spec => ClosedBySight
<1>1. IInv /\ [Next]_vars => [Closes]_vars
  BY Inductive
<1> QED BY <1>1, Invariance, PTL DEF Spec, ClosedBySight, Closes

(* login_screen.c, login_screen_handle_event: nothing of an earlier attempt counts for
   the one that opens the desktop. *)
THEOREM OpensToPassword == Spec => PasswordOpens
<1>1. Init => Typing
  BY EditedEmpty DEF Init, Typing
<1>2. TypeOK /\ Typing /\ [Next]_vars => Typing' /\ [OpensOnPassword]_vars
  BY TypingStep
<1> QED BY <1>1, <1>2, TypeCorrect, PTL DEF Spec, PasswordOpens, OpensOnPassword
=============================================================================
