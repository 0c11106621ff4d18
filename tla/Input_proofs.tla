----------------------------- MODULE Input_proofs -----------------------------
(***************************************************************************)
(* What the two drivers make of the bytes at their one port: proofs for    *)
(* every keyboard and mouse, every configuration the firmware leaves, and  *)
(* any number of keys, movements and lost bytes; then about the queue of   *)
(* events, into which both put what they made of them.                     *)
(***************************************************************************)
EXTENDS Input, EventQueue, ListLemmas

-----------------------------------------------------------------------------
(* The inductive invariant.                                                *)

(* what is ever on its way, and what a read may return *)
Answers == {Item("controller", b, 0, Still) : b \in Byte}
Keys == {Item("keyboard", b, 0, Still) : b \in Byte}
Parts == {Part(m, p) : m \in Moves, p \in 1 .. 3}
Items == Answers \cup Keys \cup Parts \cup {Acknowledge}
Seen == Items \cup {[Nothing EXCEPT !.byte = b] : b \in Byte}

Types ==
  /\ pending \in Seq(Items) /\ Len(pending) <= MaxPending + 2
  /\ last \in Byte /\ config \in Byte
  /\ irq \subseteq {Keyboard, Mouse}
  /\ boot \in Boot /\ mouse \in BOOLEAN
  /\ packet \in Seq(Seen) /\ Len(packet) <= 2
  /\ report \in [dx : Delta, dy : Delta, buttons : 0 .. 7, sent : Seq(Seen)]
  /\ line \in Seq(Mapped \ {Enter, Backspace}) /\ Len(line) <= LineMax
  /\ misread \in BOOLEAN /\ left \in BOOLEAN /\ mixed \in BOOLEAN /\ upset \in BOOLEAN

(* The steps of the boot take as many bytes as they send. *)
Roomy ==
  /\ boot \in {"config", "ack defaults"} => Len(pending) <= MaxPending + 1
  /\ boot \in {"flush", "ask", "configure", "defaults", "stream"} => Len(pending) <= MaxPending

(* The controller answers once, to the command that asks, and the answer is read
   right away unless another byte was taken for it. *)
Answered ==
  /\ boot \in {"flush", "ask"} => \A i \in DOMAIN pending : pending[i].from # "controller"
  /\ boot \in {"flush", "ask", "config"} => ~misread
  /\ boot = "config" => \A i, j \in DOMAIN pending :
       pending[i].from = "controller" /\ pending[j].from = "controller" => i = j
  /\ boot \notin {"flush", "ask", "config"} /\ ~misread =>
       \A i \in DOMAIN pending : pending[i].from # "controller"

(* Once interrupts are enabled, a request is that of the byte at the port. *)
Requested ==
  /\ boot # "run" => ~mixed
  /\ boot = "run" /\ ~left => irq \subseteq Request(pending, config)

(* Until the mouse is told to send, it sends acknowledgements only, and the handlers
   do not run before the boot's end. *)
Quiet == /\ boot # "run" => packet = << >>
         /\ boot \notin {"ack stream", "mount", "run"} => \A i \in DOMAIN pending : pending[i].part = 0

(* the first byte of the mouse in w, two successive ones, and the last *)
IsFirst(w, i) == w[i].from = "mouse" /\ \A j \in 1 .. i - 1 : w[j].from # "mouse"
Succeed(w, i, j) == /\ i < j /\ w[i].from = "mouse" /\ w[j].from = "mouse"
                    /\ \A k \in i + 1 .. j - 1 : w[k].from # "mouse"
IsLast(w, i) == w[i].from = "mouse" /\ \A j \in i + 1 .. Len(w) : w[j].from # "mouse"

(* byte b of the mouse may follow byte a; it may come when the driver has p *)
Begins(b) == b.part \in {0, 1}
Continues(a, b) == IF a.part \in {1, 2} THEN b.part = a.part + 1 /\ b.move = a.move ELSE Begins(b)
Ends(a) == a.part \in {0, 3}
Awaited(p, b) == IF p = << >> THEN Begins(b) ELSE Continues(p[Len(p)], b)

(* The mouse's bytes are whole packets, the first of which the driver has the beginning of. *)
Chain(w, p) ==
  /\ \A i \in DOMAIN w : IsFirst(w, i) => Awaited(p, w[i])
  /\ \A i, j \in DOMAIN w : Succeed(w, i, j) => Continues(w[i], w[j])
  /\ \A i \in DOMAIN w : IsLast(w, i) => Ends(w[i])
  /\ p # << >> => \E i \in DOMAIN w : w[i].from = "mouse"

Begun(p) == \A i \in DOMAIN p : p[i] \in Parts /\ p[i].part = i /\ p[i].move = p[1].move

Reported == report.sent # << >> =>
  \E m \in Moves : /\ report.sent = [i \in 1 .. 3 |-> Part(m, i)]
                   /\ m.dx \in Delta => report.dx = m.dx
                   /\ m.dy \in Delta => report.dy = m.dy
                   /\ report.buttons = m.buttons

Framed == ~upset => Chain(pending, packet) /\ Begun(packet) /\ Reported

IInv == Types /\ Roomy /\ Answered /\ Requested /\ OwnBytes /\ Quiet /\ Framed

-----------------------------------------------------------------------------
(* The order of the mouse's bytes.                                         *)

(* The first byte on its way is taken.  What comes next is awaited from then on. *)
LEMMA ChainTaken ==
  ASSUME NEW D, NEW w \in Seq(D), w # << >>, NEW p, NEW r, Chain(w, p),
         w[1].from # "mouse" => r = p,
         w[1].from = "mouse" => \A b : Continues(w[1], b) => Awaited(r, b),
         w[1].from = "mouse" /\ r # << >> => ~Ends(w[1])
  PROVE  Chain(Tail(w), r)
<1> DEFINE t == Tail(w)
<1>1. /\ Len(w) \in Nat \ {0} /\ DOMAIN w = 1 .. Len(w) /\ Len(t) = Len(w) - 1 /\ DOMAIN t = 1 .. Len(w) - 1
      /\ \A i \in 1 .. Len(w) - 1 : t[i] = w[i + 1] /\ i + 1 \in DOMAIN w
  OBVIOUS
<1> HIDE DEF t
<1>2. ASSUME NEW i \in DOMAIN t, IsFirst(t, i) PROVE Awaited(r, t[i])
  <2>1. i + 1 \in DOMAIN w /\ t[i] = w[i + 1] /\ w[i + 1].from = "mouse"
    BY <1>1, <1>2 DEF IsFirst
  <2>2. \A k \in 2 .. i : w[k].from # "mouse"
    <3> SUFFICES ASSUME NEW k \in 2 .. i PROVE w[k].from # "mouse"
      OBVIOUS
    <3>1. k - 1 \in 1 .. i - 1 /\ k - 1 \in 1 .. Len(w) - 1 /\ (k - 1) + 1 = k
      BY <1>1
    <3>2. t[k - 1] = w[k]
      BY <1>1, <3>1
    <3> QED BY <1>2, <3>1, <3>2 DEF IsFirst
  <2>3. CASE w[1].from = "mouse"
    <3>1. Succeed(w, 1, i + 1)
      BY <1>1, <2>1, <2>2, <2>3 DEF Succeed
    <3> QED BY <1>1, <2>1, <2>3, <3>1 DEF Chain
  <2>4. CASE w[1].from # "mouse"
    <3>1. IsFirst(w, i + 1)
      BY <1>1, <2>1, <2>2, <2>4 DEF IsFirst
    <3> QED BY <2>1, <2>4, <3>1 DEF Chain
  <2> QED BY <2>3, <2>4
<1>3. ASSUME NEW i \in DOMAIN t, NEW j \in DOMAIN t, Succeed(t, i, j) PROVE Continues(t[i], t[j])
  <2>1. /\ i + 1 \in DOMAIN w /\ t[i] = w[i + 1] /\ j + 1 \in DOMAIN w /\ t[j] = w[j + 1]
        /\ i + 1 < j + 1
    BY <1>1, <1>3 DEF Succeed
  <2>2. ASSUME NEW k \in (i + 1) + 1 .. (j + 1) - 1 PROVE w[k].from # "mouse"
    <3>1. k - 1 \in i + 1 .. j - 1 /\ k - 1 \in 1 .. Len(w) - 1 /\ (k - 1) + 1 = k
      BY <1>1
    <3>2. t[k - 1] = w[k]
      BY <1>1, <3>1
    <3> QED BY <1>3, <3>1, <3>2 DEF Succeed
  <2>3. Succeed(w, i + 1, j + 1)
    BY <1>3, <2>1, <2>2 DEF Succeed
  <2> QED BY <2>1, <2>3 DEF Chain
<1>4. ASSUME NEW i \in DOMAIN t, IsLast(t, i) PROVE Ends(t[i])
  <2>1. i + 1 \in DOMAIN w /\ t[i] = w[i + 1]
    BY <1>1
  <2>2. ASSUME NEW k \in (i + 1) + 1 .. Len(w) PROVE w[k].from # "mouse"
    <3>1. k - 1 \in i + 1 .. Len(t) /\ k - 1 \in 1 .. Len(w) - 1 /\ (k - 1) + 1 = k
      BY <1>1
    <3>2. t[k - 1] = w[k]
      BY <1>1, <3>1
    <3> QED BY <1>4, <3>1, <3>2 DEF IsLast
  <2>3. IsLast(w, i + 1)
    BY <1>4, <2>1, <2>2 DEF IsLast
  <2> QED BY <2>1, <2>3 DEF Chain
<1>5. ASSUME r # << >> PROVE \E i \in DOMAIN t : t[i].from = "mouse"
  <2>1. \E j \in DOMAIN w : j > 1 /\ w[j].from = "mouse"
    <3>1. CASE w[1].from = "mouse"
      <4>1. ~IsLast(w, 1) /\ 1 \in DOMAIN w
        BY <1>1, <1>5, <3>1 DEF Chain
      <4>2. \E j \in 1 + 1 .. Len(w) : w[j].from = "mouse"
        BY <3>1, <4>1 DEF IsLast
      <4> QED BY <1>1, <4>2
    <3>2. CASE w[1].from # "mouse"
      BY <1>1, <1>5, <3>2 DEF Chain
    <3> QED BY <3>1, <3>2
  <2>2. PICK j \in DOMAIN w : j > 1 /\ w[j].from = "mouse"
    BY <2>1
  <2>3. j - 1 \in DOMAIN t /\ (j - 1) + 1 = j
    BY <1>1, <2>2
  <2> QED BY <1>1, <2>2, <2>3
<1> QED BY <1>2, <1>3, <1>4, <1>5 DEF Chain, t

(* A byte that is not the mouse's comes in between. *)
LEMMA ChainInterrupted ==
  ASSUME NEW D, NEW w \in Seq(D), NEW t \in Seq(D), NEW n \in 1 .. Len(w) + 1, NEW p, Chain(w, p),
         Len(t) = Len(w) + 1,
         \A k \in 1 .. Len(w) : t[IF k < n THEN k ELSE k + 1] = w[k],
         t[n].from # "mouse"
  PROVE  Chain(t, p)
<1> DEFINE Up(k) == IF k < n THEN k ELSE k + 1
           Down(k) == IF k < n THEN k ELSE k - 1
<1>1. Len(w) \in Nat /\ DOMAIN w = 1 .. Len(w) /\ DOMAIN t = 1 .. Len(w) + 1 /\ Len(t) = Len(w) + 1
  OBVIOUS
<1>2. \A k \in DOMAIN w : Up(k) \in DOMAIN t /\ t[Up(k)] = w[k] /\ Up(k) # n
  BY <1>1
<1>3. \A k \in DOMAIN t : k # n => Down(k) \in DOMAIN w /\ Up(Down(k)) = k /\ t[k] = w[Down(k)]
  BY <1>1
<1>4. \A k \in DOMAIN t : t[k].from = "mouse" => Down(k) \in DOMAIN w /\ t[k] = w[Down(k)]
  BY <1>3
<1>5. ASSUME NEW i \in DOMAIN t, IsFirst(t, i) PROVE Awaited(p, t[i])
  <2>1. Down(i) \in DOMAIN w /\ t[i] = w[Down(i)] /\ w[Down(i)].from = "mouse" /\ i # n
    BY <1>4, <1>5 DEF IsFirst
  <2>2. ASSUME NEW j \in 1 .. Down(i) - 1 PROVE w[j].from # "mouse"
    <3>1. j \in DOMAIN w /\ Up(j) \in 1 .. i - 1
      BY <1>1, <2>1
    <3> QED BY <1>2, <1>5, <3>1 DEF IsFirst
  <2>3. IsFirst(w, Down(i))
    BY <2>1, <2>2 DEF IsFirst
  <2> QED BY <2>1, <2>3 DEF Chain
<1>6. ASSUME NEW i \in DOMAIN t, NEW j \in DOMAIN t, Succeed(t, i, j) PROVE Continues(t[i], t[j])
  <2>1. /\ Down(i) \in DOMAIN w /\ t[i] = w[Down(i)] /\ w[Down(i)].from = "mouse" /\ i # n
        /\ Down(j) \in DOMAIN w /\ t[j] = w[Down(j)] /\ w[Down(j)].from = "mouse" /\ j # n
    BY <1>4, <1>6 DEF Succeed
  <2>2. i < j /\ Down(i) < Down(j)
    BY <1>1, <1>6, <2>1 DEF Succeed
  <2>3. ASSUME NEW k \in Down(i) + 1 .. Down(j) - 1 PROVE w[k].from # "mouse"
    <3>1. k \in DOMAIN w /\ Up(k) \in i + 1 .. j - 1
      BY <1>1, <2>1, <2>2
    <3> QED BY <1>2, <1>6, <3>1 DEF Succeed
  <2>4. Succeed(w, Down(i), Down(j))
    BY <2>1, <2>2, <2>3 DEF Succeed
  <2> QED BY <2>1, <2>4 DEF Chain
<1>7. ASSUME NEW i \in DOMAIN t, IsLast(t, i) PROVE Ends(t[i])
  <2>1. Down(i) \in DOMAIN w /\ t[i] = w[Down(i)] /\ w[Down(i)].from = "mouse" /\ i # n
    BY <1>4, <1>7 DEF IsLast
  <2>2. ASSUME NEW j \in Down(i) + 1 .. Len(w) PROVE w[j].from # "mouse"
    <3>1. j \in DOMAIN w /\ Up(j) \in i + 1 .. Len(t)
      BY <1>1, <2>1
    <3> QED BY <1>2, <1>7, <3>1 DEF IsLast
  <2>3. IsLast(w, Down(i))
    BY <2>1, <2>2 DEF IsLast
  <2> QED BY <2>1, <2>3 DEF Chain
<1>8. ASSUME p # << >> PROVE \E i \in DOMAIN t : t[i].from = "mouse"
  BY <1>2, <1>8 DEF Chain
<1> QED BY <1>5, <1>6, <1>7, <1>8 DEF Chain

(* The mouse sends something whole. *)
LEMMA ChainExtended ==
  ASSUME NEW D, NEW w \in Seq(D), NEW s \in Seq(D), NEW p, Chain(w, p),
         s # << >>, \A i \in DOMAIN s : s[i].from = "mouse",
         Begins(s[1]), \A i \in 1 .. Len(s) - 1 : Continues(s[i], s[i + 1]), Ends(s[Len(s)])
  PROVE  Chain(w \o s, p)
<1> DEFINE t == w \o s
<1>1. /\ Len(w) \in Nat /\ Len(s) \in Nat \ {0} /\ DOMAIN w = 1 .. Len(w) /\ DOMAIN s = 1 .. Len(s)
      /\ Len(t) = Len(w) + Len(s) /\ DOMAIN t = 1 .. Len(w) + Len(s)
      /\ \A i \in 1 .. Len(w) : t[i] = w[i]
      /\ \A i \in 1 .. Len(w) + Len(s) : i > Len(w) => t[i] = s[i - Len(w)]
  OBVIOUS
<1> HIDE DEF t
<1>2. \A i \in DOMAIN t : i > Len(w) => i - Len(w) \in DOMAIN s /\ t[i].from = "mouse"
  BY <1>1
<1>3. \A a, b : Ends(a) /\ Begins(b) => Continues(a, b)
  BY DEF Ends, Continues
<1>4. Len(w) + 1 \in DOMAIN t /\ t[Len(w) + 1] = s[1]
  BY <1>1
<1>5. ASSUME NEW i \in DOMAIN t, IsFirst(t, i) PROVE Awaited(p, t[i])
  <2>1. CASE i <= Len(w)
    <3>1. IsFirst(w, i)
      BY <1>1, <1>5, <2>1 DEF IsFirst
    <3> QED BY <1>1, <2>1, <3>1 DEF Chain
  <2>2. CASE i > Len(w)
    <3>0. i \in Nat
      BY <1>1
    <3>1. i = Len(w) + 1
      <4>1. Len(w) + 1 \in 1 .. i - 1 => FALSE
        BY <1>1, <1>2, <1>4, <1>5 DEF IsFirst
      <4>2. Len(w) \in Nat
        OBVIOUS
      <4> QED BY <2>2, <3>0, <4>1, <4>2
    <3>2. \A j \in DOMAIN w : w[j].from # "mouse"
      BY <1>1, <1>5, <3>1 DEF IsFirst
    <3>3. p = << >>
      BY <3>2 DEF Chain
    <3> QED BY <1>4, <3>1, <3>3 DEF Awaited
  <2> QED BY <1>1, <2>1, <2>2
<1>6. ASSUME NEW i \in DOMAIN t, NEW j \in DOMAIN t, Succeed(t, i, j) PROVE Continues(t[i], t[j])
  <2>0. i < j /\ i \in Nat /\ j \in Nat /\ j <= Len(w) + Len(s)
    BY <1>1, <1>6 DEF Succeed
  <2>1. CASE j <= Len(w)
    <3>1. Succeed(w, i, j) /\ i \in DOMAIN w /\ j \in DOMAIN w
      BY <1>1, <1>6, <2>0, <2>1 DEF Succeed
    <3> QED BY <1>1, <2>1, <3>1 DEF Chain
  <2>2. CASE i <= Len(w) /\ j > Len(w)
    <3>1. j = Len(w) + 1
      <4>1. Len(w) + 1 \in i + 1 .. j - 1 => FALSE
        BY <1>1, <1>2, <1>4, <1>6 DEF Succeed
      <4>2. Len(w) \in Nat
        OBVIOUS
      <4> QED BY <2>0, <2>2, <4>1, <4>2
    <3>2. IsLast(w, i) /\ i \in DOMAIN w
      BY <1>1, <1>6, <2>0, <2>2, <3>1 DEF Succeed, IsLast
    <3>3. Ends(w[i]) /\ t[i] = w[i]
      BY <1>1, <3>2 DEF Chain
    <3> QED BY <1>3, <1>4, <3>1, <3>3
  <2>3. CASE i > Len(w)
    <3>1. j = i + 1
      <4>1. i + 1 \in i + 1 .. j - 1 => FALSE
        <5> SUFFICES ASSUME i + 1 \in i + 1 .. j - 1 PROVE FALSE
          OBVIOUS
        <5>1. i + 1 \in DOMAIN t /\ i + 1 > Len(w)
          BY <1>1, <2>0, <2>3
        <5> QED BY <1>2, <1>6, <5>1 DEF Succeed
      <4> QED BY <2>0, <4>1
    <3>2. PICK k : k = i - Len(w)
      OBVIOUS
    <3>3. k \in 1 .. Len(s) - 1 /\ t[i] = s[k] /\ t[j] = s[k + 1]
      BY <1>1, <2>0, <2>3, <3>1, <3>2
    <3> QED BY <3>3
  <2> QED BY <1>1, <2>0, <2>1, <2>2, <2>3
<1>7. ASSUME NEW i \in DOMAIN t, IsLast(t, i) PROVE Ends(t[i])
  <2>1. Len(t) \in DOMAIN t /\ Len(t) > Len(w)
    BY <1>1
  <2>2. i = Len(t)
    <3>1. ~(i < Len(t))
      BY <1>1, <1>2, <1>7, <2>1 DEF IsLast
    <3>2. i \in Nat /\ i <= Len(t) /\ Len(t) \in Nat
      BY <1>1
    <3> QED BY <3>1, <3>2
  <2>3. t[i] = s[Len(s)]
    BY <1>1, <2>1, <2>2
  <2> QED BY <2>3
<1>8. \E i \in DOMAIN t : t[i].from = "mouse"
  BY <1>2, <1>4, <1>1
<1> QED BY <1>5, <1>6, <1>7, <1>8 DEF Chain, t

-----------------------------------------------------------------------------
(* Bytes.                                                                  *)

(* What the mouse sends are bytes, and the driver understands what they say. *)
LEMMA PartFacts ==
  ASSUME NEW m \in Moves, NEW n \in 1 .. 3
  PROVE  /\ Part(m, n).from = "mouse" /\ Part(m, n).byte = PartByte(m, n)
         /\ Part(m, n).part = n /\ Part(m, n).move = m
         /\ PartByte(m, n) \in Byte
<1>1. m.dx \in -256 .. 255 /\ m.dy \in -256 .. 255 /\ m.buttons \in 0 .. 7
  BY InputAssumption
<1>2. PICK dx, dy, buttons : dx = m.dx /\ dy = m.dy /\ buttons = m.buttons
  OBVIOUS
<1>3. dx % 256 \in 0 .. 255 /\ dy % 256 \in 0 .. 255
  <2>1. \A d \in Int : d % 256 \in 0 .. 255
    OBVIOUS
  <2>2. dx \in Int /\ dy \in Int
    BY <1>1, <1>2
  <2> QED BY <2>1, <2>2
<1>4. PartByte(m, n) \in Byte
  <2>1. CASE n = 1
    BY <1>1, <2>1 DEF PartByte, Byte
  <2>2. CASE n = 2
    BY <1>2, <1>3, <2>2 DEF PartByte, Byte
  <2>3. CASE n = 3
    BY <1>2, <1>3, <2>3 DEF PartByte, Byte
  <2> QED BY <2>1, <2>2, <2>3
<1> QED BY <1>4 DEF Part, Item

LEMMA Understood ==
  ASSUME NEW m \in Moves
  PROVE  /\ Bit(PartByte(m, 1), 8) /\ PartByte(m, 1) % 8 = m.buttons
         /\ m.dx \in Delta => Signed(PartByte(m, 2)) = m.dx
         /\ m.dy \in Delta => Signed(PartByte(m, 3)) = m.dy
<1>1. m.dx \in -256 .. 255 /\ m.dy \in -256 .. 255 /\ m.buttons \in 0 .. 7
  BY InputAssumption
<1>2. Bit(PartByte(m, 1), 8) /\ PartByte(m, 1) % 8 = m.buttons
  <2>1. PICK buttons \in 0 .. 7 : buttons = m.buttons
    BY <1>1
  <2>2. PartByte(m, 1) \in {8 + buttons, 8 + buttons + 16, 8 + buttons + 32, 8 + buttons + 16 + 32}
    BY <2>1 DEF PartByte
  <2>3. \A x \in {8 + buttons, 8 + buttons + 16, 8 + buttons + 32, 8 + buttons + 16 + 32} :
          (x \div 8) % 2 = 1 /\ x % 8 = buttons
    BY <2>1
  <2> QED BY <2>1, <2>2, <2>3 DEF Bit
<1>3. ASSUME NEW d \in Delta PROVE Signed(d % 256) = d
  <2>1. CASE d >= 0
    <3>1. d \in 0 .. 127
      BY <1>3, <2>1 DEF Delta
    <3>2. d % 256 = d /\ (d \div 128) % 2 = 0
      BY <3>1
    <3> QED BY <3>1, <3>2 DEF Signed, Bit
  <2>2. CASE d < 0
    <3>1. d \in -128 .. -1
      BY <1>3, <2>2 DEF Delta
    <3>2. d % 256 = d + 256 /\ ((d + 256) \div 128) % 2 = 1
      BY <3>1
    <3> QED BY <3>1, <3>2 DEF Signed, Bit
  <2> QED BY <1>3, <2>1, <2>2 DEF Delta
<1>4. PartByte(m, 2) = m.dx % 256 /\ PartByte(m, 3) = m.dy % 256
  BY DEF PartByte
<1> QED BY <1>2, <1>3, <1>4

(* A byte with a sign is a movement of the report's width. *)
LEMMA SignedDelta ==
  ASSUME NEW b \in Byte
  PROVE  Signed(b) \in Delta
<1>1. CASE b < 128
  <2>1. (b \div 128) % 2 = 0
    BY <1>1 DEF Byte
  <2> QED BY <1>1, <2>1 DEF Signed, Bit, Byte, Delta
<1>2. CASE b >= 128
  <2>1. (b \div 128) % 2 = 1
    BY <1>2 DEF Byte
  <2> QED BY <1>2, <2>1 DEF Signed, Bit, Byte, Delta
<1> QED BY <1>1, <1>2 DEF Byte

(* The configuration stays a byte. *)
LEMMA ConfigBytes ==
  ASSUME NEW b \in Byte
  PROVE  /\ Bit(b, 32) => b - 32 \in Byte
         /\ WithMouse(b) \in Byte
<1>1. ASSUME b < 32 PROVE ~Bit(b, 32)
  <2>1. (b \div 32) % 2 = 0
    BY <1>1 DEF Byte
  <2> QED BY <2>1 DEF Bit
<1>2. ASSUME b >= 254 PROVE Bit(b, 2)
  <2>1. b = 254 \/ b = 255
    BY <1>2 DEF Byte
  <2>2. (b \div 2) % 2 = 1
    BY <2>1
  <2> QED BY <2>2 DEF Bit
<1> QED BY <1>1, <1>2 DEF WithMouse, Byte

(* What is read is a byte, and of a packet only when the mouse sent it. *)
LEMMA ItemFacts ==
  ASSUME NEW x \in Seen
  PROVE  /\ x.byte \in Byte /\ x.part \in 0 .. 3
         /\ x.from \in {"controller", "keyboard", "mouse", "nobody"}
         /\ x.part > 0 => x \in Parts /\ x.from = "mouse" /\ x = Part(x.move, x.part) /\ x.move \in Moves
         /\ x \in Items => x.from # "nobody"
<1>1. CASE x \in Parts
  <2>1. PICK m \in Moves, n \in 1 .. 3 : x = Part(m, n)
    BY <1>1 DEF Parts
  <2> QED BY <1>1, <2>1, PartFacts
<1>2. CASE x \in Answers
  BY <1>2 DEF Answers, Item
<1>3. CASE x \in Keys
  BY <1>3 DEF Keys, Item
<1>4. CASE x = Acknowledge
  BY <1>4 DEF Acknowledge, Item, Byte
<1>5. CASE \E b \in Byte : x = [Nothing EXCEPT !.byte = b]
  <2>1. PICK b \in Byte : x = [Nothing EXCEPT !.byte = b]
    BY <1>5
  <2>2. x.from = "nobody" /\ x.part = 0 /\ x.byte = b
    BY <2>1 DEF Nothing, Item
  <2>3. x \notin Items
    <3>1. \A y \in Answers \cup Keys \cup {Acknowledge} : y.from # "nobody"
      BY DEF Answers, Keys, Acknowledge, Item
    <3>2. \A y \in Parts : y.from # "nobody"
      BY PartFacts DEF Parts
    <3> QED BY <2>2, <3>1, <3>2 DEF Items
  <2> QED BY <2>1, <2>2, <2>3
<1>6. x \in Items => x.from # "nobody"
  BY <1>1, <1>2, <1>3, <1>4, PartFacts DEF Items, Answers, Keys, Parts, Acknowledge, Item
<1> QED BY <1>1, <1>2, <1>3, <1>4, <1>5, <1>6 DEF Seen, Items

-----------------------------------------------------------------------------
(* The port.                                                               *)

LEMMA Lengths ==
  ASSUME NEW D, NEW s \in Seq(D)
  PROVE  /\ Len(s) \in Nat /\ DOMAIN s = 1 .. Len(s)
         /\ s # << >> => Len(s) \in Nat \ {0}
         /\ \A i \in DOMAIN s : s[i] \in D
OBVIOUS

(* inb(0x60) takes the first byte on its way, if there is one. *)
LEMMA TakenFacts ==
  ASSUME Types, NEW kept, kept \subseteq {Keyboard, Mouse}, Take(kept)
  PROVE  /\ Read \in Seen /\ last' \in Byte /\ irq' \subseteq {Keyboard, Mouse}
         /\ pending' \in Seq(Items) /\ pending' = Rest
         /\ Len(pending') = IF pending = << >> THEN 0 ELSE Len(pending) - 1
         /\ pending = << >> => Read.from = "nobody" /\ Read.part = 0
         /\ pending # << >> => /\ Read = pending[1] /\ 1 \in DOMAIN pending /\ Read \in Items
                               /\ pending' = Tail(pending)
         /\ \A i \in DOMAIN pending' : i + 1 \in DOMAIN pending /\ pending'[i] = pending[i + 1]
<1>1. pending \in Seq(Items) /\ last \in Byte /\ pending' = Rest /\ last' = Read.byte
      /\ irq' = kept \cup Request(Rest, config)
  BY DEF Types, Take
<1>2. \A w : Request(w, config) \subseteq {Keyboard, Mouse}
  BY DEF Request, InterruptsOn
<1>3. CASE pending = << >>
  <2>1. Read = [Nothing EXCEPT !.byte = last] /\ Rest = << >>
    BY <1>3 DEF Read, Rest
  <2>2. Read \in Seen /\ Read.from = "nobody" /\ Read.part = 0 /\ Read.byte = last
    BY <1>1, <2>1 DEF Seen, Nothing, Item
  <2> QED BY <1>1, <1>2, <1>3, <2>1, <2>2
<1>4. CASE pending # << >>
  <2>1. Read = pending[1] /\ Rest = Tail(pending) /\ 1 \in DOMAIN pending /\ Len(pending) \in Nat \ {0}
    BY <1>1, <1>4 DEF Read, Rest
  <2>2. Read \in Items /\ Read \in Seen
    BY <1>1, <2>1 DEF Seen
  <2>3. Read.byte \in Byte
    BY <2>2, ItemFacts
  <2>4. /\ Tail(pending) \in Seq(Items) /\ Len(Tail(pending)) = Len(pending) - 1
        /\ \A i \in DOMAIN Tail(pending) : i + 1 \in DOMAIN pending /\ Tail(pending)[i] = pending[i + 1]
    BY <1>1, <1>4
  <2> QED BY <1>1, <1>2, <1>4, <2>1, <2>2, <2>3, <2>4
<1> QED BY <1>3, <1>4

(* What is sent comes behind what is on its way. *)
LEMMA SentFacts ==
  ASSUME Types, NEW items \in Seq(Items), Send(items)
  PROVE  /\ irq' \subseteq {Keyboard, Mouse}
         /\ pending' = pending \o items /\ pending' \in Seq(Items)
         /\ Len(pending') = Len(pending) + Len(items)
         /\ \A i \in DOMAIN pending' : \/ i \in DOMAIN pending /\ pending'[i] = pending[i]
                                       \/ /\ i > Len(pending) /\ i - Len(pending) \in DOMAIN items
                                          /\ pending'[i] = items[i - Len(pending)]
<1>1. pending \in Seq(Items) /\ pending' = pending \o items /\ irq \subseteq {Keyboard, Mouse}
      /\ irq' \subseteq irq \cup Request(items, config)
  BY DEF Types, Send
<1>2. Request(items, config) \subseteq {Keyboard, Mouse}
  BY DEF Request, InterruptsOn
<1> QED BY <1>1, <1>2

(* A byte that is no part of a packet is taken by whoever reads the port. *)
LEMMA ChainPolled ==
  ASSUME Types, NEW kept, kept \subseteq {Keyboard, Mouse}, Take(kept), Framed,
         UNCHANGED <<packet, report>>, ~upset' => ~upset /\ Read.part = 0
  PROVE  Framed'
<1> SUFFICES ASSUME ~upset, Read.part = 0 PROVE Chain(pending', packet) /\ Begun(packet) /\ Reported
  BY DEF Framed, Reported
<1>1. Chain(pending, packet) /\ Begun(packet) /\ Reported
  BY DEF Framed
<1>2. CASE pending = << >>
  <2>1. pending' = pending
    BY <1>2 DEF Take, Rest
  <2> QED BY <1>1, <2>1
<1>3. CASE pending # << >>
  <2>1. Read = pending[1] /\ pending' = Tail(pending) /\ 1 \in DOMAIN pending /\ pending \in Seq(Items)
    BY <1>3, TakenFacts DEF Types
  <2>2. pending[1].from = "mouse" => packet = << >>
    <3> SUFFICES ASSUME pending[1].from = "mouse", packet # << >> PROVE FALSE
      OBVIOUS
    <3>1. IsFirst(pending, 1)
      BY DEF IsFirst
    <3>2. Continues(packet[Len(packet)], pending[1])
      BY <1>1, <2>1, <3>1 DEF Chain, Awaited
    <3>3. Len(packet) \in {1, 2} /\ Len(packet) \in DOMAIN packet
      <4>1. packet \in Seq(Seen) /\ Len(packet) <= 2
        BY DEF Types
      <4>2. Len(packet) \in Nat \ {0} /\ DOMAIN packet = 1 .. Len(packet)
        BY <4>1, Lengths
      <4> QED BY <4>1, <4>2
    <3>4. packet[Len(packet)].part = Len(packet)
      BY <1>1, <3>3 DEF Begun
    <3> QED BY <2>1, <3>2, <3>3, <3>4 DEF Continues
  <2>3. \A b : Continues(pending[1], b) => Begins(b)
    BY <2>1 DEF Continues
  <2>4. Chain(pending', packet)
    BY <1>1, <1>3, <2>1, <2>2, <2>3, ChainTaken DEF Awaited
  <2> QED BY <1>1, <2>4
<1> QED BY <1>2, <1>3

-----------------------------------------------------------------------------
(* The steps of the boot.                                                  *)

(* What the steps of the boot leave alone. *)
BootUnchanged == UNCHANGED <<packet, report, line, mixed>> /\ boot # "run"

LEMMA BootKeeps ==
  ASSUME IInv, BootUnchanged
  PROVE  /\ packet' = << >> /\ ~mixed' /\ OwnBytes'
         /\ packet' \in Seq(Seen) /\ Len(packet') <= 2
         /\ report' \in [dx : Delta, dy : Delta, buttons : 0 .. 7, sent : Seq(Seen)]
         /\ line' \in Seq(Mapped \ {Enter, Backspace}) /\ Len(line') <= LineMax
         /\ mixed' \in BOOLEAN
BY DEF IInv, BootUnchanged, Types, Requested, Quiet, OwnBytes

(* keyboard_init and mouse_read take a byte by polling. *)
Polls == Flush \/ ReadConfig \/ ReadAnswer("ack defaults", "stream") \/ ReadAnswer("ack stream", "mount")

LEMMA PollCases ==
  ASSUME IInv, Polls
  PROVE  /\ Poll /\ BootUnchanged /\ UNCHANGED <<config, mouse, left>>
         /\ misread' \in BOOLEAN /\ upset' \in BOOLEAN
         /\ \/ boot = "flush" /\ boot' = "flush"
            \/ boot = "config" /\ boot' = "configure" /\ pending # << >>
            \/ boot = "ack defaults" /\ boot' = "stream"
            \/ boot = "ack stream" /\ boot' = "mount"
         /\ ~misread' => ~misread /\ (boot = "config" => Read.from = "controller")
         /\ boot = "flush" => ~misread'
         /\ ~upset' => ~upset /\ (boot \in {"flush", "config"} \/ Read.part = 0)
<1>1. misread \in BOOLEAN /\ left \in BOOLEAN /\ upset \in BOOLEAN /\ mixed \in BOOLEAN
  BY DEF IInv, Types
<1>2. boot \in {"flush", "config"} => ~misread
  BY DEF IInv, Answered
<1>3. Read.part \in 0 .. 3
  <2>1. pending \in Seq(Items) /\ last \in Byte
    BY DEF IInv, Types
  <2>2. Read \in Seen
    <3>1. CASE pending = << >>
      BY <2>1, <3>1 DEF Read, Seen
    <3>2. CASE pending # << >>
      BY <2>1, <3>2 DEF Read, Seen
    <3> QED BY <3>1, <3>2
  <2> QED BY <2>2, ItemFacts
<1>4. CASE Flush
  BY <1>1, <1>2, <1>4, Zenon DEF Flush, BootUnchanged, cpu, wrong
<1>5. CASE ReadConfig
  BY <1>1, <1>2, <1>5, Zenon DEF ReadConfig, BootUnchanged, cpu
<1>6. ASSUME NEW at, NEW next, ReadAnswer(at, next), at \in {"ack defaults", "ack stream"}
      PROVE  /\ Poll /\ BootUnchanged /\ UNCHANGED <<config, mouse, left>>
             /\ misread' \in BOOLEAN /\ upset' \in BOOLEAN
             /\ boot = at /\ boot' = next /\ boot \notin {"flush", "config"}
             /\ ~misread' => ~misread
             /\ ~upset' => ~upset /\ ~(Read.part > 0)
  BY <1>1, <1>6, Zenon DEF ReadAnswer, BootUnchanged, cpu
<1>7. ~(Read.part > 0) => Read.part = 0
  BY <1>3
<1>8. CASE ReadAnswer("ack defaults", "stream")
  BY <1>6, <1>7, <1>8
<1>9. CASE ReadAnswer("ack stream", "mount")
  BY <1>6, <1>7, <1>9
<1> QED BY <1>4, <1>5, <1>8, <1>9, Zenon DEF Polls

LEMMA PollStep ==
  ASSUME IInv, Polls
  PROVE  IInv'
<1>1. PICK kept : kept \subseteq {Keyboard, Mouse} /\ Take(kept)
  <2>1. irq \subseteq {Keyboard, Mouse}
    BY DEF IInv, Types
  <2> QED BY <2>1, PollCases DEF Poll
<1>2. /\ last' \in Byte /\ irq' \subseteq {Keyboard, Mouse} /\ pending' \in Seq(Items)
      /\ Len(pending') = IF pending = << >> THEN 0 ELSE Len(pending) - 1
      /\ pending = << >> => Read.part = 0
      /\ pending # << >> => Read = pending[1] /\ 1 \in DOMAIN pending
      /\ \A i \in DOMAIN pending' : i + 1 \in DOMAIN pending /\ pending'[i] = pending[i + 1]
  BY <1>1, TakenFacts DEF IInv
<1>3. /\ MaxPending \in Nat /\ Len(pending) <= MaxPending + 2
      /\ Len(pending) \in Nat /\ (pending # << >> => Len(pending) \in Nat \ {0})
      /\ DOMAIN pending' = 1 .. Len(pending') /\ Len(pending') \in Nat
  BY <1>2, Lengths, InputAssumption DEF IInv, Types
<1>4. Types'
  <2>1. Len(pending') <= MaxPending + 2
    BY <1>2, <1>3
  <2>2. config' \in Byte /\ mouse' \in BOOLEAN /\ left' \in BOOLEAN /\ boot' \in Boot
    BY PollCases DEF IInv, Types, Boot
  <2> QED BY <1>2, <2>1, <2>2, PollCases, BootKeeps DEF Types
<1>5. Roomy'
  <2>1. /\ boot = "ack defaults" => Len(pending) <= MaxPending + 1
        /\ boot = "config" => Len(pending) <= MaxPending + 1
        /\ boot = "flush" => Len(pending) <= MaxPending
    BY DEF IInv, Roomy
  <2>2. boot' \notin {"config", "ack defaults"}
    BY PollCases
  <2>3. boot' = "flush" => boot = "flush"
    BY PollCases
  <2>4. boot' = "configure" => boot = "config"
    BY PollCases
  <2>5. boot' = "stream" => boot = "ack defaults"
    BY PollCases
  <2>6. boot' \notin {"ask", "defaults"}
    BY PollCases
  <2>7. /\ Len(pending) <= MaxPending => Len(pending') <= MaxPending
        /\ Len(pending) <= MaxPending + 1 => Len(pending') <= MaxPending
    <3>1. PICK n : n = Len(pending)
      OBVIOUS
    <3>2. Len(pending') = IF pending = << >> THEN 0 ELSE n - 1
      BY <1>2, <3>1
    <3>3. n \in Nat /\ MaxPending \in Nat
      BY <1>3, <3>1
    <3> QED BY <3>1, <3>2, <3>3
  <2>8. boot' \in {"flush", "configure", "stream"} => Len(pending') <= MaxPending
    BY <2>1, <2>3, <2>4, <2>5, <2>7
  <2> QED BY <2>2, <2>6, <2>8 DEF Roomy
<1>6. Answered'
  <2>0. \A i \in DOMAIN pending' : i + 1 # 1
    BY <1>3
  <2>1. CASE boot = "config"
    <3>1. boot' = "configure" /\ pending # << >> /\ (~misread' => Read.from = "controller")
      BY <2>1, PollCases
    <3>2. ASSUME ~misread', NEW i \in DOMAIN pending', pending'[i].from = "controller" PROVE FALSE
      <4>1. i + 1 \in DOMAIN pending /\ pending[i + 1].from = "controller"
        BY <1>2, <3>2
      <4>2. 1 \in DOMAIN pending /\ pending[1].from = "controller"
        BY <1>2, <3>1, <3>2
      <4> QED BY <2>0, <2>1, <4>1, <4>2 DEF IInv, Answered
    <3> QED BY <3>1, <3>2 DEF Answered
  <2>2. CASE boot # "config"
    BY <1>2, <2>2, PollCases DEF IInv, Answered
  <2> QED BY <2>1, <2>2
<1>7. Requested' /\ OwnBytes'
  BY BootKeeps, PollCases DEF Requested
<1>8. Quiet'
  BY <1>2, BootKeeps, PollCases DEF IInv, Quiet
<1>9. Framed'
  <2>1. boot \in {"flush", "config"} => Read.part = 0
    BY <1>2 DEF IInv, Quiet
  <2> QED BY <1>1, <2>1, ChainPolled, PollCases DEF IInv, BootUnchanged
<1> QED BY <1>4, <1>5, <1>6, <1>7, <1>8, <1>9 DEF IInv

(* The other steps of the boot leave what is on its way alone, or send one byte. *)
LEMMA QuietStep ==
  ASSUME IInv, Flushed \/ Configure
  PROVE  IInv'
<1>1. UNCHANGED <<pending, last, mouse, packet, report, line, misread, left, mixed, upset>>
  BY DEF Flushed, Configure, cpu, wrong
<1>2. \/ boot = "flush" /\ pending = << >> /\ boot' = "ask"
      \/ boot = "configure" /\ boot' = "defaults"
  BY DEF Flushed, Configure
<1>3. Types'
  <2>1. config' \in Byte /\ irq' \subseteq {Keyboard, Mouse} /\ boot' \in Boot
    <3>1. last \in Byte /\ config \in Byte /\ irq \subseteq {Keyboard, Mouse}
      BY DEF IInv, Types
    <3>2. WithMouse(last) \in Byte
      BY <3>1, ConfigBytes
    <3>3. \A w, c : Request(w, c) \subseteq {Keyboard, Mouse}
      BY DEF Request, InterruptsOn
    <3> QED BY <1>2, <3>1, <3>2, <3>3 DEF Flushed, Configure, Boot
  <2> QED BY <1>1, <2>1 DEF IInv, Types
<1>4. Roomy' /\ Quiet'
  BY <1>1, <1>2 DEF IInv, Roomy, Quiet
<1>5. Answered'
  <2>1. (~misread' <=> ~misread) /\ pending' = pending
    BY <1>1
  <2> QED BY <1>2, <2>1 DEF IInv, Answered
<1>6. Requested' /\ OwnBytes'
  <2>1. mixed' = mixed /\ ~mixed
    BY <1>1, <1>2 DEF IInv, Requested
  <2> QED BY <1>2, <2>1 DEF Requested, OwnBytes
<1>7. Framed'
  BY <1>1 DEF IInv, Framed, Reported
<1> QED BY <1>3, <1>4, <1>5, <1>6, <1>7 DEF IInv

(* mouse_init asks the controller. *)
LEMMA AskStep ==
  ASSUME IInv, AskConfig
  PROVE  IInv'
<1> DEFINE on == IF Bit(config, 32) THEN config - 32 ELSE config
           answer == Item("controller", on, 0, Still)
<1>1. /\ boot = "ask" /\ boot' = "config" /\ config' = on /\ Send(<<answer>>)
      /\ UNCHANGED <<last, mouse, packet, report, line, misread, left, mixed, upset>>
  BY DEF AskConfig, cpu, wrong
<1>2. on \in Byte /\ answer \in Items /\ answer.from = "controller" /\ answer.part = 0
  <2>1. on \in Byte
    BY ConfigBytes DEF IInv, Types
  <2> HIDE DEF on
  <2> QED BY <2>1 DEF Items, Answers, Item
<1> HIDE DEF on, answer
<1>3. /\ irq' \subseteq {Keyboard, Mouse} /\ pending' \in Seq(Items)
      /\ pending' = pending \o <<answer>> /\ Len(pending') = Len(pending) + 1
      /\ \A i \in DOMAIN pending' : \/ i \in DOMAIN pending /\ pending'[i] = pending[i]
                                    \/ i = Len(pending) + 1 /\ pending'[i] = answer
  <2>1. <<answer>> \in Seq(Items) /\ Len(<<answer>>) = 1 /\ <<answer>>[1] = answer /\ DOMAIN <<answer>> = {1}
    BY <1>2
  <2>2. pending \in Seq(Items)
    BY DEF IInv, Types
  <2>3. Len(pending) \in Nat
    BY <2>2
  <2>4. /\ irq' \subseteq {Keyboard, Mouse} /\ pending' \in Seq(Items)
        /\ pending' = pending \o <<answer>> /\ Len(pending') = Len(pending) + Len(<<answer>>)
        /\ \A i \in DOMAIN pending' : \/ i \in DOMAIN pending /\ pending'[i] = pending[i]
                                      \/ /\ i > Len(pending) /\ i - Len(pending) \in DOMAIN <<answer>>
                                         /\ pending'[i] = <<answer>>[i - Len(pending)]
    BY <1>1, <2>1, SentFacts DEF IInv
  <2>5. \A i \in DOMAIN pending' : i \in Nat
    BY <2>4
  <2>6. ASSUME NEW i \in DOMAIN pending', i - Len(pending) \in DOMAIN <<answer>>, pending'[i] = <<answer>>[i - Len(pending)]
        PROVE  i = Len(pending) + 1 /\ pending'[i] = answer
    <3>1. i - Len(pending) = 1
      BY <2>1, <2>6
    <3> QED BY <2>1, <2>3, <2>5, <2>6, <3>1
  <2> QED BY <2>1, <2>4, <2>6
<1>4. Len(pending) <= MaxPending /\ MaxPending \in Nat /\ pending \in Seq(Items) /\ Len(pending) \in Nat
  <2>1. pending \in Seq(Items)
    BY DEF IInv, Types
  <2> QED BY <1>1, <2>1, InputAssumption DEF IInv, Roomy
<1>5. Types'
  <2>1. Len(pending') <= MaxPending + 2
    BY <1>3, <1>4
  <2> QED BY <1>1, <1>2, <1>3, <2>1 DEF IInv, Types, Boot
<1>6. Roomy'
  BY <1>1, <1>3, <1>4 DEF Roomy
<1>7. Answered'
  <2>1. \A i \in DOMAIN pending : pending[i].from # "controller"
    BY <1>1 DEF IInv, Answered
  <2>2. ~misread'
    BY <1>1 DEF IInv, Answered
  <2>3. \A i \in DOMAIN pending' : pending'[i].from = "controller" => i = Len(pending) + 1
    BY <1>3, <2>1
  <2> QED BY <1>1, <2>2, <2>3 DEF Answered
<1>8. Requested' /\ OwnBytes'
  BY <1>1 DEF IInv, Requested, OwnBytes
<1>9. Quiet'
  BY <1>1, <1>2, <1>3 DEF IInv, Quiet
<1>10. Framed'
  <2> SUFFICES ASSUME ~upset PROVE Chain(pending', packet)
    BY <1>1 DEF IInv, Framed, Reported
  <2>1. Chain(pending, packet)
    BY DEF IInv, Framed
  <2>2. PICK n : n = Len(pending) + 1
    OBVIOUS
  <2>3. n \in 1 .. Len(pending) + 1 /\ pending'[n].from # "mouse"
    BY <1>2, <1>3, <1>4, <2>2
  <2>4. \A k \in 1 .. Len(pending) : pending'[IF k < n THEN k ELSE k + 1] = pending[k]
    BY <1>3, <1>4, <2>2
  <2> QED BY <1>3, <1>4, <2>1, <2>3, <2>4, ChainInterrupted
<1> QED BY <1>5, <1>6, <1>7, <1>8, <1>9, <1>10 DEF IInv

(* mouse_write: the mouse, if there is one, acknowledges. *)
Commands == Command("defaults", "ack defaults") \/ Command("stream", "ack stream")

LEMMA CommandStep ==
  ASSUME IInv, Commands
  PROVE  IInv'
<1>1. /\ UNCHANGED <<last, config, mouse, packet, report, line, misread, left, mixed, upset>>
      /\ \/ boot = "defaults" /\ boot' = "ack defaults"
         \/ boot = "stream" /\ boot' = "ack stream"
  BY DEF Commands, Command, cpu, wrong
<1>0. Send(<<Acknowledge>>) \/ UNCHANGED <<pending, irq>>
  BY DEF Commands, Command
<1>2. Acknowledge \in Items /\ Acknowledge.from = "mouse" /\ Acknowledge.part = 0
  BY DEF Items, Acknowledge, Item
<1>3. Len(pending) <= MaxPending /\ MaxPending \in Nat /\ pending \in Seq(Items) /\ Len(pending) \in Nat
  <2>1. pending \in Seq(Items)
    BY DEF IInv, Types
  <2>2. Len(pending) <= MaxPending
    BY <1>1 DEF IInv, Roomy
  <2>3. Len(pending) \in Nat
    BY <2>1
  <2> QED BY <2>1, <2>2, <2>3, InputAssumption
<1>4. /\ irq' \subseteq {Keyboard, Mouse} /\ pending' \in Seq(Items)
      /\ Len(pending') <= Len(pending) + 1 /\ Len(pending') \in Nat
      /\ \A i \in DOMAIN pending' : \/ i \in DOMAIN pending /\ pending'[i] = pending[i]
                                    \/ pending'[i].from = "mouse" /\ pending'[i].part = 0
  <2>1. CASE Send(<<Acknowledge>>)
    <3>1. /\ <<Acknowledge>> \in Seq(Items) /\ Len(<<Acknowledge>>) = 1
          /\ \A i \in DOMAIN <<Acknowledge>> : <<Acknowledge>>[i] = Acknowledge
      BY <1>2
    <3>2. /\ irq' \subseteq {Keyboard, Mouse} /\ pending' \in Seq(Items)
          /\ Len(pending') = Len(pending) + Len(<<Acknowledge>>)
          /\ \A i \in DOMAIN pending' : \/ i \in DOMAIN pending /\ pending'[i] = pending[i]
                                        \/ /\ i > Len(pending) /\ i - Len(pending) \in DOMAIN <<Acknowledge>>
                                           /\ pending'[i] = <<Acknowledge>>[i - Len(pending)]
      BY <2>1, <3>1, SentFacts DEF IInv
    <3> QED BY <1>2, <1>3, <3>1, <3>2
  <2>2. CASE UNCHANGED <<pending, irq>>
    BY <1>3, <2>2 DEF IInv, Types
  <2> QED BY <1>0, <2>1, <2>2
<1>5. Types'
  <2>1. Len(pending') <= MaxPending + 2
    BY <1>3, <1>4
  <2> QED BY <1>1, <1>4, <2>1 DEF IInv, Types, Boot
<1>6. Roomy'
  <2>1. Len(pending') <= MaxPending + 1
    BY <1>3, <1>4
  <2> QED BY <1>1, <2>1 DEF Roomy
<1>7. Answered'
  <2>1. ~misread => \A i \in DOMAIN pending : pending[i].from # "controller"
    BY <1>1 DEF IInv, Answered
  <2>2. (~misread' => ~misread) /\ boot' \notin {"flush", "ask", "config"}
    BY <1>1
  <2>3. ~misread => \A i \in DOMAIN pending' : pending'[i].from # "controller"
    BY <1>4, <2>1
  <2> QED BY <2>2, <2>3 DEF Answered
<1>8. Requested' /\ OwnBytes'
  BY <1>1 DEF IInv, Requested, OwnBytes
<1>9. Quiet'
  BY <1>1, <1>4 DEF IInv, Quiet
<1>10. Framed'
  <2> SUFFICES ASSUME ~upset PROVE Chain(pending', packet)
    BY <1>1 DEF IInv, Framed, Reported
  <2>1. Chain(pending, packet)
    BY DEF IInv, Framed
  <2>2. CASE Send(<<Acknowledge>>)
    <3>1. PICK s : s = <<Acknowledge>>
      OBVIOUS
    <3>2. /\ s \in Seq(Items) /\ s # << >> /\ Len(s) = 1 /\ s[1] = Acknowledge
          /\ \A i \in DOMAIN s : s[i].from = "mouse"
      BY <1>2, <3>1
    <3>3. Begins(s[1]) /\ Ends(s[Len(s)]) /\ \A i \in 1 .. Len(s) - 1 : Continues(s[i], s[i + 1])
      BY <1>2, <3>2 DEF Begins, Ends
    <3>4. Chain(pending \o s, packet)
      BY <1>3, <2>1, <3>2, <3>3, ChainExtended
    <3> QED BY <2>2, <3>1, <3>4 DEF Send
  <2>3. CASE UNCHANGED <<pending, irq>>
    BY <2>1, <2>3
  <2> QED BY <1>0, <2>2, <2>3
<1> QED BY <1>5, <1>6, <1>7, <1>8, <1>9, <1>10 DEF IInv

(* sti: what is remembered without a byte stays so from here on. *)
LEMMA StiStep ==
  ASSUME IInv, Sti
  PROVE  IInv'
<1>1. /\ UNCHANGED <<pending, last, irq, config, mouse, packet, report, line, misread, mixed, upset>>
      /\ boot = "mount" /\ boot' = "run" /\ left' \in BOOLEAN
  BY DEF Sti, cpu
<1>2. ~left' => irq' \subseteq Request(pending', config')
  <2>1. ~left' => irq \ Request(pending, config) = {}
    BY DEF Sti
  <2> QED BY <1>1, <2>1
<1>3. Types' /\ Roomy' /\ Quiet'
  BY <1>1 DEF IInv, Types, Roomy, Quiet, Boot
<1>4. Answered'
  BY <1>1 DEF IInv, Answered
<1>5. Requested' /\ OwnBytes'
  BY <1>1, <1>2 DEF IInv, Requested, OwnBytes
<1>6. Framed'
  BY <1>1 DEF IInv, Framed, Reported
<1> QED BY <1>3, <1>4, <1>5, <1>6 DEF IInv

-----------------------------------------------------------------------------
(* The handlers.                                                           *)

(* What a handler finds at the port when its request is not an old one. *)
LEMMA HandlerTakes ==
  ASSUME IInv, boot = "run", boot' = "run", NEW l \in irq, Take(irq \ {l}),
         UNCHANGED <<config, mouse, left, misread>>
  PROVE  /\ Read \in Seen /\ last' \in Byte /\ irq' \subseteq {Keyboard, Mouse}
         /\ pending' \in Seq(Items) /\ Len(pending') <= MaxPending + 2
         /\ ~left => /\ pending # << >> /\ Read = pending[1] /\ Read \in Items /\ Line(Read) = l
                     /\ irq' \subseteq Request(pending', config')
         /\ ~left /\ ~misread => Read.from # "controller"
         /\ Roomy' /\ Answered' /\ Quiet'
<1>1. /\ irq \subseteq {Keyboard, Mouse} /\ pending \in Seq(Items)
      /\ Len(pending) \in Nat /\ (pending # << >> => Len(pending) \in Nat \ {0})
      /\ Len(pending) <= MaxPending + 2 /\ MaxPending \in Nat
  BY Lengths, InputAssumption DEF IInv, Types
<1>2. /\ Read \in Seen /\ last' \in Byte /\ irq' \subseteq {Keyboard, Mouse}
      /\ pending' \in Seq(Items) /\ pending' = Rest
      /\ Len(pending') = IF pending = << >> THEN 0 ELSE Len(pending) - 1
      /\ pending # << >> => Read = pending[1] /\ 1 \in DOMAIN pending /\ Read \in Items
      /\ \A i \in DOMAIN pending' : i + 1 \in DOMAIN pending /\ pending'[i] = pending[i + 1]
  <2>1. irq \ {l} \subseteq {Keyboard, Mouse}
    BY <1>1
  <2> QED BY <2>1, TakenFacts DEF IInv
<1>3. Len(pending') <= MaxPending + 2
  <2>1. PICK n : n = Len(pending)
    OBVIOUS
  <2>2. Len(pending') = IF pending = << >> THEN 0 ELSE n - 1
    BY <1>2, <2>1
  <2> QED BY <1>1, <2>1, <2>2
<1>4. ASSUME ~left
      PROVE  /\ pending # << >> /\ Line(pending[1]) = l
             /\ irq' \subseteq Request(pending', config')
  <2>1. irq \subseteq Request(pending, config)
    BY <1>4 DEF IInv, Requested
  <2>2. pending # << >> /\ irq \subseteq {Line(pending[1])}
    BY <2>1 DEF Request
  <2>3. irq \ {l} = {} /\ Line(pending[1]) = l
    BY <2>2
  <2>4. irq' = Request(Rest, config)
    BY <2>3 DEF Take
  <2> QED BY <1>2, <2>2, <2>3, <2>4
<1>5. ~misread => \A i \in DOMAIN pending : pending[i].from # "controller"
  BY DEF IInv, Answered
<1>6. Answered'
  <2>1. ~misread' => ~misread
    OBVIOUS
  <2> QED BY <1>2, <1>5, <2>1 DEF Answered
<1>7. Roomy' /\ Quiet'
  BY DEF Roomy, Quiet
<1> QED BY <1>2, <1>3, <1>4, <1>5, <1>6, <1>7

(* shell_receive_char keeps the line within its buffer. *)
LEMMA LineFits ==
  ASSUME NEW C, NEW buf \in Seq(C \ {Enter, Backspace}), Len(buf) <= LineMax, NEW c \in C
  PROVE  /\ Receive(buf, c) \in Seq(C \ {Enter, Backspace}) /\ Len(Receive(buf, c)) <= LineMax
<1>1. LineMax \in Nat /\ Len(buf) \in Nat
  BY InputAssumption
<1>2. CASE c = Enter
  <2>1. Receive(buf, c) = << >>
    BY <1>2 DEF Receive, Enter, Backspace
  <2>2. << >> \in Seq(C \ {Enter, Backspace}) /\ Len(<< >>) = 0
    OBVIOUS
  <2> QED BY <1>1, <2>1, <2>2
<1>3. CASE c = Backspace
  <2>1. Receive(buf, c) = IF buf = << >> THEN buf ELSE Front(buf)
    BY <1>3 DEF Receive, Enter, Backspace
  <2>2. CASE buf # << >>
    <3>1. Len(buf) \in Nat \ {0}
      BY <2>2
    <3>2. Front(buf) = SubSeq(buf, 1, Len(buf) - 1) /\ 1 \in 1 .. Len(buf) + 1 /\ Len(buf) - 1 \in 1 - 1 .. Len(buf)
      BY <3>1 DEF Front
    <3>3. Front(buf) \in Seq(C \ {Enter, Backspace}) /\ Len(Front(buf)) <= Len(buf)
      BY <3>1, <3>2
    <3> QED BY <1>1, <2>1, <2>2, <3>3
  <2> QED BY <2>1, <2>2
<1>4. CASE c \notin {Enter, Backspace}
  <2>1. Receive(buf, c) = IF Len(buf) < LineMax THEN Append(buf, c) ELSE buf
    BY <1>4 DEF Receive, Enter, Backspace
  <2>2. Append(buf, c) \in Seq(C \ {Enter, Backspace}) /\ Len(Append(buf, c)) = Len(buf) + 1
    BY <1>4
  <2> QED BY <1>1, <2>1, <2>2
<1> QED BY <1>2, <1>3, <1>4

(* keyboard_on_interrupt *)
LEMMA KeyboardStep ==
  ASSUME IInv, KeyboardInterrupt
  PROVE  IInv'
<1>1. /\ boot = "run" /\ boot' = "run" /\ Keyboard \in irq /\ Take(irq \ {Keyboard})
      /\ UNCHANGED <<config, mouse, left, misread>> /\ UNCHANGED <<packet, report>>
  BY DEF KeyboardInterrupt
<1>2. /\ Read \in Seen /\ last' \in Byte /\ irq' \subseteq {Keyboard, Mouse}
      /\ pending' \in Seq(Items) /\ Len(pending') <= MaxPending + 2
      /\ ~left => /\ pending # << >> /\ Read = pending[1] /\ Read \in Items /\ Line(Read) = Keyboard
                  /\ irq' \subseteq Request(pending', config')
      /\ ~left /\ ~misread => Read.from # "controller"
      /\ Roomy' /\ Answered' /\ Quiet'
  BY <1>1, HandlerTakes
<1>3. line' \in Seq(Mapped \ {Enter, Backspace}) /\ Len(line') <= LineMax
  <2>1. line \in Seq(Mapped \ {Enter, Backspace}) /\ Len(line) <= LineMax
    BY DEF IInv, Types
  <2>2. CASE ~IsCharacter(Read.byte)
    BY <2>1, <2>2 DEF KeyboardInterrupt
  <2>3. CASE IsCharacter(Read.byte)
    <3>1. PICK b : b = Read.byte
      OBVIOUS
    <3>2. b \in Mapped /\ b % 128 = b
      <4>1. b \in Mapped
        BY <2>3, <3>1 DEF IsCharacter
      <4>2. b \in 0 .. 127
        BY <4>1 DEF Mapped
      <4> QED BY <4>1, <4>2
    <3>3. line' = Receive(line, b)
      BY <2>3, <3>1, <3>2 DEF KeyboardInterrupt
    <3> QED BY <2>1, <3>2, <3>3, LineFits
  <2> QED BY <2>2, <2>3
<1>4. mixed' \in BOOLEAN /\ upset' \in BOOLEAN
  BY DEF KeyboardInterrupt
<1>5. Types'
  BY <1>1, <1>2, <1>3, <1>4 DEF IInv, Types
<1>6. Requested'
  BY <1>1, <1>2 DEF Requested
<1>7. OwnBytes'
  <2> SUFFICES ASSUME ~left, ~misread PROVE ~mixed'
    BY <1>1 DEF OwnBytes
  <2>1. ~mixed
    BY DEF IInv, OwnBytes
  <2>2. Read.from = "keyboard"
    <3>1. Read.from \in {"controller", "keyboard", "mouse"} /\ Read.from # "controller"
      BY <1>2, ItemFacts
    <3>2. Read.from # "mouse"
      BY <1>2 DEF Line, Keyboard, Mouse
    <3> QED BY <3>1, <3>2
  <2> QED BY <2>1, <2>2 DEF KeyboardInterrupt
<1>8. Framed'
  <2>1. irq \ {Keyboard} \subseteq {Keyboard, Mouse}
    BY DEF IInv, Types
  <2>2. ~upset' => ~upset /\ ~(Read.part > 0)
    BY DEF KeyboardInterrupt
  <2>3. ~(Read.part > 0) => Read.part = 0
    BY <1>2, ItemFacts
  <2> QED BY <1>1, <2>1, <2>2, <2>3, ChainPolled DEF IInv
<1> QED BY <1>2, <1>5, <1>6, <1>7, <1>8 DEF IInv

(* mouse_on_interrupt: the next byte of a packet. *)
LEMMA Stored ==
  ASSUME NEW p \in Seq(Seen), Len(p) <= 2, NEW x \in Seen
  PROVE  /\ Append(p, x) \in Seq(Seen) /\ Len(Append(p, x)) = Len(p) + 1 /\ Len(p) \in 0 .. 2
         /\ DOMAIN Append(p, x) = 1 .. Len(p) + 1 /\ DOMAIN p = 1 .. Len(p)
         /\ \A i \in 1 .. Len(p) : Append(p, x)[i] = p[i]
         /\ Append(p, x)[Len(p) + 1] = x /\ Append(p, x) # << >>
         /\ ~(Len(Append(p, x)) < 3) => Len(Append(p, x)) = 3 /\ Len(p) = 2
<1>1. Len(p) \in Nat /\ DOMAIN p = 1 .. Len(p)
  OBVIOUS
<1>2. Append(p, x) \in Seq(Seen) /\ Len(Append(p, x)) = Len(p) + 1
  OBVIOUS
<1>3. Append(p, x) # << >>
  BY <1>1, <1>2
<1> QED BY <1>1, <1>2, <1>3

LEMMA DecodeTypes ==
  ASSUME NEW p \in Seq(Seen), Len(p) = 3
  PROVE  Decode(p) \in [dx : Delta, dy : Delta, buttons : 0 .. 7, sent : Seq(Seen)]
<1>1. p[1] \in Seen /\ p[2] \in Seen /\ p[3] \in Seen
  BY Lengths
<1>2. p[1].byte \in Byte /\ p[2].byte \in Byte /\ p[3].byte \in Byte
  BY <1>1, ItemFacts
<1>3. Signed(p[2].byte) \in Delta /\ Signed(p[3].byte) \in Delta
  BY <1>2, SignedDelta
<1>4. p[1].byte % 8 \in 0 .. 7
  <2>1. PICK b \in 0 .. 255 : b = p[1].byte
    BY <1>2 DEF Byte
  <2>2. b % 8 \in 0 .. 7
    OBVIOUS
  <2> QED BY <2>1, <2>2
<1> QED BY <1>3, <1>4 DEF Decode

(* A whole packet says what the mouse did. *)
LEMMA DecodeFaithful ==
  ASSUME NEW p \in Seq(Seen), Len(p) = 3, Begun(p)
  PROVE  \E m \in Moves : /\ Decode(p).sent = [i \in 1 .. 3 |-> Part(m, i)]
                          /\ m.dx \in Delta => Decode(p).dx = m.dx
                          /\ m.dy \in Delta => Decode(p).dy = m.dy
                          /\ Decode(p).buttons = m.buttons
<1>1. DOMAIN p = 1 .. 3 /\ \A i \in 1 .. 3 : p[i] \in Seen
  BY Lengths
<1>2. \A i \in 1 .. 3 : p[i] = Part(p[i].move, p[i].part) /\ p[i].move \in Moves
  <2> SUFFICES ASSUME NEW i \in 1 .. 3 PROVE p[i] = Part(p[i].move, p[i].part) /\ p[i].move \in Moves
    OBVIOUS
  <2>1. p[i] \in Seen /\ p[i].part = i
    BY <1>1 DEF Begun
  <2>2. p[i].part > 0
    BY <2>1
  <2> QED BY <2>1, <2>2, ItemFacts
<1>3. PICK m \in Moves : m = p[1].move
  BY <1>2
<1>4. \A i \in 1 .. 3 : p[i] = Part(m, i)
  BY <1>1, <1>2, <1>3 DEF Begun
<1>5. p = [i \in 1 .. 3 |-> Part(m, i)]
  <2>1. p = [i \in 1 .. 3 |-> p[i]]
    BY <1>1
  <2> QED BY <1>4, <2>1
<1>6. p[1].byte = PartByte(m, 1) /\ p[2].byte = PartByte(m, 2) /\ p[3].byte = PartByte(m, 3)
  BY <1>4, PartFacts
<1>7. /\ Decode(p).sent = p /\ Decode(p).dx = Signed(p[2].byte) /\ Decode(p).dy = Signed(p[3].byte)
      /\ Decode(p).buttons = p[1].byte % 8
  BY DEF Decode
<1>8. /\ m.dx \in Delta => Decode(p).dx = m.dx
      /\ m.dy \in Delta => Decode(p).dy = m.dy
      /\ Decode(p).buttons = m.buttons
  BY <1>3, <1>6, <1>7, Understood
<1>9. Decode(p).sent = [i \in 1 .. 3 |-> Part(m, i)]
  BY <1>5, <1>7
<1> QED BY <1>3, <1>8, <1>9

(* What the mouse handler keeps, when it is in step. *)
LEMMA ChainKept ==
  ASSUME NEW w \in Seq(Items), w # << >>, w[1].from = "mouse", w[1].part # 0,
         NEW p \in Seq(Seen), Len(p) <= 2, Begun(p), Chain(w, p)
  PROVE  /\ w[1] \in Seen /\ w[1].part = Len(p) + 1 /\ Keeps(Len(p), w[1].byte)
         /\ Begun(Append(p, w[1]))
         /\ Chain(Tail(w), IF Len(p) = 2 THEN << >> ELSE Append(p, w[1]))
<1> DEFINE x == w[1]
           s == Append(p, x)
<1>1. x \in Seen /\ x \in Items /\ 1 \in DOMAIN w
  BY DEF Seen
<1>2. x.part \in 1 .. 3 /\ x \in Parts /\ x = Part(x.move, x.part) /\ x.move \in Moves
  <2>1. x.part \in 0 .. 3 /\ (x.part > 0 => x \in Parts /\ x = Part(x.move, x.part) /\ x.move \in Moves)
    BY <1>1, ItemFacts
  <2> QED BY <2>1
<1>3. Awaited(p, x)
  BY <1>1 DEF Chain, IsFirst
<1>4. /\ s \in Seq(Seen) /\ Len(s) = Len(p) + 1 /\ Len(p) \in 0 .. 2 /\ DOMAIN s = 1 .. Len(p) + 1
      /\ DOMAIN p = 1 .. Len(p) /\ \A i \in 1 .. Len(p) : s[i] = p[i]
      /\ s[Len(p) + 1] = x /\ s # << >>
  BY <1>1, Stored
<1> HIDE DEF s, x
<1>5. /\ x.part = Len(p) + 1
      /\ Len(p) > 0 => x.move = p[1].move
  <2>1. CASE p = << >>
    BY <1>2, <1>3, <2>1 DEF Awaited, Begins
  <2>2. CASE p # << >>
    <3>1. Len(p) \in {1, 2} /\ Len(p) \in DOMAIN p
      <4>1. Len(p) \in Nat \ {0}
        BY <2>2, Lengths
      <4> QED BY <1>4, <4>1
    <3>2. p[Len(p)].part = Len(p) /\ p[Len(p)].move = p[1].move
      BY <3>1 DEF Begun
    <3>3. Continues(p[Len(p)], x)
      BY <1>3, <2>2 DEF Awaited
    <3> QED BY <3>1, <3>2, <3>3 DEF Continues
  <2> QED BY <2>1, <2>2
<1>6. Keeps(Len(p), x.byte)
  <2>1. CASE Len(p) = 0
    <3>1. x.byte = PartByte(x.move, 1)
      BY <1>2, <1>5, <2>1, PartFacts
    <3> QED BY <1>2, <3>1, Understood DEF Keeps
  <2>2. CASE Len(p) # 0
    BY <1>4, <2>2 DEF Keeps
  <2> QED BY <2>1, <2>2
<1>7. Begun(s)
  <2> SUFFICES ASSUME NEW i \in DOMAIN s
               PROVE  s[i] \in Parts /\ s[i].part = i /\ s[i].move = s[1].move
    BY DEF Begun
  <2>1. CASE i \in 1 .. Len(p)
    <3>1. s[i] = p[i] /\ i \in DOMAIN p /\ s[1] = p[1]
      BY <1>4, <2>1
    <3> QED BY <3>1 DEF Begun
  <2>2. CASE i = Len(p) + 1
    <3>1. s[i] = x /\ (Len(p) > 0 => s[1] = p[1])
      BY <1>4, <2>2
    <3>2. Len(p) = 0 => i = 1
      BY <2>2
    <3> QED BY <1>2, <1>4, <1>5, <2>2, <3>1, <3>2
  <2> QED BY <1>4, <2>1, <2>2
<1>8. CASE Len(p) = 2
  <2>1. \A b : Continues(x, b) => Awaited(<< >>, b)
    BY <1>5, <1>8 DEF Continues, Awaited
  <2>2. Chain(Tail(w), << >>)
    BY <2>1, ChainTaken DEF x
  <2> QED BY <1>1, <1>5, <1>6, <1>7, <1>8, <2>2 DEF s, x
<1>9. CASE Len(p) # 2
  <2>1. s[Len(s)] = x /\ s # << >>
    BY <1>4
  <2>2. \A b : Continues(x, b) => Awaited(s, b)
    BY <2>1 DEF Awaited
  <2>3. ~Ends(x)
    BY <1>4, <1>5, <1>9 DEF Ends
  <2>4. Chain(Tail(w), s)
    BY <2>2, <2>3, ChainTaken DEF x
  <2> QED BY <1>1, <1>5, <1>6, <1>7, <1>9, <2>4 DEF s, x
<1> QED BY <1>8, <1>9

(* mouse_on_interrupt *)
LEMMA MouseStep ==
  ASSUME IInv, MouseInterrupt
  PROVE  IInv'
<1> DEFINE stored == Append(packet, Read)
<1>1. /\ boot = "run" /\ boot' = "run" /\ Mouse \in irq /\ Take(irq \ {Mouse})
      /\ UNCHANGED <<config, mouse, left, misread>> /\ UNCHANGED line
  BY DEF MouseInterrupt
<1>2. /\ Read \in Seen /\ last' \in Byte /\ irq' \subseteq {Keyboard, Mouse}
      /\ pending' \in Seq(Items) /\ Len(pending') <= MaxPending + 2
      /\ ~left => /\ pending # << >> /\ Read = pending[1] /\ Read \in Items /\ Line(Read) = Mouse
                  /\ irq' \subseteq Request(pending', config')
      /\ Roomy' /\ Answered' /\ Quiet'
  BY <1>1, HandlerTakes
<1>3. \/ ~Keeps(Len(packet), Read.byte) /\ UNCHANGED <<packet, report>>
      \/ Keeps(Len(packet), Read.byte) /\ Len(stored) < 3 /\ packet' = stored /\ UNCHANGED report
      \/ Keeps(Len(packet), Read.byte) /\ ~(Len(stored) < 3) /\ packet' = << >> /\ report' = Decode(stored)
  BY DEF MouseInterrupt
<1>4. /\ packet \in Seq(Seen) /\ Len(packet) <= 2
      /\ report \in [dx : Delta, dy : Delta, buttons : 0 .. 7, sent : Seq(Seen)]
  BY DEF IInv, Types
<1>5. /\ stored \in Seq(Seen) /\ Len(stored) = Len(packet) + 1 /\ Len(packet) \in 0 .. 2
      /\ ~(Len(stored) < 3) => Len(stored) = 3 /\ Len(packet) = 2
  BY <1>2, <1>4, Stored
<1> HIDE DEF stored
<1>6. /\ packet' \in Seq(Seen) /\ Len(packet') <= 2
      /\ report' \in [dx : Delta, dy : Delta, buttons : 0 .. 7, sent : Seq(Seen)]
  <2>1. CASE UNCHANGED <<packet, report>>
    BY <1>4, <2>1
  <2>2. CASE Len(stored) < 3 /\ packet' = stored /\ UNCHANGED report
    BY <1>4, <1>5, <2>2
  <2>3. CASE ~(Len(stored) < 3) /\ packet' = << >> /\ report' = Decode(stored)
    <3>1. Len(stored) = 3
      BY <1>5, <2>3
    <3>2. << >> \in Seq(Seen) /\ Len(<< >>) <= 2
      OBVIOUS
    <3> QED BY <1>5, <2>3, <3>1, <3>2, DecodeTypes
  <2> QED BY <1>3, <2>1, <2>2, <2>3
<1>7. mixed' \in BOOLEAN /\ upset' \in BOOLEAN
  BY DEF MouseInterrupt
<1>8. Types'
  BY <1>1, <1>2, <1>6, <1>7 DEF IInv, Types
<1>9. Requested'
  BY <1>1, <1>2 DEF Requested
<1>10. OwnBytes'
  <2> SUFFICES ASSUME ~left, ~misread PROVE ~mixed'
    BY <1>1 DEF OwnBytes
  <2>1. ~mixed
    BY DEF IInv, OwnBytes
  <2>2. Read.from = "mouse"
    BY <1>2 DEF Line, Keyboard, Mouse
  <2> QED BY <2>1, <2>2 DEF MouseInterrupt
<1>11. Framed'
  <2> SUFFICES ASSUME ~upset' PROVE Chain(pending', packet') /\ Begun(packet') /\ Reported'
    BY DEF Framed
  <2>1. ~upset /\ ~(Read.part = 0)
    BY DEF MouseInterrupt
  <2>2. Chain(pending, packet) /\ Begun(packet) /\ Reported /\ pending \in Seq(Items)
    BY <2>1 DEF IInv, Framed, Types
  <2>3. pending # << >> /\ Read = pending[1] /\ pending' = Tail(pending)
    <3>1. irq \ {Mouse} \subseteq {Keyboard, Mouse}
      BY DEF IInv, Types
    <3> QED BY <1>1, <2>1, <3>1, TakenFacts DEF IInv
  <2>4. Read.from = "mouse"
    <3>1. Read.part > 0
      <4>1. Read.part \in 0 .. 3
        BY <1>2, ItemFacts
      <4> QED BY <2>1, <4>1
    <3> QED BY <1>2, <3>1, ItemFacts
  <2>5. /\ Keeps(Len(packet), Read.byte)
        /\ Begun(stored)
        /\ Chain(pending', IF Len(packet) = 2 THEN << >> ELSE stored)
    BY <1>4, <2>1, <2>2, <2>3, <2>4, ChainKept DEF stored
  <2>6. CASE Len(stored) < 3 /\ packet' = stored /\ UNCHANGED report
    <3>1. Len(packet) # 2
      BY <1>5, <2>6
    <3> QED BY <2>2, <2>5, <2>6, <3>1 DEF Reported
  <2>7. CASE ~(Len(stored) < 3) /\ packet' = << >> /\ report' = Decode(stored)
    <3>1. Len(stored) = 3 /\ Len(packet) = 2
      BY <1>5, <2>7
    <3>2. Begun(<< >>)
      BY DEF Begun
    <3>3. Reported'
      BY <1>5, <2>5, <2>7, <3>1, DecodeFaithful DEF Reported
    <3> QED BY <2>5, <2>7, <3>1, <3>2, <3>3
  <2> QED BY <1>3, <2>5, <2>6, <2>7
<1> QED BY <1>2, <1>8, <1>9, <1>10, <1>11 DEF IInv

-----------------------------------------------------------------------------
(* The user.                                                               *)

(* A key comes in between, before the port's byte only when there is none. *)
LEMMA InsertedFacts ==
  ASSUME NEW D, NEW w \in Seq(D), NEW n \in 1 .. Len(w) + 1, NEW x \in D
  PROVE  /\ InsertAt(w, n, x) \in Seq(D) /\ Len(InsertAt(w, n, x)) = Len(w) + 1
         /\ InsertAt(w, n, x)[n] = x
         /\ \A k \in 1 .. Len(w) : InsertAt(w, n, x)[IF k < n THEN k ELSE k + 1] = w[k]
         /\ \A k \in 1 .. Len(w) + 1 : k # n => /\ (IF k < n THEN k ELSE k - 1) \in DOMAIN w
                                               /\ InsertAt(w, n, x)[k] = w[IF k < n THEN k ELSE k - 1]
<1> DEFINE a == SubSeq(w, 1, n - 1)
           b == SubSeq(w, n, Len(w))
<1>1. n \in Nat \ {0} /\ n <= Len(w) + 1 /\ Len(w) \in Nat
  BY Lengths
<1>2. a \in Seq(D) /\ Len(a) = n - 1 /\ \A k \in 1 .. n - 1 : a[k] = w[k]
  BY <1>1, SubSeqProperties
<1>3. b \in Seq(D) /\ Len(b) = Len(w) - n + 1 /\ \A k \in 1 .. Len(w) - n + 1 : b[k] = w[n + k - 1]
  BY <1>1, SubSeqProperties
<1> HIDE DEF a, b
<1>4. a \o <<x>> \in Seq(D) /\ Len(a \o <<x>>) = n /\ (a \o <<x>>)[n] = x /\ \A k \in 1 .. n - 1 : (a \o <<x>>)[k] = w[k]
  BY <1>1, <1>2
<1> DEFINE c == a \o <<x>>
<1> HIDE DEF c
<1> DEFINE t == c \o b
<1>5. /\ t \in Seq(D) /\ Len(t) = Len(w) + 1 /\ t[n] = x
      /\ \A k \in 1 .. n - 1 : t[k] = w[k]
      /\ \A k \in n .. Len(w) : t[k + 1] = w[k]
  <2>1. c \in Seq(D) /\ Len(c) = n /\ c[n] = x /\ \A k \in 1 .. n - 1 : c[k] = w[k]
    BY <1>4 DEF c
  <2>2. PICK l \in Nat : l = Len(w)
    BY <1>1
  <2>3. /\ t \in Seq(D) /\ Len(t) = Len(c) + Len(b)
        /\ \A k \in 1 .. Len(c) + Len(b) : t[k] = IF k <= Len(c) THEN c[k] ELSE b[k - Len(c)]
    BY <1>3, <2>1, ConcatProperties
  <2> HIDE DEF t
  <2>4. Len(b) = l - n + 1 /\ n \in 1 .. l + 1
    BY <1>1, <1>3, <2>2
  <2>5. Len(t) = l + 1 /\ \A k \in 1 .. l + 1 : t[k] = IF k <= n THEN c[k] ELSE b[k - n]
    BY <2>1, <2>3, <2>4
  <2>6. ASSUME NEW k \in n .. l PROVE t[k + 1] = w[k]
    <3>1. k + 1 \in 1 .. l + 1 /\ ~(k + 1 <= n) /\ (k + 1) - n \in 1 .. l - n + 1 /\ n + ((k + 1) - n) - 1 = k
      BY <2>4
    <3>2. t[k + 1] = b[(k + 1) - n]
      BY <2>5, <3>1
    <3>3. b[(k + 1) - n] = w[n + ((k + 1) - n) - 1]
      BY <1>3, <2>2, <3>1
    <3> QED BY <3>1, <3>2, <3>3
  <2>7. \A k \in 1 .. n : k \in 1 .. l + 1 /\ k <= n
    BY <2>4
  <2>8. n \in 1 .. n /\ \A k \in 1 .. n - 1 : k \in 1 .. n
    BY <1>1
  <2> QED BY <2>1, <2>2, <2>3, <2>5, <2>6, <2>7, <2>8
<1>6. InsertAt(w, n, x) = t
  BY DEF InsertAt, a, b, c
<1> HIDE DEF t
<1>7. \A k \in 1 .. Len(w) : t[IF k < n THEN k ELSE k + 1] = w[k]
  BY <1>1, <1>5
<1>8. \A k \in 1 .. Len(w) + 1 : k # n => /\ (IF k < n THEN k ELSE k - 1) \in DOMAIN w
                                         /\ t[k] = w[IF k < n THEN k ELSE k - 1]
  <2> SUFFICES ASSUME NEW k \in 1 .. Len(w) + 1, k # n
               PROVE  /\ (IF k < n THEN k ELSE k - 1) \in DOMAIN w
                      /\ t[k] = w[IF k < n THEN k ELSE k - 1]
    OBVIOUS
  <2>1. CASE k < n
    <3>1. k \in 1 .. n - 1 /\ k \in 1 .. Len(w)
      BY <1>1, <2>1
    <3> QED BY <1>5, <2>1, <3>1, Lengths
  <2>2. CASE ~(k < n)
    <3>1. k - 1 \in n .. Len(w) /\ k - 1 \in 1 .. Len(w) /\ (k - 1) + 1 = k
      BY <1>1, <2>2
    <3> QED BY <1>5, <2>2, <3>1, Lengths
  <2> QED BY <2>1, <2>2
<1> QED BY <1>5, <1>6, <1>7, <1>8

(* What comes behind the port's byte requests nothing, and what finds the port empty
   requests for itself. *)
LEMMA Requests ==
  ASSUME NEW w, NEW t, NEW now, NEW c, now \subseteq Request(w, c),
         w # << >> => t # << >> /\ t[1] = w[1]
  PROVE  now \cup (IF w = << >> THEN Request(t, c) ELSE {}) \subseteq Request(t, c)
BY DEF Request

LEMMA KeyStep ==
  ASSUME IInv, NEW b \in KeyBytes, Key(b)
  PROVE  IInv'
<1> DEFINE x == Item("keyboard", b, 0, Still)
<1>1. PICK n \in 1 .. Len(pending) + 1 :
        /\ n = 1 => pending = << >>
        /\ pending' = InsertAt(pending, n, x)
        /\ irq' = irq \cup IF n = 1 THEN Request(pending', config) ELSE {}
  BY DEF Key
<1>2. /\ Len(pending) < MaxPending /\ MaxPending \in Nat /\ pending \in Seq(Items) /\ Len(pending) \in Nat
      /\ (pending # << >> => Len(pending) \in Nat \ {0}) /\ n \in Nat \ {0}
  <2>1. pending \in Seq(Items)
    BY DEF IInv, Types
  <2> QED BY <2>1, Lengths, InputAssumption DEF Key
<1>3. UNCHANGED <<last, config, mouse, boot, packet, report, line, misread, left, mixed, upset>>
  BY DEF Key, cpu, wrong
<1>4. x \in Items /\ x.from = "keyboard" /\ x.part = 0
  <2>1. b \in Byte
    BY InputAssumption
  <2> QED BY <2>1 DEF Items, Keys, Item
<1> HIDE DEF x
<1>5. /\ pending' \in Seq(Items) /\ Len(pending') = Len(pending) + 1 /\ pending'[n] = x
      /\ \A k \in 1 .. Len(pending) : pending'[IF k < n THEN k ELSE k + 1] = pending[k]
      /\ \A k \in 1 .. Len(pending) + 1 : k # n => /\ (IF k < n THEN k ELSE k - 1) \in DOMAIN pending
                                                   /\ pending'[k] = pending[IF k < n THEN k ELSE k - 1]
  <2> DEFINE t == InsertAt(pending, n, x)
  <2>1. /\ t \in Seq(Items) /\ Len(t) = Len(pending) + 1 /\ t[n] = x
        /\ \A k \in 1 .. Len(pending) : t[IF k < n THEN k ELSE k + 1] = pending[k]
        /\ \A k \in 1 .. Len(pending) + 1 : k # n => /\ (IF k < n THEN k ELSE k - 1) \in DOMAIN pending
                                                     /\ t[k] = pending[IF k < n THEN k ELSE k - 1]
    <3>1. pending \in Seq(Items) /\ x \in Items /\ n \in 1 .. Len(pending) + 1
      BY <1>2, <1>4
    <3> QED BY <3>1, InsertedFacts
  <2>2. pending' = t
    BY <1>1
  <2> HIDE DEF t
  <2> QED BY <2>1, <2>2
<1>6. /\ DOMAIN pending' = 1 .. Len(pending) + 1 /\ pending' # << >>
      /\ pending # << >> => n # 1 /\ pending'[1] = pending[1]
  <2>1. DOMAIN pending' = 1 .. Len(pending) + 1
    BY <1>5, Lengths
  <2>2. pending' # << >>
    BY <1>2, <1>5
  <2>3. ASSUME pending # << >> PROVE n # 1 /\ pending'[1] = pending[1]
    <3>1. n # 1 /\ 1 < n /\ 1 \in 1 .. Len(pending)
      BY <1>1, <1>2, <2>3
    <3> QED BY <1>5, <3>1
  <2> QED BY <2>1, <2>2, <2>3
<1>7. \A k \in DOMAIN pending' : \/ k = n
                                 \/ /\ (IF k < n THEN k ELSE k - 1) \in DOMAIN pending
                                    /\ pending'[k] = pending[IF k < n THEN k ELSE k - 1]
  BY <1>5, <1>6
<1>8. Types'
  <2>1. Len(pending') <= MaxPending + 2
    BY <1>2, <1>5
  <2>2. irq' \subseteq {Keyboard, Mouse}
    <3>1. irq \subseteq {Keyboard, Mouse}
      BY DEF IInv, Types
    <3>2. Request(pending', config) \subseteq {Keyboard, Mouse}
      BY DEF Request, InterruptsOn
    <3> QED BY <1>1, <3>1, <3>2
  <2> QED BY <1>3, <1>5, <2>1, <2>2 DEF IInv, Types
<1>9. Roomy'
  <2>1. Len(pending') <= MaxPending /\ Len(pending') <= MaxPending + 1
    BY <1>2, <1>5
  <2> QED BY <2>1 DEF Roomy
<1>10. Answered'
  <2>1. \A k \in DOMAIN pending' : pending'[k].from = "controller" =>
          /\ k # n
          /\ (IF k < n THEN k ELSE k - 1) \in DOMAIN pending
          /\ pending[IF k < n THEN k ELSE k - 1].from = "controller"
    BY <1>4, <1>5, <1>7
  <2>2. (\A k \in DOMAIN pending : pending[k].from # "controller")
          => \A k \in DOMAIN pending' : pending'[k].from # "controller"
    BY <2>1
  <2>3. ASSUME \A i, j \in DOMAIN pending :
                 pending[i].from = "controller" /\ pending[j].from = "controller" => i = j
        PROVE  \A i, j \in DOMAIN pending' :
                 pending'[i].from = "controller" /\ pending'[j].from = "controller" => i = j
    <3> SUFFICES ASSUME NEW i \in DOMAIN pending', NEW j \in DOMAIN pending',
                        pending'[i].from = "controller", pending'[j].from = "controller"
                 PROVE  i = j
      OBVIOUS
    <3>1. i # n /\ j # n /\ (IF i < n THEN i ELSE i - 1) = (IF j < n THEN j ELSE j - 1)
      BY <2>1, <2>3
    <3>2. i \in Nat /\ j \in Nat /\ n \in Nat
      BY <1>2, <1>6
    <3> QED BY <3>1, <3>2
  <2>4. boot' = boot /\ (~misread' <=> ~misread)
    BY <1>3
  <2> QED BY <2>2, <2>3, <2>4 DEF IInv, Answered
<1>11. Requested' /\ OwnBytes'
  <2>1. boot = "run" /\ ~left => irq' \subseteq Request(pending', config)
    <3> SUFFICES ASSUME irq \subseteq Request(pending, config) PROVE irq' \subseteq Request(pending', config)
      BY DEF IInv, Requested
    <3>1. irq' = irq \cup (IF pending = << >> THEN Request(pending', config) ELSE {})
      <4>1. pending = << >> => n = 1
        BY <1>2
      <4> QED BY <1>1, <1>6, <4>1
    <3> QED BY <1>6, <3>1, Requests
  <2> QED BY <1>3, <2>1 DEF IInv, Requested, OwnBytes
<1>12. Quiet'
  <2>1. (\A k \in DOMAIN pending : pending[k].part = 0) => \A k \in DOMAIN pending' : pending'[k].part = 0
    BY <1>4, <1>5, <1>7
  <2> QED BY <1>3, <2>1 DEF IInv, Quiet
<1>13. Framed'
  <2> SUFFICES ASSUME ~upset PROVE Chain(pending', packet)
    BY <1>3 DEF IInv, Framed, Reported
  <2>1. Chain(pending, packet)
    BY DEF IInv, Framed
  <2> QED BY <1>2, <1>4, <1>5, <2>1, ChainInterrupted
<1> QED BY <1>8, <1>9, <1>10, <1>11, <1>12, <1>13 DEF IInv

LEMMA MoveStep ==
  ASSUME IInv, NEW m \in Moves, Move(m)
  PROVE  IInv'
<1> DEFINE whole == <<Part(m, 1), Part(m, 2), Part(m, 3)>>
<1>1. /\ boot \in {"ack stream", "mount", "run"} /\ Len(pending) < MaxPending
      /\ UNCHANGED <<last, config, mouse, boot, packet, report, line, misread, left, mixed>>
  BY DEF Move, cpu
<1>2. \/ Send(whole) /\ UNCHANGED upset
      \/ (\E i \in 1 .. 3 : Send(RemoveAt(whole, i))) /\ upset' = TRUE
  BY DEF Move
<1>3. /\ whole \in Seq(Items) /\ Len(whole) = 3 /\ DOMAIN whole = 1 .. 3
      /\ \A i \in 1 .. 3 : whole[i] = Part(m, i) /\ whole[i] \in Parts
  <2>1. \A i \in 1 .. 3 : Part(m, i) \in Parts
    BY DEF Parts
  <2>2. Part(m, 1) \in Items /\ Part(m, 2) \in Items /\ Part(m, 3) \in Items
    BY <2>1 DEF Items
  <2> QED BY <2>1, <2>2
<1>4. \A i \in 1 .. 3 : whole[i].from = "mouse" /\ whole[i].part = i /\ whole[i].move = m
  BY <1>3, PartFacts
<1> HIDE DEF whole
<1>5. PICK s : /\ s \in Seq(Items) /\ Len(s) <= 3 /\ Len(s) \in Nat /\ Send(s)
               /\ \A i \in DOMAIN s : s[i].from = "mouse"
               /\ upset' \in BOOLEAN /\ (~upset' => ~upset /\ s = whole)
  <2>1. CASE Send(whole) /\ UNCHANGED upset
    <3>1. Len(whole) <= 3 /\ Len(whole) \in Nat /\ \A i \in DOMAIN whole : whole[i].from = "mouse"
      BY <1>3, <1>4
    <3>2. upset' \in BOOLEAN /\ (~upset' => ~upset)
      BY <2>1 DEF IInv, Types
    <3> QED BY <1>3, <2>1, <3>1, <3>2, Zenon
  <2>2. CASE (\E i \in 1 .. 3 : Send(RemoveAt(whole, i))) /\ upset' = TRUE
    <3>1. PICK i \in 1 .. 3 : Send(RemoveAt(whole, i))
      BY <2>2
    <3>2. PICK s : s = RemoveAt(whole, i)
      OBVIOUS
    <3>3. /\ s \in Seq(Items) /\ Len(s) = 2
          /\ \A k \in 1 .. 2 : s[k] = IF k < i THEN whole[k] ELSE whole[k + 1]
      <4>1. i \in DOMAIN whole
        BY <1>3
      <4>2. /\ s \in Seq(Items) /\ Len(s) = Len(whole) - 1
            /\ \A k \in 1 .. Len(whole) - 1 : s[k] = IF k < i THEN whole[k] ELSE whole[k + 1]
        BY <1>3, <3>2, <4>1, RemoveAtEntries
      <4>3. Len(whole) - 1 = 2
        BY <1>3
      <4> QED BY <4>2, <4>3
    <3>4. DOMAIN s = 1 .. 2
      BY <3>3, Lengths
    <3>5. \A k \in DOMAIN s : s[k].from = "mouse"
      BY <1>4, <3>3, <3>4
    <3>6. Len(s) <= 3 /\ Len(s) \in Nat
      BY <3>3
    <3>7. upset' \in BOOLEAN /\ upset'
      BY <2>2
    <3> QED BY <3>1, <3>2, <3>3, <3>5, <3>6, <3>7, Zenon
  <2> QED BY <1>2, <2>1, <2>2
<1>6. /\ irq' \subseteq {Keyboard, Mouse} /\ pending' \in Seq(Items) /\ pending' = pending \o s
      /\ Len(pending') = Len(pending) + Len(s)
      /\ \A i \in DOMAIN pending' : \/ i \in DOMAIN pending /\ pending'[i] = pending[i]
                                    \/ /\ i > Len(pending) /\ i - Len(pending) \in DOMAIN s
                                       /\ pending'[i] = s[i - Len(pending)]
  BY <1>5, SentFacts DEF IInv
<1>7. pending \in Seq(Items) /\ Len(pending) \in Nat /\ (pending # << >> => Len(pending) > 0) /\ MaxPending \in Nat
  <2>1. pending \in Seq(Items)
    BY DEF IInv, Types
  <2> QED BY <2>1, Lengths, InputAssumption
<1>8. Types'
  <2>1. Len(pending') <= MaxPending + 2
    <3>1. PICK a, c : a = Len(pending) /\ c = Len(s)
      OBVIOUS
    <3>2. Len(pending') = a + c /\ a \in Nat /\ c \in Nat /\ a < MaxPending /\ c <= 3
      BY <1>1, <1>5, <1>6, <1>7, <3>1
    <3> QED BY <1>7, <3>2
  <2>2. upset' \in BOOLEAN
    BY <1>5
  <2> QED BY <1>1, <1>6, <2>1, <2>2 DEF IInv, Types
<1>9. Roomy' /\ Quiet'
  BY <1>1 DEF IInv, Roomy, Quiet
<1>10. Answered'
  <2>1. ~misread => \A i \in DOMAIN pending : pending[i].from # "controller"
    BY <1>1 DEF IInv, Answered
  <2>2. ~misread => \A i \in DOMAIN pending' : pending'[i].from # "controller"
    BY <1>5, <1>6, <2>1
  <2>3. (~misread' <=> ~misread) /\ boot' \notin {"flush", "ask", "config"}
    BY <1>1
  <2> QED BY <2>2, <2>3 DEF Answered
<1>11. Requested' /\ OwnBytes'
  <2>1. irq \subseteq Request(pending, config) => irq' \subseteq Request(pending', config)
    <3> SUFFICES ASSUME irq \subseteq Request(pending, config) PROVE irq' \subseteq Request(pending', config)
      OBVIOUS
    <3>1. irq' = irq \cup IF pending = << >> THEN Request(s, config) ELSE {}
      BY <1>5 DEF Send
    <3>2. pending = << >> => pending' = s
      BY <1>5, <1>6
    <3>3. pending # << >> => pending' # << >> /\ pending'[1] = pending[1]
      BY <1>5, <1>6, <1>7
    <3>4. irq' = irq \cup (IF pending = << >> THEN Request(pending', config) ELSE {})
      BY <3>1, <3>2
    <3> QED BY <3>3, <3>4, Requests
  <2> QED BY <1>1, <2>1 DEF IInv, Requested, OwnBytes
<1>12. Framed'
  <2> SUFFICES ASSUME ~upset' PROVE Chain(pending', packet)
    BY <1>1, <1>5 DEF IInv, Framed, Reported
  <2>1. ~upset /\ s = whole
    BY <1>5
  <2>2. Chain(pending, packet)
    BY <2>1 DEF IInv, Framed
  <2>3. s # << >> /\ Len(s) = 3 /\ \A i \in 1 .. 3 : s[i].part = i /\ s[i].move = m
    <3>1. Len(s) = 3 /\ s \in Seq(Items)
      BY <1>3, <2>1
    <3>2. s # << >>
      BY <3>1
    <3> QED BY <1>4, <2>1, <3>1, <3>2
  <2>4. Begins(s[1]) /\ Ends(s[Len(s)])
    BY <2>3 DEF Begins, Ends
  <2>5. \A i \in 1 .. Len(s) - 1 : Continues(s[i], s[i + 1])
    <3>1. \A i \in 1 .. Len(s) - 1 : i \in {1, 2} /\ i \in 1 .. 3 /\ i + 1 \in 1 .. 3
      BY <2>3
    <3> QED BY <2>3, <3>1 DEF Continues
  <2> QED BY <1>5, <1>6, <1>7, <2>2, <2>3, <2>4, <2>5, ChainExtended
<1> QED BY <1>6, <1>8, <1>9, <1>10, <1>11, <1>12 DEF IInv

-----------------------------------------------------------------------------
LEMMA Initially == Init => IInv
<1> SUFFICES ASSUME Init PROVE IInv
  OBVIOUS
<1>1. /\ pending = << >> /\ last = 0 /\ irq = {} /\ config \in Byte /\ mouse \in BOOLEAN /\ boot = "flush"
      /\ packet = << >> /\ line = << >>
      /\ report = [dx |-> 0, dy |-> 0, buttons |-> 0, sent |-> << >>]
      /\ ~misread /\ ~left /\ ~mixed /\ ~upset
  BY InputAssumption DEF Init
<1>2. misread \in BOOLEAN /\ left \in BOOLEAN /\ mixed \in BOOLEAN /\ upset \in BOOLEAN
  BY DEF Init
<1>3. /\ \A D : pending \in Seq(D) /\ packet \in Seq(D) /\ line \in Seq(D)
      /\ Len(pending) = 0 /\ Len(packet) = 0 /\ Len(line) = 0 /\ DOMAIN pending = {} /\ DOMAIN packet = {}
  BY <1>1
<1>4. MaxPending \in Nat /\ LineMax \in Nat
  BY InputAssumption
<1>5. report \in [dx : Delta, dy : Delta, buttons : 0 .. 7, sent : Seq(Seen)] /\ report.sent = << >>
  <2>1. 0 \in Delta /\ 0 \in 0 .. 7 /\ << >> \in Seq(Seen)
    BY DEF Delta
  <2> QED BY <1>1, <2>1
<1>6. Types
  BY <1>1, <1>2, <1>3, <1>4, <1>5 DEF Types, Boot, Byte
<1>7. Roomy /\ Answered /\ Requested /\ OwnBytes /\ Quiet
  BY <1>1, <1>3, <1>4 DEF Roomy, Answered, Requested, OwnBytes, Quiet
<1>8. Framed
  BY <1>1, <1>3, <1>5 DEF Framed, Chain, Begun, Reported
<1> QED BY <1>6, <1>7, <1>8 DEF IInv

LEMMA Inductive == IInv /\ [Next]_vars => IInv'
<1> SUFFICES ASSUME IInv, [Next]_vars PROVE IInv'
  OBVIOUS
<1>1. CASE UNCHANGED vars
  <2>1. UNCHANGED <<pending, last, irq, config, mouse, boot, packet, report, line, misread, left, mixed, upset>>
    BY <1>1 DEF vars, cpu, wrong
  <2>2. Types' /\ Roomy' /\ Quiet'
    BY <2>1 DEF IInv, Types, Roomy, Quiet
  <2>3. Answered' /\ Requested' /\ OwnBytes'
    BY <2>1 DEF IInv, Answered, Requested, OwnBytes
  <2>4. Framed'
    BY <2>1 DEF IInv, Framed, Reported
  <2> QED BY <2>2, <2>3, <2>4 DEF IInv
<1>2. CASE Kernel
  <2>1. Polls \/ Flushed \/ AskConfig \/ Configure \/ Commands \/ Sti \/ KeyboardInterrupt \/ MouseInterrupt
    BY <1>2 DEF Kernel, Polls, Commands, Handlers
  <2> QED
    BY <2>1, PollStep, QuietStep, AskStep, CommandStep, StiStep, KeyboardStep, MouseStep
<1>3. CASE User
  BY <1>3, KeyStep, MoveStep DEF User
<1> QED BY <1>1, <1>2, <1>3 DEF Next

(* The inductive invariant holds in every state. *)
THEOREM Invariance == Spec => []IInv
  BY Initially, Inductive, PTL DEF Spec

(* Everything on its way is a byte, the packet and the line stay within their buffers,
   and a movement within the width of its report. *)
THEOREM TypeCorrect == Spec => []TypeOK
<1>1. IInv => TypeOK
  <2> SUFFICES ASSUME IInv PROVE TypeOK
    OBVIOUS
  <2>1. pending \in Seq(Items) /\ MaxPending \in Nat /\ Len(pending) <= MaxPending + 2
    BY InputAssumption DEF IInv, Types
  <2>2. \A i \in DOMAIN pending : pending[i].byte \in Byte /\ pending[i].part \in 0 .. 3
    <3>1. \A i \in DOMAIN pending : pending[i] \in Seen
      BY <2>1, Lengths DEF Seen
    <3> QED BY <3>1, ItemFacts
  <2>3. Len(pending) <= MaxPending + 3
    <3>1. Len(pending) \in Nat
      BY <2>1, Lengths
    <3> QED BY <2>1, <3>1
  <2>4. report.dx \in Delta /\ report.dy \in Delta /\ report.buttons \in 0 .. 7
    BY DEF IInv, Types
  <2>5. {misread, left, mixed, upset} \subseteq BOOLEAN
    <3>1. misread \in BOOLEAN /\ left \in BOOLEAN /\ mixed \in BOOLEAN /\ upset \in BOOLEAN
      BY DEF IInv, Types
    <3> QED BY <3>1
  <2> QED BY <2>2, <2>3, <2>4, <2>5 DEF IInv, Types, TypeOK
<1> QED BY <1>1, Invariance, PTL

(* keyboard.c:31, mouse.c:53: a handler takes a byte that is not its device's only when a
   request outlived its byte at boot, or when a key came between keyboard_init and
   mouse_init. *)
THEOREM BytesOwned == Spec => []OwnBytes
<1>1. IInv => OwnBytes
  BY DEF IInv
<1> QED BY <1>1, Invariance, PTL

(* mouse.c:54, :59: unless a byte was lost or a foreign one came in between, the driver
   is in step with the mouse and reports what the mouse did. *)
THEOREM DriverInStep == Spec => []InStep
<1>1. IInv => InStep
  <2> SUFFICES ASSUME IInv, ~upset, \A i \in DOMAIN pending : FirstOfMouse(i) => pending[i].part > 0
               PROVE  Aligned
    BY DEF InStep
  <2>1. /\ Chain(pending, packet) /\ Begun(packet) /\ Reported
        /\ packet \in Seq(Seen) /\ Len(packet) <= 2 /\ pending \in Seq(Items)
    BY DEF IInv, Framed, Types
  <2>2. ASSUME NEW i \in DOMAIN pending, FirstOfMouse(i) PROVE pending[i].part = Len(packet) + 1
    <3>1. IsFirst(pending, i)
      BY <2>2 DEF FirstOfMouse, IsFirst
    <3>2. Awaited(packet, pending[i])
      BY <2>1, <3>1 DEF Chain
    <3>3. pending[i].part \in 0 .. 3 /\ pending[i].part > 0
      <4>1. pending[i] \in Seen
        BY <2>1, Lengths DEF Seen
      <4> QED BY <2>2, <4>1, ItemFacts
    <3>4. CASE packet = << >>
      <4>1. Len(packet) = 0
        BY <3>4
      <4> QED BY <3>2, <3>3, <3>4, <4>1 DEF Awaited, Begins
    <3>5. CASE packet # << >>
      <4>1. Len(packet) \in Nat \ {0} /\ DOMAIN packet = 1 .. Len(packet)
        BY <2>1, <3>5, Lengths
      <4>2. Len(packet) \in {1, 2} /\ Len(packet) \in DOMAIN packet
        BY <2>1, <4>1
      <4>3. packet[Len(packet)].part = Len(packet)
        BY <2>1, <4>2 DEF Begun
      <4> QED BY <3>2, <3>5, <4>2, <4>3 DEF Awaited, Continues
    <3> QED BY <3>4, <3>5
  <2>3. \A i \in DOMAIN packet : packet[i].part = i /\ packet[i].move = packet[1].move
    BY <2>1 DEF Begun
  <2> QED BY <2>1, <2>2, <2>3 DEF Aligned, Reported
<1> QED BY <1>1, Invariance, PTL

-----------------------------------------------------------------------------
(* The order of the keys.                                                  *)

(* what the line may be, and its states while codes s are fed to it one by one *)
Text == {buf \in Seq(Mapped \ {Enter, Backspace}) : Len(buf) <= LineMax}
Runs(f, s) == \A i \in 1 .. Len(s) : f[i] = Feeds(f[i - 1], s[i])

(* A code keeps the line within its buffer. *)
LEMMA FeedsText ==
  ASSUME NEW buf \in Text, NEW c
  PROVE  Feeds(buf, c) \in Text
<1>1. CASE c \in Mapped
  BY <1>1, LineFits DEF Text, Feeds
<1>2. CASE c \notin Mapped
  BY <1>2 DEF Feeds
<1> QED BY <1>1, <1>2

(* What Feed computes is reached one code at a time. *)
LEMMA FeedRun ==
  ASSUME NEW buf \in Text, NEW s \in Seq(Int)
  PROVE  \E f \in [0 .. Len(s) -> Text] : f[0] = buf /\ Runs(f, s) /\ Feed(buf, s) = f[Len(s)]
<1> DEFINE n == Len(s)
           R(f) == f = [i \in 0 .. n |-> IF i = 0 THEN buf ELSE Feeds(f[i - 1], s[i])]
           fed == CHOOSE f : R(f)
           G == [x \in (0 .. n) \X Text |-> Feeds(x[2], s[x[1]])]
<1>1. n \in Nat /\ Feed(buf, s) = fed[n]
  BY DEF Feed
<1>2. G \in [(0 .. n) \X Text -> Text]
  BY FeedsText
<1>3. \A i \in 0 .. n, b \in Text : G[<<i, b>>] = Feeds(b, s[i])
  OBVIOUS
<1> HIDE DEF n, G
<1>4. PICK f \in [0 .. n -> Text] : Steps(f, 0, n, buf, G)
  <2>1. n \in Int /\ 0 \in Int
    BY <1>1
  <2> QED BY <1>2, <2>1, Iteration, Zenon
<1>5. \A i \in 0 .. n : i # 0 => i - 1 \in 0 .. n
  BY <1>1
<1>6. \A i \in 0 .. n : f[i] = IF i = 0 THEN buf ELSE Feeds(f[i - 1], s[i])
  BY <1>3, <1>4, <1>5 DEF Steps
<1>7. f = [i \in 0 .. n |-> f[i]]
  BY <1>4
<1>8. R(f)
  BY <1>6, <1>7
<1>9. R(fed)
  <2> HIDE DEF R
  <2> QED BY <1>8
<1> HIDE DEF fed
<1>10. DOMAIN fed = 0 .. n /\ \A i \in 0 .. n : fed[i] = IF i = 0 THEN buf ELSE Feeds(fed[i - 1], s[i])
  BY <1>9
<1> DEFINE P == {i \in 0 .. n : fed[i] \in Text}
<1>11. 0 .. n \subseteq P
  <2>1. 0 \in P
    <3>1. 0 \in 0 .. n
      BY <1>1
    <3> QED BY <1>10, <3>1
  <2>2. ASSUME NEW i \in 0 .. n - 1, i \in P PROVE i + 1 \in P
    <3>1. PICK k \in 0 .. n : k = i + 1
      BY <1>1
    <3>2. k # 0 /\ k - 1 = i /\ fed[i] \in Text
      BY <2>2, <3>1
    <3>3. fed[k] = Feeds(fed[i], s[k])
      BY <1>10, <3>2
    <3> QED BY <3>1, <3>2, <3>3, FeedsText
  <2>3. n \in Int /\ 0 \in Int
    BY <1>1
  <2> HIDE DEF P
  <2> QED BY <2>1, <2>2, <2>3, Upwards
<1>12. fed \in [0 .. n -> Text]
  <2>1. fed = [i \in 0 .. n |-> fed[i]]
    BY <1>9, <1>10
  <2>2. \A i \in 0 .. n : fed[i] \in Text
    BY <1>11
  <2> QED BY <2>1, <2>2
<1>13. fed[0] = buf
  <2>1. 0 \in 0 .. n
    BY <1>1
  <2> QED BY <1>10, <2>1
<1>14. Runs(fed, s)
  <2>1. \A i \in 1 .. n : i \in 0 .. n /\ i # 0
    BY <1>1
  <2> QED BY <1>10, <2>1 DEF Runs, n
<1> QED BY <1>1, <1>12, <1>13, <1>14 DEF n

(* Two runs over the same codes end alike if they begin alike. *)
LEMMA SameRun ==
  ASSUME NEW f, NEW g, NEW s, NEW t, Len(s) \in Nat, Len(t) \in Nat, Runs(f, s), Runs(g, t),
         NEW p \in Nat, NEW n \in Nat, NEW r \in Nat, r = p + n, r <= Len(s), n <= Len(t),
         f[p] = g[0], \A i \in 1 .. n : s[p + i] = t[i]
  PROVE  f[r] = g[n]
<1> DEFINE P == {i \in 0 .. n : f[p + i] = g[i]}
<1>1. 0 \in P
  <2>1. p + 0 = p /\ 0 \in 0 .. n
    OBVIOUS
  <2> QED BY <2>1
<1>2. ASSUME NEW i \in 0 .. n - 1, i \in P PROVE i + 1 \in P
  <2>1. PICK k \in 1 .. n : k = i + 1
    OBVIOUS
  <2>2. PICK x \in 1 .. Len(s) : x = p + k
    OBVIOUS
  <2>3. x - 1 = p + i /\ k - 1 = i /\ k \in 0 .. n /\ k \in 1 .. Len(t)
    BY <2>1, <2>2
  <2>4. f[x] = Feeds(f[x - 1], s[x]) /\ g[k] = Feeds(g[k - 1], t[k])
    BY <2>3 DEF Runs
  <2>5. f[x - 1] = g[k - 1]
    BY <1>2, <2>3
  <2>6. s[x] = t[k]
    BY <2>2
  <2> QED BY <2>1, <2>2, <2>3, <2>4, <2>5, <2>6
<1>3. 0 .. n \subseteq P
  <2>1. n \in Int /\ 0 \in Int
    OBVIOUS
  <2> HIDE DEF P
  <2> QED BY <1>1, <1>2, <2>1, Upwards
<1> QED BY <1>3

(* Codes that name no character leave the line alone. *)
LEMMA Silent ==
  ASSUME NEW f, NEW s, Len(s) \in Nat, Runs(f, s), NEW p \in Nat, NEW r \in Nat, p <= r, r <= Len(s),
         \A i \in p + 1 .. r : s[i] \notin Mapped
  PROVE  f[r] = f[p]
<1> DEFINE P == {i \in p .. r : f[i] = f[p]}
<1>1. p \in P
  OBVIOUS
<1>2. ASSUME NEW i \in p .. r - 1, i \in P PROVE i + 1 \in P
  <2>1. PICK k \in p + 1 .. r : k = i + 1
    OBVIOUS
  <2>2. k \in 1 .. Len(s) /\ k - 1 = i /\ k \in p .. r
    BY <2>1
  <2>3. f[k] = f[i]
    BY <2>1, <2>2 DEF Runs, Feeds
  <2> QED BY <1>2, <2>1, <2>2, <2>3
<1>3. p .. r \subseteq P
  <2>1. p \in Int /\ r \in Int
    OBVIOUS
  <2> HIDE DEF P
  <2> QED BY <1>1, <1>2, <2>1, Upwards
<1> QED BY <1>3

(* Silent codes at the end do not count. *)
LEMMA FeedExtended ==
  ASSUME NEW buf \in Text, NEW s \in Seq(Int), NEW t \in Seq(Int), Len(s) <= Len(t),
         \A i \in 1 .. Len(s) : t[i] = s[i],
         \A i \in Len(s) + 1 .. Len(t) : t[i] \notin Mapped
  PROVE  Feed(buf, t) = Feed(buf, s)
<1>1. Len(s) \in Nat /\ Len(t) \in Nat
  OBVIOUS
<1>2. PICK f : f[0] = buf /\ Runs(f, s) /\ Feed(buf, s) = f[Len(s)]
  BY FeedRun
<1>3. PICK g : g[0] = buf /\ Runs(g, t) /\ Feed(buf, t) = g[Len(t)]
  BY FeedRun
<1>4. f[Len(s)] = g[Len(s)]
  <2>1. PICK n \in Nat : n = Len(s)
    BY <1>1
  <2>2. 0 \in Nat /\ n = 0 + n /\ n <= Len(s) /\ n <= Len(t)
    BY <1>1, <2>1
  <2>3. \A i \in 1 .. n : s[0 + i] = t[i]
    <3>1. \A i \in 1 .. n : 0 + i = i
      OBVIOUS
    <3> QED BY <2>1, <3>1
  <2>4. f[0] = g[0] /\ Runs(f, s) /\ Runs(g, t)
    BY <1>2, <1>3
  <2>5. f[n] = g[n]
    BY <1>1, <2>2, <2>3, <2>4, SameRun
  <2> QED BY <2>1, <2>5
<1>5. g[Len(t)] = g[Len(s)]
  <2>1. Len(s) <= Len(t) /\ Len(t) <= Len(t)
    BY <1>1
  <2> QED BY <1>1, <1>3, <2>1, Silent
<1> QED BY <1>2, <1>3, <1>4, <1>5

(* A code that goes in before silent ones only is the last that counts. *)
LEMMA FeedInserted ==
  ASSUME NEW buf \in Text, NEW s \in Seq(Int), NEW t \in Seq(Int), Len(t) = Len(s) + 1,
         NEW n \in 1 .. Len(s) + 1, \A k \in 1 .. Len(s) : t[IF k < n THEN k ELSE k + 1] = s[k],
         \A k \in n .. Len(s) : s[k] \notin Mapped
  PROVE  Feed(buf, t) = Feeds(Feed(buf, s), t[n])
<1>1. Len(s) \in Nat /\ Len(t) \in Nat /\ n \in Nat
  OBVIOUS
<1>2. PICK p \in Nat : p = n - 1
  OBVIOUS
<1>3. PICK f : f[0] = buf /\ Runs(f, s) /\ Feed(buf, s) = f[Len(s)]
  BY FeedRun
<1>4. PICK g : g[0] = buf /\ Runs(g, t) /\ Feed(buf, t) = g[Len(t)]
  BY FeedRun
<1>5. f[p] = g[p]
  <2>1. ASSUME NEW i \in 1 .. p PROVE s[0 + i] = t[i]
    <3>1. i \in 1 .. Len(s) /\ i < n /\ 0 + i = i
      BY <1>1, <1>2
    <3> QED BY <3>1
  <2>2. 0 \in Nat /\ p = 0 + p /\ p <= Len(s) /\ p <= Len(t)
    BY <1>1, <1>2
  <2>3. f[0] = g[0] /\ Runs(f, s) /\ Runs(g, t)
    BY <1>3, <1>4
  <2> QED BY <1>1, <2>1, <2>2, <2>3, SameRun
<1>6. g[n] = Feeds(f[p], t[n])
  <2>1. n \in 1 .. Len(t) /\ n - 1 = p
    BY <1>1, <1>2
  <2> QED BY <1>4, <1>5, <2>1 DEF Runs
<1>7. f[Len(s)] = f[p]
  <2>1. p <= Len(s) /\ \A i \in p + 1 .. Len(s) : i \in n .. Len(s)
    BY <1>1, <1>2
  <2>2. Len(s) <= Len(s)
    BY <1>1
  <2> QED BY <1>1, <1>3, <2>1, <2>2, Silent, Zenon
<1>8. g[Len(t)] = g[n]
  <2>1. ASSUME NEW i \in n + 1 .. Len(t) PROVE t[i] \notin Mapped
    <3>1. PICK k \in n .. Len(s) : k = i - 1
      BY <1>1
    <3>2. k \in 1 .. Len(s) /\ ~(k < n) /\ k + 1 = i
      BY <1>1, <3>1
    <3>3. t[i] = s[k]
      BY <3>2
    <3> QED BY <3>1, <3>3
  <2>2. n <= Len(t) /\ Len(t) <= Len(t)
    BY <1>1
  <2> QED BY <1>1, <1>4, <2>1, <2>2, Silent, Zenon
<1> QED BY <1>3, <1>4, <1>6, <1>7, <1>8

(* The first code may be taken out and fed on its own. *)
LEMMA FeedTaken ==
  ASSUME NEW buf \in Text, NEW s \in Seq(Int), s # << >>
  PROVE  Feed(buf, s) = Feed(Feeds(buf, s[1]), Tail(s))
<1>1. PICK n \in Nat : n = Len(s) - 1
  OBVIOUS
<1>2. PICK t : t = Tail(s)
  OBVIOUS
<1>3. t \in Seq(Int) /\ Len(t) = n /\ Len(s) = 1 + n /\ \A i \in 1 .. n : s[1 + i] = t[i]
  BY <1>1, <1>2
<1>4. PICK f : f[0] = buf /\ Runs(f, s) /\ Feed(buf, s) = f[Len(s)]
  BY FeedRun
<1>5. PICK later \in Text : later = Feeds(buf, s[1])
  <2>1. Feeds(buf, s[1]) \in Text
    BY FeedsText
  <2> QED BY <2>1
<1>6. PICK g : g[0] = later /\ Runs(g, t) /\ Feed(later, t) = g[Len(t)]
  <2>1. t \in Seq(Int)
    BY <1>3
  <2> QED BY <2>1, FeedRun
<1>7. f[1] = g[0]
  <2>1. 1 \in 1 .. Len(s) /\ 1 - 1 = 0
    BY <1>3
  <2> QED BY <1>4, <1>5, <1>6, <2>1 DEF Runs
<1>8. f[Len(s)] = g[n]
  <2>1. /\ 1 \in Nat /\ Len(s) \in Nat /\ Len(t) \in Nat /\ Len(s) = 1 + n
        /\ Len(s) <= Len(s) /\ n <= Len(t)
    BY <1>3
  <2>2. Runs(f, s) /\ Runs(g, t) /\ \A i \in 1 .. n : s[1 + i] = t[i]
    BY <1>3, <1>4, <1>6
  <2> QED BY <1>7, <2>1, <2>2, SameRun
<1> QED BY <1>2, <1>3, <1>4, <1>5, <1>6, <1>8

-----------------------------------------------------------------------------
(* While the boot reads the port, what counts as typed is what is still to come:
   codes without what names no character. *)
Picks(f, t, s) ==
  /\ f \in [1 .. Len(t) -> 1 .. Len(s)]
  /\ \A j, k \in 1 .. Len(t) : j < k => f[j] < f[k]
  /\ \A k \in 1 .. Len(t) : t[k] = s[f[k]] /\ t[k] \in Mapped
  /\ \A i \in 1 .. Len(s) : s[i] \in Mapped => \E k \in 1 .. Len(t) : f[k] = i
Filtered(t, s) == \E f : Picks(f, t, s)

(* Both give the same line. *)
LEMMA FeedFiltered ==
  ASSUME NEW buf \in Text, NEW s \in Seq(Int), NEW t \in Seq(Int), Filtered(t, s)
  PROVE  Feed(buf, t) = Feed(buf, s)
<1>1. Len(s) \in Nat /\ Len(t) \in Nat
  OBVIOUS
<1>2. PICK at : Picks(at, t, s)
  BY DEF Filtered
<1>3. PICK f : f[0] = buf /\ Runs(f, s) /\ Feed(buf, s) = f[Len(s)]
  BY FeedRun
<1>4. PICK g : g[0] = buf /\ Runs(g, t) /\ Feed(buf, t) = g[Len(t)]
  BY FeedRun
<1> DEFINE Passed(k, i) == /\ \A j \in 1 .. k : at[j] <= i
                           /\ \A j \in k + 1 .. Len(t) : at[j] > i
           P == {i \in 0 .. Len(s) : \A k \in 0 .. Len(t) : Passed(k, i) => f[i] = g[k]}
<1>5. 0 \in P
  <2>1. ASSUME NEW k \in 0 .. Len(t), Passed(k, 0) PROVE f[0] = g[k]
    <3>1. k = 0
      <4> SUFFICES ASSUME k # 0 PROVE FALSE
        OBVIOUS
      <4>1. k \in 1 .. k /\ k \in 1 .. Len(t)
        BY <1>1
      <4>2. at[k] <= 0 /\ at[k] \in 1 .. Len(s)
        BY <1>2, <2>1, <4>1 DEF Picks
      <4> QED BY <4>2
    <3> QED BY <1>3, <1>4, <3>1
  <2>2. 0 \in 0 .. Len(s)
    BY <1>1
  <2> QED BY <2>1, <2>2
<1>6. ASSUME NEW i \in 0 .. Len(s) - 1, i \in P PROVE i + 1 \in P
  <2>1. PICK x \in 1 .. Len(s) : x = i + 1
    BY <1>1
  <2>2. x - 1 = i /\ x \in 0 .. Len(s) /\ f[x] = Feeds(f[i], s[x])
    BY <1>1, <1>3, <2>1 DEF Runs
  <2>3. ASSUME NEW k \in 0 .. Len(t), Passed(k, x) PROVE f[x] = g[k]
    <3>1. \A j \in 1 .. Len(t) : at[j] \in 1 .. Len(s)
      BY <1>2 DEF Picks
    <3>2. CASE s[x] \notin Mapped
      <4>1. ASSUME NEW j \in 1 .. Len(t) PROVE at[j] # x
        BY <1>2, <3>2 DEF Picks
      <4>2. Passed(k, i)
        <5>1. ASSUME NEW j \in 1 .. k PROVE at[j] <= i
          <6>1. j \in 1 .. Len(t) /\ at[j] <= x
            BY <1>1, <2>3
          <6> QED BY <1>1, <2>1, <3>1, <4>1, <6>1
        <5>2. ASSUME NEW j \in k + 1 .. Len(t) PROVE at[j] > i
          <6>1. j \in 1 .. Len(t) /\ at[j] > x
            BY <1>1, <2>3
          <6> QED BY <1>1, <2>1, <3>1, <6>1
        <5> QED BY <5>1, <5>2
      <4>3. f[i] = g[k]
        <5> HIDE DEF Passed
        <5> QED BY <1>6, <4>2
      <4> QED BY <2>2, <3>2, <4>3 DEF Feeds
    <3>3. CASE s[x] \in Mapped
      <4>1. PICK m \in 1 .. Len(t) : at[m] = x
        BY <1>2, <3>3 DEF Picks
      <4>2. m = k
        <5>1. m \in Int /\ k \in Int
          OBVIOUS
        <5>2. ~(m < k)
          <6> SUFFICES ASSUME m < k PROVE FALSE
            OBVIOUS
          <6>1. k \in 1 .. Len(t) /\ k \in 1 .. k
            BY <1>1
          <6>2. at[m] < at[k] /\ at[k] <= x /\ at[k] \in 1 .. Len(s)
            BY <1>2, <2>3, <3>1, <6>1 DEF Picks
          <6> QED BY <4>1, <6>2
        <5>3. ~(m > k)
          <6> SUFFICES ASSUME m > k PROVE FALSE
            OBVIOUS
          <6>1. m \in k + 1 .. Len(t)
            BY <1>1
          <6>2. at[m] > x
            BY <2>3, <6>1
          <6> QED BY <4>1, <6>2
        <5> QED BY <5>1, <5>2, <5>3
      <4>3. k \in 1 .. Len(t) /\ k - 1 \in 0 .. Len(t) /\ g[k] = Feeds(g[k - 1], s[x])
        <5>1. k \in 1 .. Len(t) /\ k - 1 \in 0 .. Len(t)
          BY <1>1, <4>2
        <5>2. t[k] = s[x]
          BY <1>2, <4>1, <4>2 DEF Picks
        <5> QED BY <1>4, <5>1, <5>2 DEF Runs
      <4>4. Passed(k - 1, i)
        <5>1. ASSUME NEW j \in 1 .. k - 1 PROVE at[j] <= i
          <6>1. j \in 1 .. Len(t) /\ j < k
            BY <1>1
          <6>2. at[j] < at[k] /\ at[k] = x
            BY <1>2, <4>1, <4>2, <4>3, <6>1 DEF Picks
          <6> QED BY <1>1, <2>1, <3>1, <6>1, <6>2
        <5>2. ASSUME NEW j \in k - 1 + 1 .. Len(t) PROVE at[j] > i
          <6>1. j = k \/ j \in k + 1 .. Len(t)
            BY <1>1
          <6>2. at[k] = x
            BY <4>1, <4>2
          <6>3. CASE j = k
            BY <2>1, <6>2, <6>3
          <6>4. CASE j \in k + 1 .. Len(t)
            <7>1. j \in 1 .. Len(t) /\ at[j] > x
              BY <1>1, <2>3, <6>4
            <7> QED BY <2>1, <3>1, <7>1
          <6> QED BY <6>1, <6>3, <6>4
        <5> QED BY <5>1, <5>2
      <4>5. f[i] = g[k - 1]
        <5> HIDE DEF Passed
        <5> QED BY <1>6, <4>3, <4>4
      <4> QED BY <2>2, <4>3, <4>5
    <3> QED BY <3>2, <3>3
  <2> HIDE DEF Passed
  <2> QED BY <2>1, <2>2, <2>3
<1>7. Len(s) \in P
  <2>1. Len(s) \in Int /\ 0 \in Int /\ Len(s) \in 0 .. Len(s)
    BY <1>1
  <2>2. 0 .. Len(s) \subseteq P
    <3> HIDE DEF P
    <3> QED BY <1>5, <1>6, <2>1, Upwards
  <2> QED BY <2>1, <2>2
<1>8. Passed(Len(t), Len(s))
  <2>1. ASSUME NEW j \in 1 .. Len(t) PROVE at[j] <= Len(s)
    <3>1. at[j] \in 1 .. Len(s)
      BY <1>2 DEF Picks
    <3> QED BY <1>1, <3>1
  <2>2. Len(t) + 1 .. Len(t) = {}
    BY <1>1
  <2> QED BY <2>1, <2>2
<1>9. Len(t) \in 0 .. Len(t)
  BY <1>1
<1>10. f[Len(s)] = g[Len(t)]
  <2> HIDE DEF Passed
  <2> QED BY <1>7, <1>8, <1>9
<1> QED BY <1>3, <1>4, <1>10

(* The same three changes to the codes keep them filtered: silent ones at the end, *)
LEMMA FilteredExtended ==
  ASSUME NEW t \in Seq(Int), NEW s \in Seq(Int), NEW u \in Seq(Int), Filtered(t, s), Len(s) <= Len(u),
         \A i \in 1 .. Len(s) : u[i] = s[i],
         \A i \in Len(s) + 1 .. Len(u) : u[i] \notin Mapped
  PROVE  Filtered(t, u)
<1>1. PICK at : Picks(at, t, s)
  BY DEF Filtered
<1>2. Len(s) \in Nat /\ Len(u) \in Nat /\ Len(t) \in Nat
  OBVIOUS
<1>3. at \in [1 .. Len(t) -> 1 .. Len(u)]
  <2>1. 1 .. Len(s) \subseteq 1 .. Len(u)
    BY <1>2
  <2> QED BY <1>1, <2>1 DEF Picks
<1>4. \A k \in 1 .. Len(t) : t[k] = u[at[k]] /\ t[k] \in Mapped
  BY <1>1 DEF Picks
<1>5. ASSUME NEW i \in 1 .. Len(u), u[i] \in Mapped PROVE \E k \in 1 .. Len(t) : at[k] = i
  <2>1. i \in 1 .. Len(s)
    BY <1>2, <1>5
  <2> QED BY <1>1, <1>5, <2>1 DEF Picks
<1>6. Picks(at, t, u)
  BY <1>1, <1>3, <1>4, <1>5 DEF Picks
<1> QED BY <1>6 DEF Filtered

(* one put in before silent ones only, *)
LEMMA FilteredInserted ==
  ASSUME NEW t \in Seq(Mapped), NEW s \in Seq(Int), NEW u \in Seq(Int), Filtered(t, s), Len(u) = Len(s) + 1,
         NEW n \in 1 .. Len(s) + 1, \A k \in 1 .. Len(s) : u[IF k < n THEN k ELSE k + 1] = s[k],
         \A k \in n .. Len(s) : s[k] \notin Mapped
  PROVE  Filtered(IF u[n] \in Mapped THEN Append(t, u[n]) ELSE t, u)
<1>1. PICK at : Picks(at, t, s)
  BY DEF Filtered
<1>2. Len(s) \in Nat /\ Len(u) \in Nat /\ Len(t) \in Nat /\ n \in 1 .. Len(u)
  OBVIOUS
<1>3. \A k \in 1 .. Len(t) : at[k] \in 1 .. Len(s) /\ at[k] < n /\ at[k] \in 1 .. Len(u)
  <2> TAKE k \in 1 .. Len(t)
  <2>1. at[k] \in 1 .. Len(s) /\ s[at[k]] \in Mapped
    BY <1>1 DEF Picks
  <2>2. ~(at[k] >= n)
    BY <1>2, <2>1
  <2> QED BY <1>2, <2>1, <2>2
<1>4. \A k \in 1 .. Len(t) : t[k] = u[at[k]] /\ t[k] \in Mapped
  BY <1>1, <1>3 DEF Picks
<1>5. ASSUME NEW i \in 1 .. Len(u), u[i] \in Mapped PROVE i = n \/ \E k \in 1 .. Len(t) : at[k] = i
  <2>1. CASE i < n
    <3>1. i \in 1 .. Len(s)
      BY <1>2, <2>1
    <3>2. u[i] = s[i]
      BY <2>1, <3>1
    <3> QED BY <1>1, <1>5, <3>1, <3>2 DEF Picks
  <2>2. CASE i > n
    <3>1. PICK k \in n .. Len(s) : k = i - 1
      BY <1>2, <2>2
    <3>2. k \in 1 .. Len(s) /\ ~(k < n) /\ k + 1 = i
      BY <1>2, <3>1
    <3>3. u[i] = s[k]
      BY <3>2
    <3> QED BY <1>5, <3>1, <3>3
  <2> QED BY <1>2, <2>1, <2>2
<1>6. CASE u[n] \notin Mapped
  <2>1. at \in [1 .. Len(t) -> 1 .. Len(u)]
    BY <1>1, <1>3 DEF Picks
  <2>2. Picks(at, t, u)
    BY <1>1, <1>4, <1>5, <1>6, <2>1 DEF Picks
  <2> QED BY <1>6, <2>2 DEF Filtered
<1>7. CASE u[n] \in Mapped
  <2>1. PICK more \in Seq(Mapped), m \in Nat :
          /\ more = Append(t, u[n]) /\ m = Len(t) + 1 /\ Len(more) = m
          /\ more[m] = u[n] /\ \A k \in 1 .. Len(t) : more[k] = t[k]
    <3>1. PICK c \in Mapped : c = u[n]
      BY <1>7
    <3>2. /\ Append(t, c) \in Seq(Mapped) /\ Len(Append(t, c)) = Len(t) + 1
          /\ Append(t, c)[Len(t) + 1] = c /\ \A k \in 1 .. Len(t) : Append(t, c)[k] = t[k]
      OBVIOUS
    <3>3. Len(t) + 1 \in Nat
      BY <1>2
    <3> QED BY <3>1, <3>2, <3>3
  <2>2. \A k \in 1 .. m : k = m \/ k \in 1 .. Len(t)
    BY <1>2, <2>1
  <2> DEFINE f == [k \in 1 .. m |-> IF k = m THEN n ELSE at[k]]
  <2>3. f[m] = n /\ \A k \in 1 .. Len(t) : k \in 1 .. m /\ f[k] = at[k] /\ k < m
    BY <1>2, <2>1
  <2>4. f \in [1 .. m -> 1 .. Len(u)]
    <3>1. \A k \in 1 .. m : (IF k = m THEN n ELSE at[k]) \in 1 .. Len(u)
      BY <1>2, <1>3, <2>2
    <3> QED BY <3>1
  <2> HIDE DEF f
  <2>5. ASSUME NEW j \in 1 .. m, NEW k \in 1 .. m, j < k PROVE f[j] < f[k]
    <3>1. j \in 1 .. Len(t)
      BY <1>2, <2>1, <2>5
    <3>2. CASE k = m
      BY <1>3, <2>3, <3>1, <3>2
    <3>3. CASE k \in 1 .. Len(t)
      BY <1>1, <2>3, <2>5, <3>1, <3>3 DEF Picks
    <3> QED BY <2>2, <3>2, <3>3
  <2>6. \A k \in 1 .. m : more[k] = u[f[k]] /\ more[k] \in Mapped
    BY <1>4, <1>7, <2>1, <2>2, <2>3
  <2>7. ASSUME NEW i \in 1 .. Len(u), u[i] \in Mapped PROVE \E k \in 1 .. m : f[k] = i
    <3>1. m \in 1 .. m
      BY <1>2, <2>1
    <3>2. CASE i = n
      BY <2>3, <3>1, <3>2
    <3>3. CASE \E k \in 1 .. Len(t) : at[k] = i
      BY <2>3, <3>3
    <3> QED BY <1>5, <2>7, <3>2, <3>3
  <2>8. Picks(f, more, u)
    BY <2>1, <2>4, <2>5, <2>6, <2>7 DEF Picks
  <2> QED BY <1>7, <2>1, <2>8 DEF Filtered
<1> QED BY <1>6, <1>7

(* the first one taken out. *)
LEMMA FilteredTaken ==
  ASSUME NEW t \in Seq(Mapped), NEW s \in Seq(Int), s # << >>, Filtered(t, s)
  PROVE  /\ s[1] \in Mapped => t # << >>
         /\ Filtered(IF s[1] \in Mapped THEN Tail(t) ELSE t, Tail(s))
<1>1. PICK at : Picks(at, t, s)
  BY DEF Filtered
<1>2. PICK rest \in Seq(Int), n \in Nat : /\ rest = Tail(s) /\ n = Len(rest) /\ Len(s) = n + 1
                                          /\ \A i \in 1 .. n : rest[i] = s[i + 1]
  <2>1. Tail(s) \in Seq(Int) /\ Len(Tail(s)) \in Nat /\ Len(s) = Len(Tail(s)) + 1
        /\ \A i \in 1 .. Len(Tail(s)) : Tail(s)[i] = s[i + 1]
    OBVIOUS
  <2> QED BY <2>1
<1>3. Len(t) \in Nat /\ \A k \in 1 .. Len(t) : at[k] \in 1 .. n + 1 /\ t[k] = s[at[k]] /\ t[k] \in Mapped
  BY <1>1, <1>2 DEF Picks
<1>4. \A i \in 1 .. n : i + 1 \in 1 .. n + 1
  BY <1>2
<1>5. CASE s[1] \notin Mapped
  <2>1. \A k \in 1 .. Len(t) : at[k] # 1 /\ at[k] - 1 \in 1 .. n /\ (at[k] - 1) + 1 = at[k]
    <3> TAKE k \in 1 .. Len(t)
    <3>1. PICK x \in 1 .. n + 1 : x = at[k] /\ x # 1
      BY <1>3, <1>5
    <3>2. x - 1 \in 1 .. n /\ (x - 1) + 1 = x
      BY <3>1
    <3> QED BY <3>1, <3>2
  <2> DEFINE f == [k \in 1 .. Len(t) |-> at[k] - 1]
  <2>2. f \in [1 .. Len(t) -> 1 .. n] /\ \A k \in 1 .. Len(t) : f[k] = at[k] - 1
    BY <2>1
  <2> HIDE DEF f
  <2>3. ASSUME NEW j \in 1 .. Len(t), NEW k \in 1 .. Len(t), j < k PROVE f[j] < f[k]
    <3>1. at[j] < at[k]
      BY <1>1, <2>3 DEF Picks
    <3>2. PICK a \in 1 .. n + 1, b \in 1 .. n + 1 : a = at[j] /\ b = at[k]
      BY <1>3
    <3>3. a < b => a - 1 < b - 1
      OBVIOUS
    <3>4. f[j] = a - 1 /\ f[k] = b - 1
      BY <2>2, <3>2
    <3> QED BY <3>1, <3>2, <3>3, <3>4
  <2>4. \A k \in 1 .. Len(t) : t[k] = rest[f[k]] /\ t[k] \in Mapped
    <3> TAKE k \in 1 .. Len(t)
    <3>1. t[k] = s[at[k]] /\ t[k] \in Mapped
      BY <1>3
    <3>2. f[k] \in 1 .. n /\ f[k] + 1 = at[k]
      BY <2>1, <2>2
    <3>3. rest[f[k]] = s[f[k] + 1]
      BY <1>2, <3>2
    <3> QED BY <3>1, <3>2, <3>3
  <2>5. ASSUME NEW i \in 1 .. n, rest[i] \in Mapped PROVE \E k \in 1 .. Len(t) : f[k] = i
    <3>1. PICK k \in 1 .. Len(t) : at[k] = i + 1
      BY <1>1, <1>2, <1>4, <2>5 DEF Picks
    <3>2. f[k] = i
      BY <2>2, <3>1
    <3> QED BY <3>2
  <2>6. Picks(f, t, rest)
    BY <1>2, <2>2, <2>3, <2>4, <2>5 DEF Picks
  <2> QED BY <1>2, <1>5, <2>6 DEF Filtered
<1>6. CASE s[1] \in Mapped
  <2>1. PICK first \in 1 .. Len(t) : at[first] = 1
    <3>1. 1 \in 1 .. Len(s)
      BY <1>2
    <3> QED BY <1>1, <1>6, <3>1 DEF Picks
  <2>2. 1 \in 1 .. Len(t) /\ at[1] = 1
    <3>1. 1 \in 1 .. Len(t)
      BY <1>3, <2>1
    <3>2. CASE first = 1
      BY <2>1, <3>1, <3>2
    <3>3. CASE first # 1
      <4>1. 1 < first
        BY <1>3, <2>1, <3>3
      <4>2. at[1] < at[first]
        BY <1>1, <3>1, <4>1 DEF Picks
      <4> QED BY <1>3, <2>1, <3>1, <4>2
    <3> QED BY <3>2, <3>3
  <2>3. t # << >>
    BY <2>2
  <2>4. PICK more \in Seq(Mapped), m \in Nat : /\ more = Tail(t) /\ Len(more) = m /\ Len(t) = m + 1
                               /\ \A k \in 1 .. m : more[k] = t[k + 1]
    <3>1. Len(t) # 0 /\ Tail(t) \in Seq(Mapped)
      BY <2>3
    <3>2. Len(Tail(t)) \in Nat /\ Len(t) = Len(Tail(t)) + 1
      BY <1>3, <3>1
    <3>3. \A k \in 1 .. Len(Tail(t)) : Tail(t)[k] = t[k + 1]
      BY <2>3, <3>1, <3>2
    <3> QED BY <3>1, <3>2, <3>3
  <2>5. \A k \in 1 .. m : k + 1 \in 1 .. Len(t) /\ 1 < k + 1
    BY <2>4
  <2>6. \A k \in 1 .. m : at[k + 1] - 1 \in 1 .. n /\ (at[k + 1] - 1) + 1 = at[k + 1]
    <3> TAKE k \in 1 .. m
    <3>1. at[1] < at[k + 1]
      BY <1>1, <2>2, <2>5 DEF Picks
    <3>2. PICK x \in 1 .. n + 1 : x = at[k + 1]
      BY <1>3, <2>5
    <3>3. 1 < x => x - 1 \in 1 .. n /\ (x - 1) + 1 = x
      OBVIOUS
    <3> QED BY <2>2, <3>1, <3>2, <3>3
  <2> DEFINE f == [k \in 1 .. m |-> at[k + 1] - 1]
  <2>7. f \in [1 .. m -> 1 .. n] /\ \A k \in 1 .. m : f[k] = at[k + 1] - 1
    BY <2>6
  <2> HIDE DEF f
  <2>8. ASSUME NEW j \in 1 .. m, NEW k \in 1 .. m, j < k PROVE f[j] < f[k]
    <3>1. j + 1 \in 1 .. Len(t) /\ k + 1 \in 1 .. Len(t) /\ j + 1 < k + 1
      BY <2>5, <2>8
    <3>2. at[j + 1] < at[k + 1]
      BY <1>1, <3>1 DEF Picks
    <3>3. PICK a \in 1 .. n + 1, b \in 1 .. n + 1 : a = at[j + 1] /\ b = at[k + 1]
      BY <1>3, <3>1
    <3>4. f[j] = a - 1 /\ f[k] = b - 1
      BY <2>7, <3>3
    <3>5. a < b => a - 1 < b - 1
      OBVIOUS
    <3> QED BY <3>2, <3>3, <3>4, <3>5
  <2>9. \A k \in 1 .. m : more[k] = rest[f[k]] /\ more[k] \in Mapped
    <3> TAKE k \in 1 .. m
    <3>1. more[k] = s[at[k + 1]] /\ more[k] \in Mapped
      BY <1>3, <2>4, <2>5
    <3>2. rest[f[k]] = s[at[k + 1]]
      BY <1>2, <2>6, <2>7
    <3> QED BY <3>1, <3>2
  <2>10. ASSUME NEW i \in 1 .. n, rest[i] \in Mapped PROVE \E k \in 1 .. m : f[k] = i
    <3>1. PICK k \in 1 .. Len(t) : at[k] = i + 1
      BY <1>1, <1>2, <1>4, <2>10 DEF Picks
    <3>2. k # 1
      BY <2>2, <3>1
    <3>3. PICK j \in 1 .. m : k = j + 1
      <4>1. k - 1 \in 1 .. m /\ k = (k - 1) + 1
        BY <2>4, <3>2
      <4> QED BY <4>1
    <3>4. f[j] = (i + 1) - 1
      BY <2>7, <3>1, <3>3
    <3>5. (i + 1) - 1 = i
      OBVIOUS
    <3> QED BY <3>4, <3>5
  <2>11. Picks(f, more, rest)
    BY <1>2, <2>4, <2>7, <2>8, <2>9, <2>10 DEF Picks
  <2> QED BY <1>2, <1>6, <2>3, <2>4, <2>11 DEF Filtered
<1> QED BY <1>5, <1>6

-----------------------------------------------------------------------------
(* Characters are numbers. *)
LEMMA MappedCodes ==
  ASSUME NEW t \in Seq(Mapped)
  PROVE  t \in Seq(Int)
<1>1. Mapped \subseteq Int
  BY DEF Mapped
<1>2. Len(t) \in Nat /\ t = [i \in 1 .. Len(t) |-> t[i]] /\ \A i \in 1 .. Len(t) : t[i] \in Mapped
  OBVIOUS
<1>3. \A i \in 1 .. Len(t) : t[i] \in Int
  BY <1>1, <1>2
<1> QED BY <1>2, <1>3

(* What a byte on its way is to the line. *)
LEMMA CodeFacts ==
  ASSUME NEW w \in Seq(Items)
  PROVE  /\ Codes(w) \in Seq(Int) /\ Len(Codes(w)) = Len(w) /\ Len(w) \in Nat
         /\ \A i \in 1 .. Len(w) : /\ w[i].from = "keyboard" => Codes(w)[i] = w[i].byte
                                   /\ w[i].from # "keyboard" => Codes(w)[i] \notin Mapped
<1>1. DOMAIN w = 1 .. Len(w) /\ Len(w) \in Nat /\ \A i \in DOMAIN w : w[i] \in Seen
  BY Lengths DEF Seen
<1>2. \A i \in 1 .. Len(w) : (IF w[i].from = "keyboard" THEN w[i].byte ELSE 0) \in Int
  <2>1. ASSUME NEW i \in 1 .. Len(w) PROVE w[i].byte \in Int
    <3>1. PICK b \in Byte : b = w[i].byte
      <4>1. w[i] \in Seen
        BY <1>1
      <4> QED BY <4>1, ItemFacts
    <3>2. b \in Int
      BY DEF Byte
    <3> QED BY <3>1, <3>2
  <2> QED BY <2>1
<1>3. Codes(w) = [i \in 1 .. Len(w) |-> IF w[i].from = "keyboard" THEN w[i].byte ELSE 0]
  BY <1>1 DEF Codes
<1>4. Codes(w) \in Seq(Int) /\ Len(Codes(w)) = Len(w)
  BY <1>1, <1>2, <1>3
<1>5. 0 \notin Mapped
  BY DEF Mapped
<1> QED BY <1>1, <1>3, <1>4, <1>5

(* The first byte leaves. *)
LEMMA CodesTaken ==
  ASSUME NEW w \in Seq(Items), w # << >>
  PROVE  Codes(w) # << >> /\ Tail(Codes(w)) = Codes(Tail(w)) /\ Tail(w) \in Seq(Items)
<1>1. PICK n \in Nat \ {0} : n = Len(w)
  BY Lengths
<1>2. Tail(w) \in Seq(Items) /\ Len(Tail(w)) = n - 1 /\ \A i \in 1 .. n - 1 : Tail(w)[i] = w[i + 1]
  BY <1>1
<1>3. PICK s \in Seq(Int) : s = Codes(w) /\ Len(s) = n
  BY <1>1, CodeFacts
<1>4. PICK t \in Seq(Int) : t = Codes(Tail(w)) /\ Len(t) = n - 1
  BY <1>2, CodeFacts
<1>5. s # << >>
  BY <1>1, <1>3
<1>6. Len(Tail(s)) = n - 1 /\ Tail(s) \in Seq(Int) /\ \A i \in 1 .. n - 1 : Tail(s)[i] = s[i + 1]
  BY <1>1, <1>3, <1>5
<1>7. ASSUME NEW i \in 1 .. n - 1 PROVE Tail(s)[i] = t[i]
  <2>1. PICK k \in 1 .. n : k = i + 1
    BY <1>1
  <2>2. Tail(s)[i] = s[k] /\ Tail(w)[i] = w[k]
    BY <1>2, <1>6, <2>1
  <2>3. s[k] = IF w[k].from = "keyboard" THEN w[k].byte ELSE 0
    <3>1. DOMAIN w = 1 .. n
      BY <1>1, Lengths
    <3> QED BY <1>3, <3>1 DEF Codes
  <2>4. t[i] = IF Tail(w)[i].from = "keyboard" THEN Tail(w)[i].byte ELSE 0
    <3>1. DOMAIN Tail(w) = 1 .. n - 1
      BY <1>2, Lengths
    <3> QED BY <1>4, <3>1 DEF Codes
  <2> QED BY <2>2, <2>3, <2>4
<1>8. Tail(s) = t
  <2>1. \A v \in Seq(Int) : v = [i \in 1 .. Len(v) |-> v[i]]
    OBVIOUS
  <2>2. Tail(s) = [i \in 1 .. n - 1 |-> Tail(s)[i]] /\ t = [i \in 1 .. n - 1 |-> t[i]]
    BY <1>4, <1>6, <2>1
  <2> QED BY <1>7, <2>2
<1> QED BY <1>2, <1>3, <1>4, <1>5, <1>8

-----------------------------------------------------------------------------
(* As long as the boot reads the port, what counts as typed is still on its way; from then
   on the line and what is on its way make what was typed. *)
Ordered ==
  /\ typed \in Seq(Mapped)
  /\ boot # "run" => line = << >> /\ Filtered(typed, Codes(pending))
  /\ boot = "run" /\ ~mixed => Feed(<< >>, typed) = Feed(line, Codes(pending))

(* The shell's line is one that codes can be fed to. *)
LEMMA LineIsText ==
  ASSUME IInv
  PROVE  line \in Text /\ << >> \in Text
<1>1. LineMax \in Nat
  BY InputAssumption
<1> QED BY <1>1 DEF IInv, Types, Text

(* Bytes that are no keys come. *)
LEMMA OrderSent ==
  ASSUME IInv, Ordered, pending' \in Seq(Items), Len(pending) <= Len(pending'),
         \A i \in 1 .. Len(pending) : pending'[i] = pending[i],
         \A i \in Len(pending) + 1 .. Len(pending') : pending'[i].from # "keyboard",
         UNCHANGED <<typed, line, mixed>>, boot' = "run" <=> boot = "run"
  PROVE  Ordered'
<1>1. pending \in Seq(Items)
  BY DEF IInv, Types
<1>2. PICK s \in Seq(Int), u \in Seq(Int) : /\ s = Codes(pending) /\ u = Codes(pending')
                                            /\ Len(s) = Len(pending) /\ Len(u) = Len(pending')
  BY <1>1, CodeFacts
<1>3. Len(pending) \in Nat /\ Len(pending') \in Nat
  BY <1>1, Lengths
<1>4. Len(s) <= Len(u) /\ \A i \in 1 .. Len(s) : u[i] = s[i]
  <2>1. \A i \in 1 .. Len(s) : i \in DOMAIN pending /\ i \in DOMAIN pending'
    BY <1>1, <1>2, <1>3
  <2> QED BY <1>2, <2>1 DEF Codes
<1>5. \A i \in Len(s) + 1 .. Len(u) : u[i] \notin Mapped
  <2>1. \A i \in Len(s) + 1 .. Len(u) : i \in 1 .. Len(pending')
    BY <1>2, <1>3
  <2> QED BY <1>2, <2>1, CodeFacts
<1>6. Filtered(typed, s) => Filtered(typed, u)
  <2>1. typed \in Seq(Int)
    BY MappedCodes DEF Ordered
  <2> QED BY <1>4, <1>5, <2>1, FilteredExtended
<1>7. Feed(line, u) = Feed(line, s)
  BY <1>4, <1>5, LineIsText, FeedExtended
<1> QED BY <1>2, <1>6, <1>7 DEF Ordered

(* The boot reads. *)
LEMMA OrderPolled ==
  ASSUME IInv, Ordered, Polls
  PROVE  Ordered'
<1>1. /\ Poll /\ boot # "run" /\ boot' # "run" /\ line' = line
  BY PollCases DEF BootUnchanged
<1>2. PICK kept : kept \subseteq {Keyboard, Mouse} /\ Take(kept)
  <2>1. irq \subseteq {Keyboard, Mouse}
    BY DEF IInv, Types
  <2> QED BY <1>1, <2>1 DEF Poll
<1>3. pending \in Seq(Items) /\ typed \in Seq(Mapped) /\ line = << >> /\ Filtered(typed, Codes(pending))
  BY <1>1 DEF IInv, Types, Ordered
<1>4. CASE pending = << >>
  <2>1. Read.from # "keyboard" /\ pending' = pending
    BY <1>2, <1>4 DEF Take, Rest, Read, Nothing, Item
  <2>2. typed' = typed
    BY <1>1, <2>1 DEF Poll
  <2> QED BY <1>1, <1>3, <2>1, <2>2 DEF Ordered
<1>5. CASE pending # << >>
  <2>1. Read = pending[1] /\ pending' = Tail(pending)
    BY <1>2, <1>5 DEF Take, Rest, Read
  <2>2. PICK s \in Seq(Int) : s = Codes(pending) /\ s # << >> /\ Tail(s) = Codes(pending')
    BY <1>3, <1>5, <2>1, CodesTaken, CodeFacts
  <2>3. s[1] \in Mapped <=> Read.from = "keyboard" /\ Read.byte \in Mapped
    <3>1. 1 \in 1 .. Len(pending)
      BY <1>3, <1>5
    <3> QED BY <1>3, <2>1, <2>2, <3>1, CodeFacts
  <2>4. typed' = IF s[1] \in Mapped THEN Tail(typed) ELSE typed
    BY <1>1, <2>3 DEF Poll
  <2>5. (s[1] \in Mapped => typed # << >>) /\ Filtered(typed', Tail(s))
    BY <1>3, <2>2, <2>4, FilteredTaken
  <2>6. typed' \in Seq(Mapped)
    BY <1>3, <2>4, <2>5
  <2> QED BY <1>1, <1>3, <2>2, <2>5, <2>6 DEF Ordered
<1> QED BY <1>4, <1>5

(* At sti, nothing is left to skip. *)
LEMMA OrderSti ==
  ASSUME IInv, Ordered, Sti
  PROVE  Ordered'
<1>1. boot # "run" /\ UNCHANGED <<pending, typed, line>>
  BY DEF Sti, cpu
<1>2. typed \in Seq(Mapped) /\ line = << >> /\ Filtered(typed, Codes(pending))
  BY <1>1 DEF Ordered
<1>3. typed \in Seq(Int) /\ Codes(pending) \in Seq(Int)
  <2>1. pending \in Seq(Items)
    BY DEF IInv, Types
  <2> QED BY <1>2, <2>1, CodeFacts, MappedCodes
<1>4. Feed(line, typed) = Feed(line, Codes(pending))
  BY <1>2, <1>3, LineIsText, FeedFiltered
<1>5. boot' = "run"
  BY DEF Sti
<1> QED BY <1>1, <1>2, <1>4, <1>5 DEF Ordered

(* A handler takes its device's byte. *)
LEMMA OrderHandled ==
  ASSUME IInv, Ordered, Handlers
  PROVE  Ordered'
<1>1. /\ boot = "run" /\ boot' = "run" /\ typed' = typed
      /\ \E kept : Take(kept)
      /\ ~mixed' => ~mixed
  <2>1. mixed \in BOOLEAN
    BY DEF IInv, Types
  <2> QED BY <2>1 DEF Handlers, KeyboardInterrupt, MouseInterrupt
<1> SUFFICES ASSUME ~mixed' PROVE Feed(<< >>, typed) = Feed(line', Codes(pending'))
  BY <1>1 DEF Ordered
<1>2. pending \in Seq(Items) /\ Feed(<< >>, typed) = Feed(line, Codes(pending))
  BY <1>1 DEF IInv, Types, Ordered
<1>3. \/ Read.from = "keyboard" /\ line' = IF IsCharacter(Read.byte) THEN Receive(line, Read.byte % 128) ELSE line
      \/ Read.from = "mouse" /\ line' = line
  <2>1. CASE KeyboardInterrupt
    BY <2>1 DEF KeyboardInterrupt
  <2>2. CASE MouseInterrupt
    BY <2>2 DEF MouseInterrupt
  <2> QED BY <2>1, <2>2 DEF Handlers
<1>4. pending # << >> /\ Read = pending[1] /\ pending' = Tail(pending)
  <2>1. pending # << >>
    BY <1>3 DEF Read, Nothing, Item
  <2> QED BY <1>1, <2>1 DEF Take, Rest, Read
<1>5. PICK s \in Seq(Int) : s = Codes(pending) /\ s # << >> /\ Tail(s) = Codes(pending')
  BY <1>2, <1>4, CodesTaken, CodeFacts
<1>6. line' = Feeds(line, s[1])
  <2>1. 1 \in 1 .. Len(pending)
    BY <1>2, <1>4
  <2>2. CASE Read.from = "keyboard"
    <3>1. PICK b : b = Read.byte /\ b = s[1]
      BY <1>2, <1>4, <1>5, <2>1, <2>2, CodeFacts
    <3>2. b \in Mapped => b % 128 = b /\ ~Bit(b, 128)
      <4> SUFFICES ASSUME b \in Mapped PROVE b % 128 = b /\ ~Bit(b, 128)
        OBVIOUS
      <4>1. b \in 0 .. 127
        BY DEF Mapped
      <4>2. b % 128 = b /\ b \div 128 = 0
        BY <4>1
      <4> QED BY <4>2 DEF Bit
    <3>3. line' = IF IsCharacter(b) THEN Receive(line, b % 128) ELSE line
      BY <1>3, <2>2, <3>1
    <3> QED BY <3>1, <3>2, <3>3 DEF IsCharacter, Feeds
  <2>3. CASE Read.from = "mouse"
    <3>1. s[1] \notin Mapped
      BY <1>2, <1>4, <1>5, <2>1, <2>3, CodeFacts
    <3> QED BY <1>3, <2>3, <3>1 DEF Feeds
  <2> QED BY <1>3, <2>2, <2>3
<1>7. Feed(line, s) = Feed(Feeds(line, s[1]), Tail(s))
  BY <1>5, LineIsText, FeedTaken
<1> QED BY <1>2, <1>5, <1>6, <1>7

(* A key comes: no other key is behind it. *)
LEMMA OrderKey ==
  ASSUME IInv, Ordered, NEW b \in KeyBytes, Key(b)
  PROVE  Ordered'
<1>1. PICK x : x = Item("keyboard", b, 0, Still) /\ x \in Items /\ x.from = "keyboard" /\ x.byte = b
  <2>1. b \in Byte
    BY InputAssumption
  <2>2. Item("keyboard", b, 0, Still) \in Items
    BY <2>1 DEF Items, Keys
  <2>3. Item("keyboard", b, 0, Still).from = "keyboard" /\ Item("keyboard", b, 0, Still).byte = b
    BY DEF Item
  <2> QED BY <2>2, <2>3
<1>2. PICK n \in 1 .. Len(pending) + 1 : /\ \A j \in n .. Len(pending) : pending[j].from = "mouse"
                                         /\ pending' = InsertAt(pending, n, x)
  BY <1>1 DEF Key
<1>3. UNCHANGED <<boot, line, mixed>> /\ typed' = IF b \in Mapped THEN Append(typed, b) ELSE typed
  BY DEF Key, cpu, wrong
<1>4. pending \in Seq(Items) /\ Len(pending) \in Nat
  BY Lengths DEF IInv, Types
<1>5. /\ pending' \in Seq(Items) /\ Len(pending') = Len(pending) + 1 /\ pending'[n] = x
      /\ \A k \in 1 .. Len(pending) : pending'[IF k < n THEN k ELSE k + 1] = pending[k]
  BY <1>1, <1>2, <1>4, InsertedFacts
<1>6. PICK s \in Seq(Int), u \in Seq(Int) : /\ s = Codes(pending) /\ u = Codes(pending')
                                            /\ Len(s) = Len(pending) /\ Len(u) = Len(pending')
  BY <1>4, <1>5, CodeFacts
<1>7. n \in 1 .. Len(pending') /\ u[n] = b
  <2>1. n \in 1 .. Len(pending')
    BY <1>4, <1>5
  <2> QED BY <1>1, <1>5, <1>6, <2>1, CodeFacts
<1>8. ASSUME NEW k \in 1 .. Len(s) PROVE u[IF k < n THEN k ELSE k + 1] = s[k]
  <2>1. PICK m : m = IF k < n THEN k ELSE k + 1
    OBVIOUS
  <2>2. m \in DOMAIN pending' /\ k \in DOMAIN pending /\ pending'[m] = pending[k]
    <3>1. m \in 1 .. Len(pending')
      BY <1>4, <1>5, <1>6, <2>1
    <3>2. k \in 1 .. Len(pending) /\ pending'[m] = pending[k]
      BY <1>5, <1>6, <2>1
    <3> QED BY <1>4, <1>5, <3>1, <3>2, Lengths
  <2>3. u[m] = s[k]
    BY <1>6, <2>2 DEF Codes
  <2> QED BY <2>1, <2>3
<1>9. ASSUME NEW k \in n .. Len(s) PROVE s[k] \notin Mapped
  <2>1. k \in 1 .. Len(pending) /\ pending[k].from = "mouse"
    BY <1>2, <1>4, <1>6
  <2> QED BY <1>4, <1>6, <2>1, CodeFacts
<1>10. n \in 1 .. Len(s) + 1 /\ Len(u) = Len(s) + 1
  BY <1>5, <1>6
<1>11. typed \in Seq(Mapped) /\ typed' \in Seq(Mapped)
  <2>1. typed \in Seq(Mapped)
    BY DEF Ordered
  <2> QED BY <1>3, <2>1
<1>12. boot # "run" => line' = << >> /\ Filtered(typed', u)
  <2> SUFFICES ASSUME boot # "run" PROVE line' = << >> /\ Filtered(typed', u)
    OBVIOUS
  <2>1. line = << >> /\ Filtered(typed, s)
    BY <1>6 DEF Ordered
  <2>2. Filtered(IF u[n] \in Mapped THEN Append(typed, u[n]) ELSE typed, u)
    BY <1>8, <1>9, <1>10, <1>11, <2>1, FilteredInserted
  <2> QED BY <1>3, <1>7, <2>1, <2>2
<1>13. boot = "run" /\ ~mixed => Feed(<< >>, typed') = Feed(line', u)
  <2> SUFFICES ASSUME boot = "run", ~mixed PROVE Feed(<< >>, typed') = Feed(line, u)
    BY <1>3
  <2>1. Feed(<< >>, typed) = Feed(line, s)
    BY <1>6 DEF Ordered
  <2>2. Feed(line, u) = Feeds(Feed(line, s), b)
    BY <1>7, <1>8, <1>9, <1>10, LineIsText, FeedInserted
  <2>3. Feed(<< >>, typed') = Feeds(Feed(<< >>, typed), b)
    <3>1. CASE b \in Mapped
      <4>1. PICK t \in Seq(Int), v \in Seq(Int) : t = typed /\ v = typed'
        BY <1>11, MappedCodes
      <4>2. Len(t) \in Nat /\ Len(v) = Len(t) + 1 /\ v[Len(t) + 1] = b /\ \A k \in 1 .. Len(t) : v[k] = t[k]
        <5>1. v = Append(t, b) /\ b \in Int
          BY <1>3, <3>1, <4>1 DEF Mapped
        <5> QED BY <5>1
      <4>3. /\ Len(t) + 1 \in 1 .. Len(t) + 1
            /\ \A k \in 1 .. Len(t) : v[IF k < Len(t) + 1 THEN k ELSE k + 1] = t[k]
            /\ \A k \in Len(t) + 1 .. Len(t) : t[k] \notin Mapped
        BY <4>2
      <4> QED BY <4>1, <4>2, <4>3, LineIsText, FeedInserted
    <3>2. CASE b \notin Mapped
      BY <1>3, <3>2 DEF Feeds
    <3> QED BY <3>1, <3>2
  <2> QED BY <2>1, <2>2, <2>3
<1> QED BY <1>3, <1>6, <1>11, <1>12, <1>13 DEF Ordered

(* Nothing is typed before the boot. *)
LEMMA OrderInit == Init => Ordered
<1> SUFFICES ASSUME Init PROVE Ordered
  OBVIOUS
<1>1. pending = << >> /\ line = << >> /\ typed = << >> /\ boot = "flush"
  BY DEF Init
<1>2. typed \in Seq(Mapped) /\ Len(typed) = 0
  BY <1>1
<1>3. Codes(pending) = << >>
  BY <1>1 DEF Codes
<1>4. Picks(<< >>, typed, << >>)
  BY <1>1 DEF Picks
<1> QED BY <1>1, <1>2, <1>3, <1>4 DEF Ordered, Filtered

(* Every step keeps the order. *)
LEMMA OrderInductive == IInv /\ Ordered /\ [Next]_vars => Ordered'
<1> SUFFICES ASSUME IInv, Ordered, [Next]_vars PROVE Ordered'
  OBVIOUS
<1> DEFINE Arrive(items) == UNCHANGED pending \/ pending' = pending \o items
<1>1. ASSUME NEW items \in Seq(Items), Arrive(items), \A i \in 1 .. Len(items) : items[i].from # "keyboard",
             UNCHANGED <<typed, line, mixed>>, boot' = "run" <=> boot = "run"
      PROVE  Ordered'
  <2>1. pending \in Seq(Items) /\ Len(pending) \in Nat
    BY Lengths DEF IInv, Types
  <2>2. CASE UNCHANGED pending
    <3>1. Len(pending') + 1 > Len(pending')
      BY <2>1, <2>2
    <3>2. \A i \in Len(pending) + 1 .. Len(pending') : pending'[i].from # "keyboard"
      BY <2>1, <2>2
    <3> QED BY <1>1, <2>1, <2>2, <3>2, OrderSent
  <2>3. CASE pending' = pending \o items
    <3>1. PICK all \in Seq(Items) : all = pending' /\ all = pending \o items
      <4>1. pending \o items \in Seq(Items)
        BY <2>1
      <4> QED BY <2>3, <4>1
    <3>2. /\ Len(all) = Len(pending) + Len(items) /\ Len(items) \in Nat
          /\ \A i \in 1 .. Len(pending) : all[i] = pending[i]
          /\ \A i \in Len(pending) + 1 .. Len(all) : i - Len(pending) \in 1 .. Len(items) /\ all[i] = items[i - Len(pending)]
      BY <2>1, <3>1
    <3>3. Len(pending) <= Len(all)
      BY <2>1, <3>2
    <3>4. \A i \in Len(pending) + 1 .. Len(all) : all[i].from # "keyboard"
      BY <1>1, <3>2
    <3> QED BY <1>1, <3>1, <3>2, <3>3, <3>4, OrderSent
  <2> QED BY <1>1, <2>2, <2>3
<1> HIDE DEF Arrive
<1>2. CASE UNCHANGED vars
  BY <1>2 DEF vars, cpu, wrong, Ordered
<1>3. CASE Flushed \/ Configure
  BY <1>3 DEF Flushed, Configure, cpu, wrong, Ordered
<1>4. CASE AskConfig
  <2>1. PICK x : x.from = "controller" /\ x \in Items /\ pending' = pending \o <<x>>
    <3> DEFINE on == IF Bit(config, 32) THEN config - 32 ELSE config
    <3>1. on \in Byte
      BY ConfigBytes DEF IInv, Types
    <3>2. pending' = pending \o <<Item("controller", on, 0, Still)>>
      BY <1>4 DEF AskConfig, Send
    <3> HIDE DEF on
    <3> QED BY <3>1, <3>2 DEF Items, Answers, Item
  <2>2. <<x>> \in Seq(Items) /\ \A i \in 1 .. Len(<<x>>) : <<x>>[i].from # "keyboard"
    BY <2>1
  <2>3. UNCHANGED <<typed, line, mixed>> /\ (boot' = "run" <=> boot = "run")
    BY <1>4 DEF AskConfig, cpu, wrong
  <2> QED BY <1>1, <2>1, <2>2, <2>3 DEF Arrive
<1>5. CASE Commands
  <2>1. <<Acknowledge>> \in Seq(Items) /\ \A i \in 1 .. Len(<<Acknowledge>>) : <<Acknowledge>>[i].from # "keyboard"
    BY DEF Items, Acknowledge, Item
  <2>2. Arrive(<<Acknowledge>>) /\ UNCHANGED <<typed, line, mixed>> /\ (boot' = "run" <=> boot = "run")
    BY <1>5 DEF Commands, Command, Send, Arrive, cpu, wrong
  <2> QED BY <1>1, <2>1, <2>2
<1>6. CASE \E m \in Moves : Move(m)
  <2>1. PICK m \in Moves : Move(m)
    BY <1>6
  <2>2. PICK whole \in Seq(Items) : /\ whole = <<Part(m, 1), Part(m, 2), Part(m, 3)>> /\ Len(whole) = 3
                                    /\ \A i \in 1 .. 3 : whole[i].from = "mouse"
    <3>1. \A i \in 1 .. 3 : Part(m, i) \in Items /\ Part(m, i).from = "mouse"
      BY PartFacts DEF Items, Parts
    <3>2. PICK a \in Items, c \in Items, d \in Items :
            /\ a = Part(m, 1) /\ c = Part(m, 2) /\ d = Part(m, 3)
            /\ a.from = "mouse" /\ c.from = "mouse" /\ d.from = "mouse"
      BY <3>1
    <3>3. <<a, c, d>> \in Seq(Items) /\ Len(<<a, c, d>>) = 3 /\ \A i \in 1 .. 3 : <<a, c, d>>[i].from = "mouse"
      BY <3>2
    <3> QED BY <3>2, <3>3
  <2>3. UNCHANGED <<typed, line, mixed, boot>>
    BY <2>1 DEF Move, cpu
  <2>4. CASE pending' = pending \o whole
    <3>1. \A i \in 1 .. Len(whole) : whole[i].from # "keyboard"
      BY <2>2
    <3> QED BY <1>1, <2>2, <2>3, <2>4, <3>1 DEF Arrive
  <2>5. ASSUME NEW i \in 1 .. 3, pending' = pending \o RemoveAt(whole, i) PROVE Ordered'
    <3>1. PICK s : s = RemoveAt(whole, i)
      OBVIOUS
    <3>2. /\ s \in Seq(Items) /\ Len(s) = 2
          /\ \A k \in 1 .. 2 : s[k] = IF k < i THEN whole[k] ELSE whole[k + 1]
      <4>1. i \in DOMAIN whole
        BY <2>2, Lengths
      <4>2. /\ s \in Seq(Items) /\ Len(s) = Len(whole) - 1
            /\ \A k \in 1 .. Len(whole) - 1 : s[k] = IF k < i THEN whole[k] ELSE whole[k + 1]
        BY <3>1, <4>1, RemoveAtEntries
      <4>3. Len(whole) - 1 = 2
        BY <2>2
      <4> QED BY <4>2, <4>3
    <3>3. \A k \in 1 .. Len(s) : s[k].from # "keyboard"
      BY <2>2, <3>2
    <3> QED BY <1>1, <2>3, <2>5, <3>1, <3>2, <3>3 DEF Arrive
  <2> QED BY <2>1, <2>2, <2>4, <2>5 DEF Move, Send
<1>7. CASE \E b \in KeyBytes : Key(b)
  BY <1>7, OrderKey
<1> QED
  BY <1>2, <1>3, <1>4, <1>5, <1>6, <1>7, OrderPolled, OrderSti, OrderHandled
     DEF Next, Kernel, User, Polls, Commands

(* keyboard.c:30, shell.c:197: the line, with the keys on their way to it, is what was
   typed, in order, however many keys there were and whatever the mouse sent between them. *)
THEOREM KeysTyped == Spec => []KeysInOrder
<1>1. IInv /\ Ordered => KeysInOrder
  BY DEF Ordered, KeysInOrder
<1>2. Init => IInv /\ Ordered
  BY Initially, OrderInit
<1>3. IInv /\ Ordered /\ [Next]_vars => (IInv /\ Ordered)'
  BY Inductive, OrderInductive
<1> QED BY <1>1, <1>2, <1>3, PTL DEF Spec

-----------------------------------------------------------------------------
(***************************************************************************)
(* The event queue, where the packets and keys of the drivers go on: type  *)
(* correctness, mutual exclusion of handlers, stability of the slot being  *)
(* copied, and refinement of BoundedFifo, for every capacity, every set of *)
(* devices and every set of events.                                        *)
(***************************************************************************)
Copying == pc \in {"lo", "hi", "advance"}

(* What a handler that is inside events_enqueue knows. *)
FrameInv ==
  \A s \in Source :
    /\ Running(s) => frame[s].ev \in Event
    /\ "tail" \in frame[s].todo => /\ frame[s].slot = tail
                                   /\ Succ(tail) # head
    /\ frame[s].todo = {"slot"} => /\ tail = Succ(frame[s].slot)
                                   /\ head # tail
                                   /\ Copying => frame[s].slot # head
    /\ frame[s].todo = {"tail"} => q[frame[s].slot] = frame[s].ev

(* The main loop copies only from a queue that has an event. *)
CopyNonEmpty == Copying => head # tail

QueueInv == QueueTypeOK /\ OneHandler /\ FrameInv /\ CopyNonEmpty /\ CopyStable

-----------------------------------------------------------------------------
(* (i + 1) % Cap is the successor of a slot on a ring of Cap slots. *)
LEMMA SuccRing == \A i \in Slot : /\ Succ(i) \in Slot
                                  /\ Succ(i) = IF i = Cap - 1 THEN 0 ELSE i + 1
  BY CapAssumption DEF Succ, Slot

(* pit_ticks modulo the quantum stays below it. *)
LEMMA TickRange == \A t \in 0 .. Quantum - 1 : (t + 1) % Quantum \in 0 .. Quantum - 1
  BY QuantumAssumption

(* All ring indices are 0, every handler is idle and nothing is being copied. *)
LEMMA InitQueueInv == QueueInit => QueueInv
<1> SUFFICES ASSUME QueueInit PROVE QueueInv
  OBVIOUS
<1>1. Idle \in Frame /\ Idle.todo = {}
  BY CapAssumption DEF Idle, Frame, Slot
<1>2. \A s \in Source : frame[s] = Idle
  BY DEF QueueInit
<1>3. QueueTypeOK
  BY <1>1, CapAssumption, QuantumAssumption DEF QueueInit, QueueTypeOK, Slot, Half, PC
<1>4. OneHandler /\ FrameInv
  BY <1>1, <1>2 DEF OneHandler, FrameInv, Running
<1>5. CopyNonEmpty /\ CopyStable
  BY DEF QueueInit, CopyNonEmpty, CopyStable, Copying
<1> QED
  BY <1>3, <1>4, <1>5 DEF QueueInv

(* An accepted event opens the only frame; a refused one changes nothing. *)
LEMMA EnqueueInv ==
  ASSUME QueueInv, InterruptsEnabled, NEW s \in Source, NEW e \in Event, Enqueue(s, e), Wake,
         UNCHANGED <<head, tail, q, out, got>>, ticks' \in 0 .. Quantum - 1
  PROVE  QueueInv'
<1> USE DEF QueueInv
<1>1. pc' \in PC /\ (Copying' <=> Copying) /\ CopyNonEmpty'
  BY DEF QueueTypeOK, Wake, PC, Copying, CopyNonEmpty
<1>2. CopyStable'
  BY DEF Wake, CopyStable
<1>3. CASE UNCHANGED frame /\ rc' = -1
  <2>1. QueueTypeOK'
    BY <1>1, <1>3 DEF QueueTypeOK
  <2>2. OneHandler' /\ FrameInv'
    BY <1>1, <1>3 DEF OneHandler, FrameInv, Running, InterruptsEnabled, Succ
  <2> QED
    BY <1>1, <1>2, <2>1, <2>2
<1>4. CASE Succ(tail) # head /\ Accept(s, e)
  <2> DEFINE f == [ev |-> e, slot |-> tail, todo |-> {"slot", "tail"}]
  <2>1. f \in Frame /\ f.todo = {"slot", "tail"} /\ f.slot = tail /\ f.ev = e
    BY DEF Frame, QueueTypeOK
  <2>2. frame' = [frame EXCEPT ![s] = f] /\ rc' = rc
    BY <1>4 DEF Accept
  <2> HIDE DEF f
  <2>3. \A t \in Source : frame'[t] = IF t = s THEN f ELSE frame[t]
    BY <2>2 DEF QueueTypeOK
  <2>4. QueueTypeOK'
    BY <1>1, <2>1, <2>2, <2>3 DEF QueueTypeOK
  <2>5. OneHandler'
    BY <2>3 DEF OneHandler, Running, InterruptsEnabled
  <2>6. \A t \in Source : t # s => frame'[t].todo = {}
    BY <2>3 DEF Running, InterruptsEnabled
  <2>7. FrameInv'
    <3>1. frame'[s] = f /\ Succ(tail) # head /\ tail' = tail /\ head' = head
      BY <1>4, <2>3
    <3>2. Succ(tail)' = Succ(tail)
      BY <3>1 DEF Succ
    <3>3. ASSUME NEW t \in Source, t # s
          PROVE  "tail" \notin frame'[t].todo /\ "slot" \notin frame'[t].todo
      BY <2>6, <3>3
    <3> QED BY <2>1, <2>6, <3>1, <3>2, <3>3 DEF FrameInv, Running
  <2> QED
    BY <1>1, <1>2, <2>4, <2>5, <2>7
<1> QED
  BY <1>3, <1>4 DEF Enqueue

(* A store of a handler shrinks its own frame and no other. *)
LEMMA DoneFrame ==
  ASSUME QueueInv, NEW s \in Source, Running(s), NEW st \in {"slot", "tail"}, Done(s, st)
  PROVE  /\ \A t \in Source : t # s => frame'[t] = frame[t] /\ frame[t].todo = {}
         /\ frame'[s].ev = frame[s].ev /\ frame'[s].slot = frame[s].slot
         /\ frame'[s].todo = frame[s].todo \ {st}
         /\ frame' \in [Source -> Frame]
         /\ OneHandler'
<1> USE DEF QueueInv
<1>1. \A t \in Source : t # s => frame[t].todo = {}
  BY DEF OneHandler, Running
<1>2. frame[s] \in Frame /\ frame \in [Source -> Frame]
  BY DEF QueueTypeOK
<1> DEFINE f == [frame[s] EXCEPT !.todo = @ \ {st}]
<1>3. f \in Frame /\ f.ev = frame[s].ev /\ f.slot = frame[s].slot
      /\ f.todo = frame[s].todo \ {st}
  BY <1>2 DEF Frame
<1>4. frame' = [frame EXCEPT ![s] = f]
  BY DEF Done
<1> HIDE DEF f
<1>5. \A t \in Source : frame'[t] = IF t = s THEN f ELSE frame[t]
  BY <1>2, <1>4
<1>6. frame' \in [Source -> Frame]
  BY <1>2, <1>3, <1>4
<1>7. OneHandler'
  BY <1>1, <1>5 DEF OneHandler, Running
<1> QED
  BY <1>1, <1>3, <1>5, <1>6, <1>7

(* q[tail] = ev never touches a slot that is being copied. *)
LEMMA StoreSlotInv == ASSUME QueueInv, NEW s \in Source, StoreSlot(s) PROVE QueueInv'
<1> USE DEF QueueInv
<1>1. Running(s) /\ Done(s, "slot") /\ "slot" \in frame[s].todo
  BY DEF StoreSlot, Running
<1>2. frame[s] \in Frame /\ frame[s].ev \in Event
  BY <1>1 DEF QueueTypeOK, FrameInv
<1>3. frame[s].todo \in {{"slot"}, {"slot", "tail"}}
  BY <1>1, <1>2 DEF Frame
<1>4. \A i \in Slot : q'[i] = IF i = frame[s].slot THEN frame[s].ev ELSE q[i]
  BY DEF StoreSlot, QueueTypeOK
<1>5. QueueTypeOK'
  <2>1. q' \in [Slot -> Event \cup {None}]
    BY <1>2 DEF StoreSlot, QueueTypeOK
  <2> QED
    BY <1>1, <2>1, DoneFrame DEF StoreSlot, QueueTypeOK
<1>6. Copying => frame[s].slot # head
  BY <1>1, <1>3 DEF FrameInv, CopyNonEmpty, QueueTypeOK
<1>7. CopyStable' /\ CopyNonEmpty'
  BY <1>4, <1>6 DEF StoreSlot, CopyStable, CopyNonEmpty, Copying, QueueTypeOK
<1>8. FrameInv'
  <2> SUFFICES ASSUME NEW t \in Source, t = s
               PROVE  /\ frame'[t].ev \in Event
                      /\ "tail" \in frame'[t].todo => /\ frame'[t].slot = tail'
                                                      /\ Succ(tail') # head'
                      /\ frame'[t].todo # {"slot"}
                      /\ frame'[t].todo = {"tail"} => q'[frame'[t].slot] = frame'[t].ev
    BY <1>1, DoneFrame DEF FrameInv, Running, Succ
  <2>1. frame'[s].todo = frame[s].todo \ {"slot"} /\ frame'[s].slot = frame[s].slot
        /\ frame'[s].ev = frame[s].ev
    BY <1>1, DoneFrame
  <2>2. q'[frame[s].slot] = frame[s].ev
    BY <1>2, <1>4 DEF Frame
  <2> QED
    BY <1>1, <1>2, <2>1, <2>2 DEF FrameInv, StoreSlot
<1> QED
  BY <1>1, <1>5, <1>7, <1>8, DoneFrame

(* tail = next publishes a slot that is not the one at head. *)
LEMMA StoreTailInv == ASSUME QueueInv, NEW s \in Source, StoreTail(s) PROVE QueueInv'
<1> USE DEF QueueInv
<1>1. Running(s) /\ Done(s, "tail") /\ "tail" \in frame[s].todo
  BY DEF StoreTail, Running
<1>2. frame[s].slot = tail /\ Succ(tail) # head /\ frame[s].ev \in Event
  BY <1>1 DEF FrameInv
<1>3. tail \in Slot /\ head \in Slot /\ tail' = Succ(tail) /\ tail' \in Slot
  BY <1>2, SuccRing DEF QueueTypeOK, StoreTail
<1>4. QueueTypeOK'
  BY <1>1, <1>3, DoneFrame DEF StoreTail, QueueTypeOK
<1>5. CopyNonEmpty' /\ CopyStable'
  BY <1>2, <1>3 DEF StoreTail, CopyNonEmpty, CopyStable, Copying
<1>6. FrameInv'
  <2>1. frame'[s].todo = frame[s].todo \ {"tail"} /\ frame'[s].slot = tail
        /\ frame'[s].ev = frame[s].ev
    BY <1>1, <1>2, DoneFrame
  <2>2. \A t \in Source : t # s => frame'[t].todo = {}
    BY <1>1, DoneFrame
  <2>3. Copying' => tail # head'
    BY DEF StoreTail, Copying, CopyNonEmpty
  <2> QED
    BY <1>2, <1>3, <2>1, <2>2, <2>3 DEF FrameInv, StoreTail, Running
<1> QED
  BY <1>1, <1>4, <1>5, <1>6, DoneFrame

(* The main loop moves only while no handler runs; it copies the slot at head
   and leaves it by advancing head. *)
LEMMA MainLoopInv == ASSUME QueueInv, MainLoop PROVE QueueInv'
<1> USE DEF QueueInv
<1>1. InterruptsEnabled /\ frame' = frame /\ tail' = tail /\ q' = q /\ rc' = rc /\ ticks' = ticks
  BY DEF MainLoop, Goto, EnterLoop, TestEmpty, CopyLo, CopyHi, Advance, Composite, Halt
<1>2. OneHandler' /\ FrameInv'
  BY <1>1 DEF OneHandler, FrameInv, Running, InterruptsEnabled
<1>3. CASE EnterLoop \/ TestEmpty \/ Composite \/ Halt
  BY <1>1, <1>2, <1>3 DEF Goto, EnterLoop, TestEmpty, Composite, Halt, QueueTypeOK, PC,
                         CopyNonEmpty, CopyStable, Copying
<1>4. CASE CopyLo
  BY <1>1, <1>2, <1>4 DEF Goto, CopyLo, QueueTypeOK, PC, Half, CopyNonEmpty, CopyStable, Copying
<1>5. CASE CopyHi
  BY <1>1, <1>2, <1>5 DEF Goto, CopyHi, QueueTypeOK, PC, Half, CopyNonEmpty, CopyStable, Copying
<1>6. CASE Advance
  BY <1>1, <1>2, <1>6, SuccRing DEF Goto, Advance, QueueTypeOK, PC, CopyNonEmpty, CopyStable, Copying
<1> QED
  BY <1>3, <1>4, <1>5, <1>6 DEF MainLoop

(* Every step of the event queue keeps the invariant. *)
LEMMA NextQueueInv == QueueInv /\ [QueueNext]_queueVars => QueueInv'
<1> SUFFICES ASSUME QueueInv, [QueueNext]_queueVars PROVE QueueInv'
  OBVIOUS
<1>1. ASSUME NEW s \in Device, NEW e \in DeviceEvent, DeviceInterrupt(s, e) PROVE QueueInv'
  <2>1. s \in Source /\ e \in Event
    BY DEF Source, Event
  <2> QED
    BY <1>1, <2>1, EnqueueInv DEF DeviceInterrupt, QueueInv, QueueTypeOK
<1>2. CASE PitInterrupt
  <2>1. ticks' \in 0 .. Quantum - 1
    BY <1>2, TickRange DEF PitInterrupt, QueueInv, QueueTypeOK
  <2>2. CASE ticks' = 0
    BY <1>2, <2>1, <2>2, EnqueueInv DEF PitInterrupt, Source, Event
  <2>3. CASE ticks' # 0
    <3>1. Wake /\ UNCHANGED <<frame, rc, head, tail, q, out, got>>
      BY <1>2, <2>3 DEF PitInterrupt
    <3>2. pc' \in PC /\ (Copying' <=> Copying) /\ (pc' = "hi" <=> pc = "hi")
          /\ (pc' = "advance" <=> pc = "advance")
      BY <3>1 DEF Wake, QueueInv, QueueTypeOK, PC, Copying
    <3> QED
      BY <2>1, <3>1, <3>2 DEF QueueInv, QueueTypeOK, OneHandler, FrameInv, Running, Succ, CopyNonEmpty,
                              CopyStable
  <2> QED
    BY <2>2, <2>3
<1>3. ASSUME NEW s \in Source, Handler(s) PROVE QueueInv'
  BY <1>3, StoreSlotInv, StoreTailInv DEF Handler
<1>4. CASE MainLoop
  BY <1>4, MainLoopInv
<1>5. CASE UNCHANGED queueVars
  BY <1>5 DEF queueVars, QueueInv, QueueTypeOK, OneHandler, FrameInv, Running, Succ, CopyNonEmpty, CopyStable,
              Copying
<1> QED
  BY <1>1, <1>2, <1>3, <1>4, <1>5 DEF QueueNext

(* The inductive invariant holds in every reachable state. *)
THEOREM QueueInvariance == QueueSpec => []QueueInv
  BY InitQueueInv, NextQueueInv, PTL DEF QueueSpec

(* Ring indices, slots, handler frames and the copied event keep their types. *)
THEOREM QueueTypeCorrect == QueueSpec => []QueueTypeOK
  BY QueueInvariance, PTL DEF QueueInv

(* Two handlers are never inside events_enqueue at once. *)
THEOREM HandlersExclude == QueueSpec => []OneHandler
  BY QueueInvariance, PTL DEF QueueInv

(* The slot events_dequeue copies out of is not written while it is copied. *)
THEOREM CopyIsStable == QueueSpec => []CopyStable
  BY QueueInvariance, PTL DEF QueueInv

-----------------------------------------------------------------------------
(* QueueRefinement of BoundedFifo.                                              *)

Buf == [k \in 1 .. Count |-> Whole(Pending[k])]

(* Positions head, head + 1, ... on the ring reach exactly the pending slots. *)
LEMMA Ring ==
  ASSUME QueueInv
  PROVE  /\ Count \in 0 .. Cap - 1
         /\ Count = 0 <=> head = tail
         /\ Count = Cap - 1 <=> Succ(tail) = head
         /\ \A k \in 0 .. Cap - 1 : Position(k) \in Slot
         /\ \A k, l \in 0 .. Cap - 1 : Position(k) = Position(l) => k = l
         /\ Position(0) = head /\ Position(Count) = tail
<1>1. head \in 0 .. Cap - 1 /\ tail \in 0 .. Cap - 1
  BY DEF QueueInv, QueueTypeOK, Slot
<1>2. Succ(tail) = IF tail = Cap - 1 THEN 0 ELSE tail + 1
  BY <1>1, SuccRing DEF Slot
<1> QED
  BY <1>1, <1>2, CapAssumption DEF Count, Position, Slot

(* The buffer as a sequence: its length and its elements. *)
LEMMA BufSeq ==
  ASSUME QueueInv
  PROVE  /\ Len(Buf) = Count
         /\ DOMAIN Buf = 1 .. Count
         /\ \A k \in 1 .. Count : Buf[k] = Whole(Content(Position(k - 1)))
         /\ \A S : (\A k \in 1 .. Count : Buf[k] \in S) => Buf \in Seq(S)
<1>1. Count \in Nat
  BY Ring
<1> QED
  BY <1>1 DEF Buf, Pending

(* Outside a handler the pending slots hold what was enqueued. *)
LEMMA IdleContent ==
  ASSUME InterruptsEnabled
  PROVE  \A i : Content(i) = q[i]
  BY DEF InterruptsEnabled, Running, Content, InFlight

(* A step that keeps the ring, the array and the set of half-done handlers
   keeps the abstract buffer. *)
LEMMA SameBuf ==
  ASSUME UNCHANGED <<head, tail, q>>, UNCHANGED frame
  PROVE  Buf' = Buf
  BY DEF Buf, Pending, Content, InFlight, Count, Position, Whole

(* Only a handler that has published `tail' but not stored its slot is in
   flight, and it is the running one. *)
LEMMA InFlightOnly ==
  ASSUME QueueInv, NEW s \in Source, Running(s)
  PROVE  \A i : InFlight(i) = IF frame[s].todo = {"slot"} /\ frame[s].slot = i THEN {s} ELSE {}
<1>1. \A t \in Source : t # s => frame[t].todo = {}
  BY DEF QueueInv, OneHandler, Running
<1> QED
  BY <1>1 DEF InFlight

(* tail = next appends the event of the handler to the abstract buffer. *)
LEMMA PutStep ==
  ASSUME QueueInv, QueueInv', NEW s \in Source, StoreTail(s)
  PROVE  Fifo!Put(Whole(frame[s].ev))
<1> DEFINE ev == frame[s].ev
<1>1. Running(s) /\ Done(s, "tail") /\ "tail" \in frame[s].todo
  BY DEF StoreTail, Running
<1>2. frame[s].slot = tail /\ Succ(tail) # head /\ tail' = Succ(tail)
  BY <1>1 DEF FrameInv, QueueInv, StoreTail
<1>3. head' = head /\ q' = q /\ got' = got /\ rc' = 0
  BY DEF StoreTail
<1>4. Count' = Count + 1 /\ \A k \in 0 .. Cap - 1 : Position(k)' = Position(k)
  <2>1. Succ(tail) = IF tail = Cap - 1 THEN 0 ELSE tail + 1
    BY SuccRing DEF QueueInv, QueueTypeOK
  <2> QED
    BY <1>2, <1>3, <2>1, CapAssumption DEF Count, Position, QueueInv, QueueTypeOK, Slot
<1>5. Count \in 0 .. Cap - 2
  BY <1>2, Ring, CapAssumption
<1>6. \A i : Content(i) = q[i]
  BY <1>1, InFlightOnly DEF Content
<1>7. frame'[s].todo = frame[s].todo \ {"tail"} /\ frame'[s].slot = tail /\ frame'[s].ev = ev
      /\ \A t \in Source : t # s => frame'[t].todo = {}
  BY <1>1, <1>2, DoneFrame
<1>8. \A i \in Slot : i # tail => Content(i)' = q[i]
  BY <1>3, <1>7 DEF Content, InFlight
<1>9. PICK i \in Slot : i = tail
  BY DEF QueueInv, QueueTypeOK
<1>10. Content(i)' = ev
  <2>1. CASE frame'[s].todo = {"slot"}
    <3>1. InFlight(i)' = {s}
      BY <1>7, <1>9, <2>1 DEF InFlight
    <3> QED
      BY <1>7, <3>1 DEF Content
  <2>2. CASE frame'[s].todo # {"slot"}
    <3>1. frame[s].todo \subseteq {"slot", "tail"}
      BY DEF QueueInv, QueueTypeOK, Frame
    <3>2. frame[s].todo = {"tail"}
      BY <1>1, <1>7, <2>2, <3>1
    <3>3. q[i] = ev
      BY <1>2, <1>9, <3>2 DEF QueueInv, FrameInv
    <3>4. InFlight(i)' = {}
      BY <1>7, <2>2 DEF InFlight
    <3> QED
      BY <1>3, <3>3, <3>4 DEF Content
  <2> QED
    BY <2>1, <2>2
<1>11. \A k \in 1 .. Count : Content(Position(k - 1))' = Content(Position(k - 1))
  <2> SUFFICES ASSUME NEW k \in 1 .. Count
               PROVE  Content(Position(k - 1))' = Content(Position(k - 1))
    OBVIOUS
  <2>1. PICK j \in Slot : j = Position(k - 1)
    BY <1>5, Ring, CapAssumption
  <2>2. j # tail /\ j = Position(k - 1)'
    BY <1>4, <1>5, <2>1, Ring, CapAssumption
  <2> QED
    BY <1>6, <1>8, <2>1, <2>2 DEF Content
<1>12. \A k \in 1 .. Count + 1 :
         Content(Position(k - 1))' = IF k <= Count THEN Content(Position(k - 1)) ELSE ev
  <2> SUFFICES ASSUME NEW k \in 1 .. Count + 1, k = Count + 1
               PROVE  Content(Position(k - 1))' = ev
    BY <1>5, <1>11
  <2>1. Position(k - 1)' = i
    BY <1>4, <1>5, <1>9, Ring, CapAssumption
  <2> QED
    BY <1>10, <2>1 DEF Content
<1>13. Buf' = [k \in 1 .. Count + 1 |-> IF k <= Count THEN Buf[k] ELSE Whole(ev)]
  BY <1>4, <1>5, <1>12, BufSeq DEF Buf, Pending, Whole
<1>14. Buf' = Append(Buf, Whole(ev))
  <2>1. Buf \in Seq({Buf[k] : k \in 1 .. Count}) /\ Len(Buf) = Count
    BY BufSeq
  <2> QED
    BY <1>5, <1>13, <2>1
<1> QED
  <2>1. Len(Buf) < Cap - 1
    BY <1>5, BufSeq, CapAssumption
  <2> QED
    BY <1>3, <1>14, <2>1, Zenon DEF Fifo!Put, Buf

(* The store to head hands out the head of the abstract buffer. *)
LEMMA GetStep == ASSUME QueueInv, Advance PROVE Fifo!Get
<1>1. InterruptsEnabled /\ UNCHANGED <<tail, q, frame, rc>> /\ head' = Succ(head) /\ got' = out
  BY DEF Advance, Goto
<1>2. head # tail /\ out = Whole(q[head])
  <2>1. head # tail /\ out.lo = q[head] /\ out.hi = q[head] /\ out \in Half
    BY DEF Advance, Goto, QueueInv, CopyNonEmpty, CopyStable, Copying, QueueTypeOK
  <2> QED
    BY <2>1 DEF Half, Whole
<1>3. Count' = Count - 1 /\ \A k \in 0 .. Cap - 2 : Position(k)' = Position(k + 1)
  <2>1. Succ(head) = IF head = Cap - 1 THEN 0 ELSE head + 1
    BY SuccRing DEF QueueInv, QueueTypeOK
  <2> QED
    BY <1>1, <1>2, <2>1, CapAssumption DEF Count, Position, QueueInv, QueueTypeOK, Slot
<1>4. Count \in 1 .. Cap - 1
  BY <1>2, Ring
<1>5. \A i : Content(i) = q[i] /\ Content(i)' = q[i]
  <2>1. InterruptsEnabled'
    BY <1>1 DEF InterruptsEnabled, Running
  <2> QED
    BY <1>1, <2>1 DEF InterruptsEnabled, Running, Content, InFlight
<1>6. Buf = [k \in 1 .. Count |-> Whole(q[Position(k - 1)])]
  BY <1>5, Zenon DEF Buf, Pending
<1>7. Buf' = [k \in 1 .. Count - 1 |-> Whole(q[Position(k)])]
  <2>1. \A k \in 1 .. Count - 1 : Position(k - 1)' = Position(k)
    BY <1>3, <1>4, CapAssumption
  <2>2. \A k \in 1 .. Count - 1 : Content(Position(k - 1))' = q[Position(k)]
    BY <1>1, <1>5, <2>1, <1>4 DEF Content
  <2> QED
    BY <1>3, <1>4, <2>2 DEF Buf, Pending, Whole
<1>8. Buf # << >> /\ Buf' = Tail(Buf) /\ got' = Head(Buf)
  <2>1. Buf \in Seq({Buf[k] : k \in 1 .. Count}) /\ Len(Buf) = Count
    BY BufSeq
  <2>2. Buf[1] = Whole(q[head])
    BY <1>4, <1>6, Ring, CapAssumption
  <2>3. \A k \in 1 .. Count - 1 : Buf[k + 1] = Whole(q[Position(k)])
    BY <1>4, <1>6
  <2>4. Buf # << >> /\ Head(Buf) = Buf[1]
    BY <1>4, <2>1
  <2>5. Tail(Buf) = [k \in 1 .. Count - 1 |-> Buf[k + 1]]
    <3> DEFINE S == {Buf[k] : k \in 1 .. Count}
    <3>1. Buf \in Seq(S) /\ Len(Buf) = Count
      BY <2>1
    <3> HIDE DEF S
    <3>2. /\ Tail(Buf) \in Seq(S)
          /\ Len(Tail(Buf)) = Count - 1
          /\ \A k \in 1 .. Count - 1 : Tail(Buf)[k] = Buf[k + 1]
      BY <2>4, <3>1, HeadTailProperties
    <3>3. Tail(Buf) = [k \in 1 .. Count - 1 |-> Tail(Buf)[k]]
      BY <3>2, LenProperties
    <3> QED
      BY <3>2, <3>3
  <2>6. Buf' = Tail(Buf)
    BY <1>7, <2>3, <2>5
  <2> QED
    BY <1>1, <1>2, <2>2, <2>4, <2>6
<1> QED
  BY <1>1, <1>8, Zenon DEF Fifo!Get, Buf

(* q[tail] = ev leaves the abstract buffer alone: before `tail' the slot is not
   pending, after it the pending event was the handler's. *)
LEMMA StoreSlotStep ==
  ASSUME QueueInv, NEW s \in Source, StoreSlot(s)
  PROVE  UNCHANGED <<Buf, got, rc>>
<1>1. Running(s) /\ Done(s, "slot") /\ "slot" \in frame[s].todo /\ UNCHANGED <<head, tail, got, rc>>
  BY DEF StoreSlot, Running
<1>2. frame[s] \in Frame
  BY DEF QueueInv, QueueTypeOK
<1>3. \A i \in Slot : q'[i] = IF i = frame[s].slot THEN frame[s].ev ELSE q[i]
  BY DEF StoreSlot, QueueInv, QueueTypeOK
<1>4. \A i : InFlight(i)' = {}
  <2>1. \A t \in Source : frame'[t].todo # {"slot"}
    BY <1>1, DoneFrame
  <2> QED
    BY <2>1 DEF InFlight
<1>5. Count \in 0 .. Cap - 1 /\ Count' = Count /\ \A k : Position(k)' = Position(k)
  BY <1>1, Ring DEF Count, Position
<1>6. \A k \in 1 .. Count : Content(Position(k - 1))' = Content(Position(k - 1))
  <2> SUFFICES ASSUME NEW k \in 1 .. Count
               PROVE  Content(Position(k - 1))' = Content(Position(k - 1))
    OBVIOUS
  <2>1. PICK j \in Slot : j = Position(k - 1)
    BY <1>5, Ring, CapAssumption
  <2>2. j # tail
    BY <1>5, <2>1, Ring, CapAssumption
  <2>3. Content(j)' = q'[j]
    BY <1>4 DEF Content
  <2>4. CASE frame[s].todo = {"slot"}
    <3>1. InFlight(j) = IF frame[s].slot = j THEN {s} ELSE {}
      BY <1>1, <2>4, InFlightOnly
    <3> QED
      BY <1>3, <1>5, <2>1, <2>3, <3>1 DEF Content
  <2>5. CASE frame[s].todo # {"slot"}
    <3>1. "tail" \in frame[s].todo
      BY <1>1, <1>2, <2>5 DEF Frame
    <3>2. frame[s].slot = tail
      BY <3>1 DEF QueueInv, FrameInv
    <3>3. InFlight(j) = {}
      BY <1>1, <2>5, InFlightOnly
    <3> QED
      BY <1>3, <1>5, <2>1, <2>2, <2>3, <3>2, <3>3 DEF Content
  <2> QED
    BY <2>4, <2>5
<1>7. Buf' = Buf
  BY <1>5, <1>6, Zenon DEF Buf, Pending, Whole
<1> QED
  BY <1>1, <1>7

(* Opening a frame, or being refused, leaves the abstract buffer alone; a
   refusal happens only when it is full. *)
LEMMA EnqueueStep ==
  ASSUME QueueInv, InterruptsEnabled, NEW s \in Source, NEW e \in Event, Enqueue(s, e),
         UNCHANGED <<head, tail, q, got>>
  PROVE  Fifo!Refuse \/ UNCHANGED <<Buf, got, rc>>
<1>1. CASE Succ(tail) = head /\ rc' = -1 /\ UNCHANGED frame
  <2>1. Len(Buf) = Cap - 1
    BY <1>1, Ring, BufSeq
  <2>2. Buf' = Buf
    BY <1>1, SameBuf
  <2> QED
    BY <1>1, <2>1, <2>2, Zenon DEF Fifo!Refuse, Buf
<1>2. CASE Accept(s, e)
  <2>1. \A t \in Source : frame'[t].todo # {"slot"}
    BY <1>2 DEF Accept, InterruptsEnabled, Running, QueueInv, QueueTypeOK
  <2>2. \A i : Content(i)' = q'[i]
    BY <2>1 DEF Content, InFlight
  <2>3. \A i : Content(i) = q[i]
    BY IdleContent
  <2>4. Count' = Count /\ \A k : Position(k)' = Position(k)
    BY DEF Count, Position
  <2>5. \A k : Content(Position(k - 1))' = Content(Position(k - 1))
    BY <2>2, <2>3, <2>4 DEF Content
  <2>6. Buf' = Buf
    BY <2>4, <2>5, Zenon DEF Buf, Pending, Whole
  <2> QED
    BY <1>2, <2>6 DEF Accept
<1> QED
  BY <1>1, <1>2 DEF Enqueue

(* The empty ring is the empty sequence. *)
LEMMA InitFifo == QueueInit => Fifo!Init
<1> SUFFICES ASSUME QueueInit PROVE Fifo!Init
  OBVIOUS
<1>1. Buf = << >>
  BY DEF QueueInit, Buf, Count
<1> QED
  BY <1>1, Zenon DEF QueueInit, Fifo!Init, Buf

(* Every step is a Put, a Refuse, a Get or a stutter of BoundedFifo. *)
LEMMA NextFifo == QueueInv /\ QueueInv' /\ [QueueNext]_queueVars => [Fifo!Next]_Fifo!fifoVars
<1> SUFFICES ASSUME QueueInv, QueueInv', [QueueNext]_queueVars PROVE [Fifo!Next]_Fifo!fifoVars
  OBVIOUS
<1>1. UNCHANGED <<Buf, got, rc>> => UNCHANGED Fifo!fifoVars
  BY Zenon DEF Fifo!fifoVars, Buf
<1>2. Fifo!Refuse => Fifo!Next
  BY DEF Fifo!Next
<1>3. ASSUME NEW s \in Device, NEW e \in DeviceEvent, DeviceInterrupt(s, e)
      PROVE  [Fifo!Next]_Fifo!fifoVars
  <2>1. s \in Source /\ e \in Event
    BY DEF Source, Event
  <2> QED
    BY <1>1, <1>2, <1>3, <2>1, EnqueueStep DEF DeviceInterrupt
<1>4. CASE PitInterrupt
  <2>1. Pit \in Source /\ TickEvent \in Event
    BY DEF Source, Event
  <2>2. CASE ticks' = 0
    BY <1>1, <1>2, <1>4, <2>1, <2>2, EnqueueStep DEF PitInterrupt
  <2>3. CASE ticks' # 0
    BY <1>1, <1>4, <2>3, SameBuf DEF PitInterrupt
  <2> QED
    BY <2>2, <2>3
<1>5. ASSUME NEW s \in Source, Handler(s) PROVE [Fifo!Next]_Fifo!fifoVars
  <2>1. CASE StoreSlot(s)
    BY <1>1, <2>1, StoreSlotStep
  <2>2. CASE StoreTail(s)
    <3>1. frame[s].ev \in Event
      BY <2>2 DEF StoreTail, QueueInv, FrameInv, Running
    <3> QED
      BY <2>2, <3>1, PutStep DEF Fifo!Next
  <2> QED
    BY <1>5, <2>1, <2>2 DEF Handler
<1>6. CASE MainLoop
  <2>1. CASE Advance
    BY <2>1, GetStep DEF Fifo!Next
  <2>2. CASE EnterLoop \/ TestEmpty \/ CopyLo \/ CopyHi \/ Composite \/ Halt
    <3>1. UNCHANGED <<head, tail, q, frame, rc, got>>
      BY <2>2 DEF EnterLoop, TestEmpty, CopyLo, CopyHi, Composite, Halt
    <3> QED
      BY <1>1, <3>1, SameBuf
  <2> QED
    BY <1>6, <2>1, <2>2 DEF MainLoop
<1>7. CASE UNCHANGED queueVars
  BY <1>1, <1>7, SameBuf DEF queueVars
<1> QED
  BY <1>3, <1>4, <1>5, <1>6, <1>7 DEF QueueNext

(* The ring buffer of events.c implements a FIFO of Cap - 1 whole events. *)
THEOREM QueueRefinement == QueueSpec => ImplementsFifo
<1>1. QueueSpec => Fifo!Init /\ [][Fifo!Next]_Fifo!fifoVars
  BY InitFifo, NextFifo, QueueInvariance, PTL DEF QueueSpec
<1> QED
  BY <1>1, PTL DEF ImplementsFifo, Fifo!Spec
==============================================================================
