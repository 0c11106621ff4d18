-------------------------------- MODULE Input --------------------------------
(***************************************************************************)
(* drivers/keyboard and drivers/mouse behind the one data port of the      *)
(* 8042 controller: their initialization with interrupts masked, which     *)
(* reads the port by polling, then the two interrupt handlers, and the     *)
(* line the shell edits inside the keyboard's.                             *)
(*                                                                         *)
(* External: the controller presents one byte at a time and raises line 1  *)
(* (keyboard and its own answers) or line 12 (mouse) with it, when its     *)
(* configuration says so; the interrupt controller remembers the request.  *)
(* A request whose byte was polled away may stay (as the emulated          *)
(* controller has it) or be withdrawn (as the chip does).  A handler is    *)
(* one step: what arrives while it runs arrives after it.                  *)
(*                                                                         *)
(* Not in the code: where a byte came from, typed, report.sent, and what   *)
(* went wrong: misread, left, mixed, upset.  The events go to EventQueue,  *)
(* the sum of the movements to Desktop.                                    *)
(***************************************************************************)
EXTENDS Integers, Sequences, SequencesExt

CONSTANTS KeyBytes,     \* scan codes the keyboard sends
          Moves,        \* what the mouse does between two packets
          FirstConfigs, \* the controller's configuration as the firmware leaves it
          LineMax,      \* characters of a line, sizeof(linebuf) - 1
          MaxPending,   \* bound on bytes on their way
          MaxKeys,      \* bound on bytes of the keyboard
          MaxHard,      \* bound on packets in which a movement looks like a first byte
          MaxLost       \* bound on bytes of the mouse that get lost

Byte == 0 .. 255
Delta == -128 .. 127
ASSUME InputAssumption ==
  /\ KeyBytes \subseteq Byte /\ FirstConfigs \subseteq Byte
  /\ Moves \subseteq [dx : -256 .. 255, dy : -256 .. 255, buttons : 0 .. 7]
  /\ {LineMax, MaxPending, MaxKeys, MaxHard, MaxLost} \subseteq Nat

VARIABLES pending,  \* bytes on their way to the port; the first is there
          last,     \* the byte last read, which an empty port shows again
          irq,      \* remembered requests
          config,   \* the controller's configuration byte
          mouse,    \* there is one
          boot,     \* where kernel_main is
          packet,   \* mouse_packet up to mouse_cycle
          report,   \* the last movement reported, and the bytes it came from
          line,     \* the shell's line
          typed,    \* keys since boot
          keys, hard, lost, \* how many there were
          misread, left, mixed, upset

cpu == <<packet, report, line>>
count == <<keys, hard, lost>>
wrong == <<misread, left, mixed, upset>>
vars == <<pending, last, irq, config, mouse, boot, cpu, typed, count, wrong>>

Keyboard == 1
Mouse == 12
Boot == {"flush", "ask", "config", "configure", "defaults", "ack defaults", "stream", "ack stream",
         "mount", "run"}
Still == [dx |-> 0, dy |-> 0, buttons |-> 0]
Item(from, byte, part, move) == [from |-> from, byte |-> byte, part |-> part, move |-> move]
Nothing == Item("nobody", 0, 0, Still)

(* the bit of n that is worth mask *)
Bit(n, mask) == (n \div mask) % 2 = 1
Signed(b) == IF Bit(b, 128) THEN b - 256 ELSE b

(* scancode_map: which codes stand for a character; here the code names it *)
Enter == 28
Backspace == 14
Mapped == (2 .. 28) \cup (30 .. 41) \cup (44 .. 53) \cup {57}

(* A packet: bit 3 of its first byte is always set. *)
PartByte(m, part) ==
  CASE part = 1 -> 8 + m.buttons + (IF m.dx < 0 THEN 16 ELSE 0) + (IF m.dy < 0 THEN 32 ELSE 0)
    [] part = 2 -> m.dx % 256
    [] part = 3 -> m.dy % 256
Part(m, part) == Item("mouse", PartByte(m, part), part, m)
Hard(m) == Bit(PartByte(m, 2), 8) \/ Bit(PartByte(m, 3), 8)
Acknowledge == Item("mouse", 250, 0, Still)

TypeOK ==
  /\ \A i \in DOMAIN pending : pending[i].byte \in Byte /\ pending[i].part \in 0 .. 3
  /\ Len(pending) <= MaxPending + 3
  /\ last \in Byte /\ config \in Byte
  /\ irq \subseteq {Keyboard, Mouse}
  /\ boot \in Boot /\ mouse \in BOOLEAN
  /\ Len(packet) <= 2
  /\ report.dx \in Delta /\ report.dy \in Delta /\ report.buttons \in 0 .. 7
  /\ line \in Seq(Mapped \ {Enter, Backspace}) /\ Len(line) <= LineMax
  /\ {misread, left, mixed, upset} \subseteq BOOLEAN

Init == /\ pending = << >> /\ last = 0 /\ irq = {}
        /\ config \in FirstConfigs /\ mouse \in BOOLEAN
        /\ boot = "flush"
        /\ packet = << >> /\ line = << >>
        /\ report = [dx |-> 0, dy |-> 0, buttons |-> 0, sent |-> << >>]
        /\ typed = << >> /\ keys = 0 /\ hard = 0 /\ lost = 0
        /\ misread = FALSE /\ left = FALSE /\ mixed = FALSE /\ upset = FALSE

-----------------------------------------------------------------------------
(* The controller.                                                         *)

Line(item) == IF item.from = "mouse" THEN Mouse ELSE Keyboard
InterruptsOn(cfg) == {l \in {Keyboard, Mouse} : Bit(cfg, IF l = Mouse THEN 2 ELSE 1)}
(* the request that comes with the first of the bytes q *)
Request(q, cfg) == IF q = << >> THEN {} ELSE {Line(q[1])} \cap InterruptsOn(cfg)

Send(items) == /\ pending' = pending \o items
               /\ irq' = irq \cup IF pending = << >> THEN Request(items, config) ELSE {}

(* what inb(0x60) returns, and what is on its way after it *)
Read == IF pending = << >> THEN [Nothing EXCEPT !.byte = last] ELSE pending[1]
Rest == IF pending = << >> THEN << >> ELSE Tail(pending)
Take(kept) == /\ last' = Read.byte
              /\ pending' = Rest
              /\ irq' = kept \cup Request(Rest, config)

-----------------------------------------------------------------------------
(* kernel_main from keyboard_init to sti.                                  *)

(* inb(0x60) with interrupts masked; a key that is read is not typed *)
Poll == /\ Take(irq) \/ Take(irq \ {Line(Read)})
        /\ typed' = IF Read.from = "keyboard" /\ Read.byte \in Mapped THEN Tail(typed) ELSE typed

(* keyboard_init *)
Flush == /\ boot = "flush" /\ pending # << >>
         /\ Poll
         /\ UNCHANGED <<config, mouse, boot, cpu, count, wrong>>
Flushed == /\ boot = "flush" /\ pending = << >>
           /\ boot' = "ask"
           /\ UNCHANGED <<pending, last, irq, config, mouse, cpu, typed, count, wrong>>

(* mouse_init: commands 0xA8, and 0x20, which the controller answers *)
AskConfig == LET on == IF Bit(config, 32) THEN config - 32 ELSE config IN
  /\ boot = "ask"
  /\ boot' = "config"
  /\ config' = on
  /\ Send(<<Item("controller", on, 0, Still)>>)
  /\ UNCHANGED <<last, mouse, cpu, typed, count, wrong>>
ReadConfig == /\ boot = "config" /\ pending # << >>
              /\ boot' = "configure"
              /\ Poll
              /\ misread' = (Read.from # "controller")
              /\ UNCHANGED <<config, mouse, cpu, count, left, mixed, upset>>
AsItWas(b) == b \* a bug: the mouse's interrupt is not enabled
WithMouse(b) == IF Bit(b, 2) THEN b ELSE b + 2
(* command 0x60: the byte read last goes back *)
Configure == /\ boot = "configure"
             /\ boot' = "defaults"
             /\ config' = WithMouse(last)
             /\ irq' = irq \cup Request(pending, config')
             /\ UNCHANGED <<pending, last, mouse, cpu, typed, count, wrong>>

(* mouse_write and mouse_read: 0xF6, then 0xF4, from which on the mouse sends *)
Command(at, next) == /\ boot = at
                     /\ boot' = next
                     /\ IF mouse THEN Send(<<Acknowledge>>) ELSE UNCHANGED <<pending, irq>>
                     /\ UNCHANGED <<last, config, mouse, cpu, typed, count, wrong>>
(* Without an answer mouse_wait_read gives up and the port's old byte is read. *)
ReadAnswer(at, next) == /\ boot = at
                        /\ boot' = next
                        /\ Poll
                        /\ upset' = (upset \/ Read.part > 0)
                        /\ UNCHANGED <<config, mouse, cpu, count, misread, left, mixed>>

Sti == /\ boot = "mount"
       /\ boot' = "run"
       /\ left' = (irq \ Request(pending, config) # {})
       /\ UNCHANGED <<pending, last, irq, config, mouse, cpu, typed, count, misread, mixed, upset>>

-----------------------------------------------------------------------------
(* The handlers.                                                           *)

AnyLength(buf, c) == \* a bug: the line's end is not tested
  CASE c = Enter -> << >>
    [] c = Backspace -> IF buf = << >> THEN buf ELSE Front(buf)
    [] OTHER -> Append(buf, c)
(* shell_receive_char; at Enter the command runs and the line is empty *)
Receive(buf, c) ==
  CASE c = Enter -> << >>
    [] c = Backspace -> IF buf = << >> THEN buf ELSE Front(buf)
    [] OTHER -> IF Len(buf) < LineMax THEN Append(buf, c) ELSE buf

ReleaseToo(b) == b % 128 \in Mapped \* a bug: a key is seen when it goes up as well
(* not a release, and in the map *)
IsCharacter(b) == ~Bit(b, 128) /\ b \in Mapped

DrainPort == \* a bug: the handler reads until the port is empty, whoever sent it
  /\ boot = "run" /\ Keyboard \in irq
  /\ pending' = << >> /\ irq' = irq \ {Keyboard}
  /\ mixed' = (mixed \/ \E i \in DOMAIN pending : pending[i].from # "keyboard")
  /\ UNCHANGED <<last, config, mouse, boot, cpu, typed, count, misread, left, upset>>
(* keyboard_on_interrupt *)
KeyboardInterrupt ==
  /\ boot = "run" /\ Keyboard \in irq
  /\ Take(irq \ {Keyboard})
  /\ line' = IF IsCharacter(Read.byte) THEN Receive(line, Read.byte % 128) ELSE line
  /\ mixed' = (mixed \/ Read.from # "keyboard")
  /\ upset' = (upset \/ Read.part > 0)
  /\ UNCHANGED <<config, mouse, boot, packet, report, typed, count, misread, left>>

NoTest(n, b) == TRUE \* a bug: the driver never resynchronizes
EveryByte(n, b) == Bit(b, 8) \* a bug: bit 3 is asked of all three bytes
(* a byte the driver keeps, when it has n of a packet *)
Keeps(n, b) == n > 0 \/ Bit(b, 8)

Decode(p) == [dx |-> Signed(p[2].byte), dy |-> Signed(p[3].byte), buttons |-> p[1].byte % 8, sent |-> p]

(* mouse_on_interrupt; line 1 goes first *)
MouseInterrupt ==
  LET stored == Append(packet, Read)
  IN  /\ boot = "run" /\ Mouse \in irq /\ Keyboard \notin irq
      /\ Take(irq \ {Mouse})
      /\ IF ~Keeps(Len(packet), Read.byte) THEN UNCHANGED <<packet, report>>
         ELSE IF Len(stored) < 3 THEN packet' = stored /\ UNCHANGED report
         ELSE packet' = << >> /\ report' = Decode(stored)
      /\ mixed' = (mixed \/ Read.from # "mouse")
      /\ upset' = (upset \/ Read.part = 0)
      /\ UNCHANGED <<config, mouse, boot, line, typed, count, misread, left>>

-----------------------------------------------------------------------------
(* The user.                                                               *)

(* A key goes down or up.  The controller may take its byte before ones of the
   mouse that are still on their way. *)
Key(b) ==
  /\ keys < MaxKeys /\ Len(pending) < MaxPending /\ ~Bit(config, 16)
  /\ keys' = keys + 1
  /\ typed' = IF b \in Mapped THEN Append(typed, b) ELSE typed
  /\ \E i \in 1 .. Len(pending) + 1 :
       /\ i = 1 => pending = << >>
       /\ \A j \in i .. Len(pending) : pending[j].from = "mouse"
       /\ pending' = InsertAt(pending, i, Item("keyboard", b, 0, Still))
       /\ irq' = irq \cup IF i = 1 THEN Request(pending', config) ELSE {}
  /\ UNCHANGED <<last, config, mouse, boot, cpu, hard, lost, wrong>>

(* The mouse moves or a button changes; a byte of the packet may get lost. *)
Move(m) ==
  /\ mouse /\ boot \in {"ack stream", "mount", "run"} /\ ~Bit(config, 32)
  /\ Len(pending) < MaxPending
  /\ Hard(m) => hard < MaxHard
  /\ hard' = IF Hard(m) THEN hard + 1 ELSE hard
  /\ \/ /\ Send(<<Part(m, 1), Part(m, 2), Part(m, 3)>>)
        /\ UNCHANGED <<lost, upset>>
     \/ \E i \in 1 .. 3 :
          /\ lost < MaxLost
          /\ Send(RemoveAt(<<Part(m, 1), Part(m, 2), Part(m, 3)>>, i))
          /\ lost' = lost + 1 /\ upset' = TRUE
  /\ UNCHANGED <<last, config, mouse, boot, cpu, typed, keys, misread, left, mixed>>

Handlers == KeyboardInterrupt \/ MouseInterrupt
Kernel == \/ Flush \/ Flushed \/ AskConfig \/ ReadConfig \/ Configure
          \/ Command("defaults", "ack defaults") \/ ReadAnswer("ack defaults", "stream")
          \/ Command("stream", "ack stream") \/ ReadAnswer("ack stream", "mount")
          \/ Sti \/ Handlers
User == \/ \E b \in KeyBytes : Key(b)
        \/ \E m \in Moves : Move(m)
Next == Kernel \/ User

(* The processor goes on; the user need not do anything. *)
Spec == Init /\ [][Next]_vars /\ WF_vars(Kernel)

-----------------------------------------------------------------------------
(* A handler takes a byte that is not its device's, or an old one again, only
   when a request outlived its byte at boot, or when keyboard_init and mouse_init
   were separated by a key. *)
OwnBytes == mixed => left \/ misread

(* The driver's packet is the beginning of one packet of the mouse, and the
   mouse's next byte continues it. *)
FirstOfMouse(i) == pending[i].from = "mouse" /\ \A j \in 1 .. i - 1 : pending[j].from # "mouse"
Aligned ==
  /\ \A i \in DOMAIN packet : packet[i].part = i /\ packet[i].move = packet[1].move
  /\ \A i \in DOMAIN pending : FirstOfMouse(i) => pending[i].part = Len(packet) + 1
  /\ report.sent # << >> =>
       \E m \in Moves : /\ report.sent = [i \in 1 .. 3 |-> Part(m, i)]
                        /\ m.dx \in Delta => report.dx = m.dx
                        /\ m.dy \in Delta => report.dy = m.dy
                        /\ report.buttons = m.buttons

(* mouse.c:54, :59: unless a byte was lost or a foreign one came in between, the
   driver is in step with the mouse and reports what the mouse did, unless that was
   faster than a signed byte can say. *)
InStep == /\ boot = "run" /\ ~upset
          /\ \A i \in DOMAIN pending : FirstOfMouse(i) => pending[i].part > 0
          => Aligned

(* mouse.c:54: after any lost or foreign byte, a mouse that goes on sending
   movements that do not look like first bytes is understood again for good. *)
Resynchronizes == ([]<><<\E m \in Moves : Move(m)>>_vars) => <>[]Aligned

(* what codes make of the line buf, one by one, and the codes of bytes on their way *)
Feeds(buf, c) == IF c \in Mapped THEN Receive(buf, c) ELSE buf
Feed(buf, codes) ==
  LET fed[i \in 0 .. Len(codes)] == IF i = 0 THEN buf ELSE Feeds(fed[i - 1], codes[i])
  IN  fed[Len(codes)]
Codes(items) == [i \in DOMAIN items |-> IF items[i].from = "keyboard" THEN items[i].byte ELSE 0]

(* keyboard.c:30, shell.c:197: the line, with the keys on their way to it, is
   what was typed, in order: no character is lost, doubled or made of a release. *)
KeysInOrder == ~mixed /\ boot = "run" => Feed(<< >>, typed) = Feed(line, Codes(pending))

(* mouse.c:36: bytes do not get stuck in the port, where they would shut out both
   devices, unless a key was taken for the controller's configuration. *)
Heard == \/ []<>(pending = << >>) \/ []<><<Handlers>>_vars
         \/ <>misread
=============================================================================
