----------------------------- MODULE EventQueue -----------------------------
(***************************************************************************)
(* kernel/core/events.c: the ring buffer between the interrupt handlers    *)
(* (PIT, keyboard, mouse), which enqueue, and the main loop of the UI      *)
(* (ui_system_run, nanaura_run), which dequeues, repaints and halts.       *)
(*                                                                         *)
(* There is one CPU.  Every gate of the IDT is an interrupt gate, so a     *)
(* handler starts only when no other one is running and the main loop does *)
(* not move before it returns; the main loop runs with interrupts enabled  *)
(* and is interrupted between any two of its steps.  `head' and `tail' are *)
(* volatile, the array is not: the compiler may store the slot and `tail'  *)
(* in either order (the build in the repository stores `tail' first), so   *)
(* the two stores of events_enqueue happen here in any order.  An event is *)
(* 16 bytes and is copied out by two 8-byte loads.                         *)
(***************************************************************************)
EXTENDS Integers, Sequences

CONSTANTS Cap,          \* EVENT_QUEUE_CAP, 128 in the source
          Device,       \* interrupt sources other than the PIT
          DeviceEvent,  \* contents of the events they enqueue
          TickEvent,    \* content of an EVENT_TIMER event
          Quantum,      \* PIT ticks per EVENT_TIMER event, 10 in the source
          Pit,          \* the PIT as an interrupt source
          None          \* no event (a zeroed slot, an idle handler)

ASSUME CapAssumption == Cap \in Nat /\ Cap > 1
ASSUME QuantumAssumption == Quantum \in Nat \ {0}
ASSUME NoneAssumption == None \notin DeviceEvent \cup {TickEvent}
ASSUME PitAssumption == Pit \notin Device

VARIABLES
  head, tail,   \* indices of events.c
  q,            \* the array q
  ticks,        \* pit_ticks, modulo Quantum
  frame,        \* per source: its running handler inside events_enqueue
  rc,           \* the result of the last events_enqueue
  pc,           \* where the main loop is
  out,          \* `ev' of the main loop, its two 8-byte halves
  got           \* the event last passed to the loop's event handler

queueVars == <<head, tail, q, ticks, frame, rc, pc, out, got>>

Event  == DeviceEvent \cup {TickEvent}
Source == Device \cup {Pit}
Slot   == 0 .. Cap - 1
Half   == [lo : Event \cup {None}, hi : Event \cup {None}]
Idle   == [ev |-> None, slot |-> 0, todo |-> {}]
Frame  == [ev : Event \cup {None}, slot : Slot, todo : SUBSET {"slot", "tail"}]
PC     == {"boot", "test", "lo", "hi", "advance", "composite", "hlt", "halted"}

QueueTypeOK == /\ head \in Slot /\ tail \in Slot
               /\ q \in [Slot -> Event \cup {None}]
               /\ ticks \in 0 .. Quantum - 1
               /\ frame \in [Source -> Frame]
               /\ rc \in {0, -1}
               /\ pc \in PC
               /\ out \in Half /\ got \in Half

Succ(i) == (i + 1) % Cap

(***************************************************************************)
(* Interrupts.  EFLAGS.IF is clear from the entry of a handler to its      *)
(* iretq.  An interrupt ends the main loop's hlt.                          *)
(***************************************************************************)
Running(s) == frame[s].todo # {}
InterruptsEnabled == \A s \in Source : ~Running(s)
NoWake == UNCHANGED pc \* a bug: hlt with interrupts masked
Wake == pc' = IF pc = "halted" THEN "test" ELSE pc

QueueInit == /\ head = 0 /\ tail = 0
             /\ q = [i \in Slot |-> None]
             /\ ticks = 0
             /\ frame = [s \in Source |-> Idle]
             /\ rc = 0
             /\ pc = "boot"
             /\ out = [lo |-> None, hi |-> None]
             /\ got = [lo |-> None, hi |-> None]

Accept(s, e) == /\ frame' = [frame EXCEPT ![s] = [ev |-> e, slot |-> tail,
                                                    todo |-> {"slot", "tail"}]]
                /\ UNCHANGED rc
NoFullTest(s, e) == Accept(s, e) \* a bug: the ring may wrap onto itself
FullTooEarly(s, e) == \* a bug: one slot short
  IF Succ(Succ(tail)) = head THEN rc' = -1 /\ UNCHANGED frame ELSE Accept(s, e)

(* events_enqueue as called by the handler of s, up to its first store *)
Enqueue(s, e) ==
  \/ /\ Succ(tail) = head
     /\ rc' = -1
     /\ UNCHANGED frame
  \/ /\ Succ(tail) # head
     /\ Accept(s, e)

(* keyboard_on_interrupt with a mapped key, mouse_on_interrupt with the last
   byte of a packet *)
DeviceInterrupt(s, e) ==
  /\ InterruptsEnabled
  /\ Enqueue(s, e)
  /\ Wake
  /\ UNCHANGED <<head, tail, q, ticks, out, got>>

(* pit_on_interrupt: an event every Quantum ticks *)
PitInterrupt ==
  /\ InterruptsEnabled
  /\ ticks' = (ticks + 1) % Quantum
  /\ IF ticks' = 0 THEN Enqueue(Pit, TickEvent) ELSE UNCHANGED <<frame, rc>>
  /\ Wake
  /\ UNCHANGED <<head, tail, q, out, got>>

Done(s, store) == frame' = [frame EXCEPT ![s].todo = @ \ {store}]

(* q[tail] = ev *)
StoreSlot(s) ==
  /\ "slot" \in frame[s].todo
  /\ q' = [q EXCEPT ![frame[s].slot] = frame[s].ev]
  /\ Done(s, "slot")
  /\ UNCHANGED <<head, tail, ticks, rc, pc, out, got>>

(* tail = next; the call returns 0 *)
StoreTail(s) ==
  /\ "tail" \in frame[s].todo
  /\ tail' = Succ(frame[s].slot)
  /\ rc' = 0
  /\ Done(s, "tail")
  /\ UNCHANGED <<head, q, ticks, pc, out, got>>

Handler(s) == StoreSlot(s) \/ StoreTail(s)

(***************************************************************************)
(* The main loop: while (events_dequeue(&ev) == 0) handle(ev); repaint;    *)
(* hlt.                                                                    *)
(***************************************************************************)
Goto(from, to) == InterruptsEnabled /\ pc = from /\ pc' = to

(* the splash screen of ui_system_init ends, nobody dequeued so far *)
EnterLoop == Goto("boot", "test") /\ UNCHANGED <<head, tail, q, ticks, frame, rc, out, got>>

(* events_dequeue: head == tail *)
TestEmpty == /\ Goto("test", IF head = tail THEN "composite" ELSE "lo")
             /\ UNCHANGED <<head, tail, q, ticks, frame, rc, out, got>>

(* *out = q[head], the first and then the second eight bytes *)
CopyLo == /\ Goto("lo", "hi")
          /\ out' = [out EXCEPT !.lo = q[head]]
          /\ UNCHANGED <<head, tail, q, ticks, frame, rc, got>>

CopyHi == /\ Goto("hi", "advance")
          /\ out' = [out EXCEPT !.hi = q[head]]
          /\ UNCHANGED <<head, tail, q, ticks, frame, rc, got>>

(* head = (head + 1) % CAP; return 0, and the event goes to its handler *)
Advance == /\ Goto("advance", "test")
           /\ head' = Succ(head)
           /\ got' = out
           /\ UNCHANGED <<tail, q, ticks, frame, rc, out>>

(* events_dequeue returned -1: the loop repaints, then executes hlt.  An
   interrupt between the test and the hlt is handled before the hlt and does
   not end it. *)
Composite == Goto("composite", "hlt") /\ UNCHANGED <<head, tail, q, ticks, frame, rc, out, got>>
Halt == Goto("hlt", "halted") /\ UNCHANGED <<head, tail, q, ticks, frame, rc, out, got>>

MainLoop == EnterLoop \/ TestEmpty \/ CopyLo \/ CopyHi \/ Advance \/ Composite \/ Halt

QueueNext == \/ \E s \in Device, e \in DeviceEvent : DeviceInterrupt(s, e)
             \/ PitInterrupt
             \/ \E s \in Source : Handler(s)
             \/ MainLoop

QueueSpec == QueueInit /\ [][QueueNext]_queueVars

(***************************************************************************)
(* Fairness: handlers are straight-line code, the PIT keeps ticking at     *)
(* 100 Hz, and between interrupts the CPU executes the main loop (strong,  *)
(* because every interrupt disables it for a while).  Devices owe nothing. *)
(***************************************************************************)
FairSpec == /\ QueueSpec
            /\ \A s \in Source : WF_queueVars(Handler(s))
            /\ SF_queueVars(PitInterrupt)
            /\ SF_queueVars(MainLoop)

-----------------------------------------------------------------------------
(* The undelivered events, oldest first: what lies between head and tail,
   where a slot whose `tail' is already published may still be on its way. *)
Count == IF tail >= head THEN tail - head ELSE tail - head + Cap
Position(k) == IF head + k < Cap THEN head + k ELSE head + k - Cap
InFlight(i) == {s \in Source : frame[s].todo = {"slot"} /\ frame[s].slot = i}
Content(i) == IF InFlight(i) = {} THEN q[i] ELSE frame[CHOOSE s \in InFlight(i) : TRUE].ev
Pending == [k \in 1 .. Count |-> Content(Position(k - 1))]

Whole(e) == [lo |-> e, hi |-> e]
Fifo == INSTANCE BoundedFifo WITH Event <- {Whole(e) : e \in Event}, Depth <- Cap - 1,
                                  buf <- [k \in 1 .. Count |-> Whole(Pending[k])]

(* A handler is never inside events_enqueue while another one is: the stores
   of two handlers to q and tail never mix (idt.c installs interrupt gates). *)
OneHandler == \A s, t \in Source : Running(s) /\ Running(t) => s = t

(* No handler stores into the slot the main loop is copying out of: between
   the first load of events_dequeue and its store to head, what was copied is
   still what the slot holds. *)
CopyStable == /\ pc \in {"hi", "advance"} => out.lo = q[head]
              /\ pc = "advance" => out.hi = q[head]

(* The ring buffer is a FIFO of Cap - 1 whole events: none is lost, repeated,
   reordered or torn once events_enqueue returned 0, and it returns -1 only
   when Cap - 1 events wait. *)
ImplementsFifo == Fifo!Spec

(* An event that was accepted is eventually handed to the UI loop, although
   the loop executes hlt without rechecking the queue: the next PIT tick ends
   the hlt. *)
Delivered == \A e \in Event :
               (\E k \in 1 .. Count : Pending[k] = e) ~> (got = Whole(e))
=============================================================================
