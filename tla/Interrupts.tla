----------------------------- MODULE Interrupts -----------------------------
(***************************************************************************)
(* Who interrupts whom: RFLAGS.IF, the two interrupt controllers, the      *)
(* handlers of arch/x86_64 and what the Scheduler does inside them.        *)
(*                                                                         *)
(* Every context of the Scheduler, the kernel's (0) and the processes',    *)
(* has a stack of frames: the gates it went through and has not returned   *)
(* from, each with the IF that iretq will restore.  context_switch changes *)
(* stacks and leaves IF as it is.  Under its frames the kernel's context   *)
(* runs the main loop, and a process its program.  The scheduler decides   *)
(* nothing here by itself: that its ticks and commands only come when its  *)
(* own model lets them come is what ImplementsScheduler says.              *)
(***************************************************************************)
EXTENDS Integers, Sequences, SequencesExt, FiniteSetsExt

CONSTANTS MaxPid, TickQuantum \* as in Scheduler

ASSUME MaxPidAssumption == MaxPid \in Nat
ASSUME TickQuantumAssumption == TickQuantum \in Nat \ {0}

VARIABLES runqueue, zombies, current, tick_count, need_resched, next_pid, state,
          address_space, cr3, cpu, saved, waitFor, \* as in Scheduler
          intr,    \* RFLAGS.IF
          irr,     \* interrupt requests that wait in the controllers
          isr,     \* lines in service in the controllers
          stack,   \* of frames, by context
          call     \* history: the words the last system call was dispatched with

S == INSTANCE Scheduler

cpuVars == <<intr, irr, isr, stack, call>>
schedulerVars == <<runqueue, zombies, current, tick_count, need_resched, next_pid, state,
                   address_space, cr3, cpu, saved, waitFor>>
vars == <<schedulerVars, cpuVars>>

Timer == 0
Keyboard == 1
Cascade == 2
Mouse == 12
Spurious == {7, 15} \* what a controller answers when a request has gone away
Line == {Timer, Keyboard, Mouse}

Context == 0 .. MaxPid
Vector(line) == line + 32
NoFrame == -1
PageFaultVector == 14
SystemCallVector == 128
OtherException == {0, 6, 13}
Frame == [vector : 0 .. 255,
          enabled : BOOLEAN, \* the IF that was saved
          command : BOOLEAN] \* the keyboard's handler is inside a command of the shell
Word == {"saved", "return", "rax", "rbx", "rcx", "rdx", "rsi", "rdi", "rbp", "r8", "r9"}
Call == [nr : Word, args : Seq(Word)]
NoCall == [nr |-> "rax", args |-> << >>]

TypeOK == /\ S!TypeOK
          /\ intr \in BOOLEAN
          /\ irr \subseteq Line
          /\ isr \in [master : SUBSET {Timer, Keyboard, Cascade}, slave : SUBSET {Mouse}]
          /\ stack \in [Context -> Seq(Frame)]
          /\ call \in Call

(* kernel_main before sti *)
Init == /\ S!Init
        /\ intr = FALSE
        /\ irr = {}
        /\ isr = [master |-> {}, slave |-> {}]
        /\ stack = [c \in Context |-> << >>]
        /\ call = NoCall

-----------------------------------------------------------------------------
(* Gates.                                                                  *)

Top == IF stack[cpu] = << >> THEN NoFrame ELSE Last(stack[cpu]).vector
InCommand == Top = Vector(Keyboard) /\ Last(stack[cpu]).command

Push(vector) ==
  stack' = [stack EXCEPT ![cpu] = Append(@, [vector |-> vector, enabled |-> intr, command |-> FALSE])]

TrapGate(vector) == Push(vector) /\ UNCHANGED intr \* a bug: a type of gate that leaves IF as it is
(* Every vector has an interrupt gate (idt_init). *)
Enter(vector) == Push(vector) /\ intr' = FALSE

(* isr_common from the return of isr_common_c on *)
Iretq == /\ stack' = [stack EXCEPT ![cpu] = Front(@)]
         /\ intr' = Last(stack[cpu]).enabled

-----------------------------------------------------------------------------
(* The controllers.                                                        *)

NoCascade == {Timer, Keyboard, Mouse} \* a bug: the slave's line on the master stays masked
(* pic_init *)
Unmasked == {Timer, Keyboard, Cascade, Mouse}

Level(line) == IF line < 8 THEN line ELSE Cascade \* its line on the master
Requesting(line) ==
  /\ line \in irr /\ line \in Unmasked /\ Level(line) \in Unmasked
  /\ \A l \in isr.master : Level(line) < l
  /\ line >= 8 => \A l \in isr.slave : line < l

InService(line) == [master |-> isr.master \cup {Level(line)},
                    slave |-> isr.slave \cup ({line} \ (0 .. 7))]

(* A nonspecific end of interrupt clears the highest line in service. *)
Ended(lines) == IF lines = {} THEN {} ELSE lines \ {Min(lines)}

SlaveForgotten(irq) == \* a bug: only the master is told
  isr' = [isr EXCEPT !.master = Ended(@)]
(* pic_send_eoi *)
SendEoi(irq) == isr' = [master |-> Ended(isr.master),
                        slave |-> IF irq >= 8 THEN Ended(isr.slave) ELSE isr.slave]

(* A device asks; while its request waits, another one is not noticed. *)
Raise(line) == /\ line \notin irr
               /\ irr' = irr \cup {line}
               /\ UNCHANGED <<schedulerVars, intr, isr, stack, call>>

Accept(line) == /\ intr
                /\ Requesting(line)
                /\ \A l \in Line : Requesting(l) => Level(line) <= Level(l)
                /\ irr' = irr \ {line}
                /\ isr' = InService(line)
                /\ Enter(Vector(line))
                /\ UNCHANGED <<schedulerVars, call>>

(* Of a spurious request of the slave the master does not know. *)
AcceptSpurious(line) ==
  /\ intr
  /\ isr' = IF line >= 8 THEN [isr EXCEPT !.master = @ \cup {Cascade}] ELSE isr
  /\ Enter(Vector(line))
  /\ UNCHANGED <<schedulerVars, irr, call>>

-----------------------------------------------------------------------------
(* The handlers of isr_common_c.                                           *)

Sti == /\ cpu = 0 /\ stack[0] = << >> /\ ~intr
       /\ intr' = TRUE
       /\ UNCHANGED <<schedulerVars, irr, isr, stack, call>>

(* pit_on_interrupt *)
TimerDone == /\ Top = Vector(Timer)
             /\ S!SchedulerTick
             /\ SendEoi(Timer) /\ Iretq
             /\ UNCHANGED <<irr, call>>

(* mouse_on_interrupt, a key that is no command's last one, and lines without a
   handler, which are acknowledged all the same *)
HandlerDone(line) == /\ Top = Vector(line) /\ ~InCommand
                     /\ SendEoi(line) /\ Iretq
                     /\ UNCHANGED <<schedulerVars, irr, call>>

(* The key that ends a line of the shell: its command runs inside
   keyboard_on_interrupt, and may be one of the scheduler's. *)
Command == /\ Top = Vector(Keyboard) /\ ~InCommand
           /\ \/ \E own \in BOOLEAN : S!ShellExec(own)
              \/ \E p \in S!Pid : S!ShellKill(p)
           /\ stack' = [stack EXCEPT ![cpu] = Append(Front(@), [Last(@) EXCEPT !.command = TRUE])]
           /\ UNCHANGED <<intr, irr, isr, call>>
CommandWaits == InCommand /\ S!ShellWait /\ UNCHANGED cpuVars
CommandDone == /\ InCommand /\ waitFor = 0
               /\ SendEoi(Keyboard) /\ Iretq
               /\ UNCHANGED <<schedulerVars, irr, call>>

(* process_create after sti; see Scheduler *)
BootCreate == /\ cpu = 0 /\ stack[0] = << >> /\ intr
              /\ \E own \in BOOLEAN : S!BootCreate(own)
              /\ UNCHANGED cpuVars

-----------------------------------------------------------------------------
(* Processes.                                                              *)

Running == cpu # 0 /\ stack[cpu] = << >>

(* What a process calls, directly or, to exit, by int 0x80; a call that switches
   away comes back here, or never. *)
ProcessStep == /\ Running
               /\ \/ S!ProcYield
                  \/ S!ProcExit
                  \/ \E own \in BOOLEAN : S!ProcCreate(own)
                  \/ \E p \in S!Pid : S!ProcKill(p)
               /\ UNCHANGED cpuVars

(* int 0x80 as isr_common_c reads it.  The stub has pushed the registers and
   called; RSP is read behind what the compiled function has pushed, in the
   build one register.  Of what a call does, only that it may exit or sleep
   matters here. *)
Registers == <<"rax", "rbx", "rcx", "rdx", "rsi", "rdi", "rbp", "r8", "r9">>
Frames == {<<"return">> \o Registers, <<"saved", "return">> \o Registers}
SystemCall == /\ Running
              /\ \E words \in Frames :
                   call' = [nr |-> words[1], args |-> <<words[6], words[5], words[4], words[3]>>]
              /\ UNCHANGED <<schedulerVars, intr, irr, isr, stack>>

(* sys_sleep_impl: hlt waits for an interrupt, and IF is clear, so that is all *)
Sleep == Running /\ Enter(SystemCallVector) /\ UNCHANGED <<schedulerVars, irr, isr, call>>

(* A page fault, and exception_dispatch, which ends the process.  If there is no
   other one to switch to, that returns to the instruction that faults. *)
PageFault == Running /\ Enter(PageFaultVector) /\ UNCHANGED <<schedulerVars, irr, isr, call>>
KillFaulting == Top = PageFaultVector /\ S!ProcExit /\ UNCHANGED cpuVars

(* any other exception: cli and hlt for ever *)
Panic == Running /\ \E vector \in OtherException : Enter(vector) /\ UNCHANGED <<schedulerVars, irr, isr, call>>

Handlers == \/ TimerDone \/ CommandWaits \/ CommandDone
            \/ \E line \in {Keyboard, Mouse} \cup Spurious : HandlerDone(line)

Next == \/ \E line \in Line : Raise(line) \/ Accept(line)
        \/ \E line \in Spurious : AcceptSpurious(line)
        \/ Sti \/ BootCreate \/ Command \/ Handlers
        \/ ProcessStep \/ SystemCall \/ Sleep \/ PageFault \/ KillFaulting \/ Panic

(* A device of higher priority does not ask every time that a line could be
   accepted: handlers take microseconds, the timer asks every 10 milliseconds and
   the others less often. *)
Unhurried(line) == []<>(intr /\ Requesting(line)) => []<><<Accept(line)>>_vars

(* Handlers run to their end, and the kernel gets to sti. *)
Spec == Init /\ [][Next]_vars /\ WF_vars(Sti) /\ WF_vars(Handlers)
             /\ \A line \in Line : Unhurried(line)

-----------------------------------------------------------------------------
(* The gates and the controllers make true what Scheduler takes for granted:
   no tick reaches it inside a command or while a process runs, and no command
   comes before the last one has ended. *)
ImplementsScheduler == S!Spec

(* The controllers and the kernel agree on what is being handled: a line is in
   service just as long as its handler's frame is on a stack.  One that stayed
   behind would keep out its own and all lower lines for good. *)
Handled == {line \in Line \cup Spurious : \E c \in Context : \E i \in DOMAIN stack[c] :
              stack[c][i].vector = Vector(line)}
EoiMatches == /\ isr.master = {Level(l) : l \in Handled \ {7}}
              /\ isr.slave = Handled \cap {Mouse}

(* A request is handled, unless a process has begun to run: from then on IF
   is clear. *)
Served == \A line \in Line : (line \in irr) ~> (line \notin irr \/ cpu # 0)

(* irq.c:38: stackptr[0] is RAX, [5] RDI, [4] RSI, [3] RDX. *)
CallArrives == call = NoCall \/ (call.nr = "rax" /\ call.args = <<"rdi", "rsi", "rdx", "rcx">>)
=============================================================================
