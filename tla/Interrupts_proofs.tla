-------------------------- MODULE Interrupts_proofs --------------------------
(***************************************************************************)
(* Proofs about Interrupts for any number of processes: the controllers    *)
(* agree with the stacks, and the machine takes only steps that Scheduler  *)
(* allows, whose theorems then hold of it too.                             *)
(***************************************************************************)
EXTENDS Interrupts, TLAPS

SP == INSTANCE Scheduler_proofs

-----------------------------------------------------------------------------
(* S and SP are two instances of Scheduler: their definitions are the same. *)
LEMMA SameYield ==
  ASSUME NEW rq, NEW st
  PROVE  S!Yield(rq, st) <=> SP!Yield(rq, st)
<1>1. S!PickNext(rq, st) = SP!PickNext(rq, st)
  BY SMT DEF S!PickNext, SP!PickNext, S!Min, SP!Min, S!ToSet, SP!ToSet
<1> QED
  BY <1>1, Zenon DEF S!Yield, SP!Yield, S!Stay, SP!Stay, S!SwitchTo, SP!SwitchTo, S!Pid, SP!Pid,
                     S!ContextSwitch, SP!ContextSwitch

(* The same, of process_exit. *)
LEMMA SameExit == S!Exit <=> SP!Exit
<1> DEFINE st == [state EXCEPT ![current] = "TERMINATED"]
<1>1. S!RemoveCurrent <=> SP!RemoveCurrent
  BY Zenon DEF S!RemoveCurrent, SP!RemoveCurrent, S!Queued, SP!Queued, S!Unlink, SP!Unlink,
               S!Index, SP!Index, S!ToSet, SP!ToSet, S!RemoveAt, SP!RemoveAt
<1>2. PICK rq : rq = runqueue'
  OBVIOUS
<1>3. S!Yield(rq, st) <=> SP!Yield(rq, st)
  BY SameYield
<1> QED
  BY <1>1, <1>2, <1>3, Zenon DEF S!Exit, SP!Exit

(* The same, of process_kill, of another process or of the running one. *)
LEMMA SameKill == ASSUME NEW p PROVE S!Kill(p) <=> SP!Kill(p)
<1>1. S!KillOther(p) <=> SP!KillOther(p)
  BY Zenon DEF S!KillOther, SP!KillOther, S!Queued, SP!Queued, S!Unlink, SP!Unlink,
               S!Index, SP!Index, S!ToSet, SP!ToSet, S!RemoveAt, SP!RemoveAt
<1>2. S!Found(p) <=> SP!Found(p)
  BY Zenon DEF S!Found, SP!Found, S!Queued, SP!Queued, S!ToSet, SP!ToSet
<1> QED
  BY <1>1, <1>2, SameExit, Zenon DEF S!Kill, SP!Kill

(* The same, of process_create. *)
LEMMA SameCreate == ASSUME NEW own PROVE S!Create(own) <=> SP!Create(own)
  BY Zenon DEF S!Create, SP!Create, S!Pid, SP!Pid

(* The same, of a command that waits for a process. *)
LEMMA SameWait == S!ShellWait <=> SP!ShellWait
<1>1. S!Found(waitFor) <=> SP!Found(waitFor)
  BY Zenon DEF S!Found, SP!Found, S!Queued, SP!Queued, S!ToSet, SP!ToSet
<1>2. S!Yield(runqueue, state) <=> SP!Yield(runqueue, state)
  BY SameYield
<1> QED
  BY <1>1, <1>2, Zenon DEF S!ShellWait, SP!ShellWait, S!schedVars, SP!schedVars

(* The two instances have the same steps. *)
LEMMA SameNext == [S!Next]_S!vars <=> [SP!Next]_SP!vars
<1>1. S!Tick <=> SP!Tick
  BY Zenon DEF S!Tick, SP!Tick, S!ShellIdle, SP!ShellIdle, S!SchedulerTick, SP!SchedulerTick
<1>2. S!ProcYield <=> SP!ProcYield
  BY SameYield, Zenon DEF S!ProcYield, SP!ProcYield
<1>3. S!ProcExit <=> SP!ProcExit
  BY SameExit, Zenon DEF S!ProcExit, SP!ProcExit
<1>4. ASSUME NEW own
      PROVE  S!BootCreate(own) \/ S!ShellExec(own) \/ S!ProcCreate(own)
               <=> SP!BootCreate(own) \/ SP!ShellExec(own) \/ SP!ProcCreate(own)
  BY SameCreate, Zenon DEF S!BootCreate, SP!BootCreate, S!ShellExec, SP!ShellExec, S!ProcCreate,
                           SP!ProcCreate, S!ShellIdle, SP!ShellIdle
<1>5. ASSUME NEW p
      PROVE  S!ShellKill(p) \/ S!ProcKill(p) <=> SP!ShellKill(p) \/ SP!ProcKill(p)
  BY SameKill, Zenon DEF S!ShellKill, SP!ShellKill, S!ProcKill, SP!ProcKill, S!ShellIdle,
                         SP!ShellIdle
<1>6. S!Pid = SP!Pid
  BY Zenon DEF S!Pid, SP!Pid
<1>7. S!Next <=> SP!Next
  BY <1>1, <1>2, <1>3, <1>4, <1>5, <1>6, SameWait, Zenon DEF S!Next, SP!Next
<1> QED
  BY <1>7, Zenon DEF S!vars, SP!vars, S!schedVars, SP!schedVars
-----------------------------------------------------------------------------
(* The inductive invariant.  Only the kernel's context is ever interrupted, and
   only outside of everything: its stack has one frame at most.  While a process
   runs, or a command waits, that frame is the keyboard's, in a command. *)
KernelFrame(line, command) == [vector |-> Vector(line), enabled |-> TRUE, command |-> command]
Only(line) == [master |-> {Level(line)} \ {7}, slave |-> {line} \cap {Mouse}]
Free == stack[0] = << >> /\ isr = [master |-> {}, slave |-> {}]
Handling(line, command) == stack[0] = <<KernelFrame(line, command)>> /\ isr = Only(line)

CpuTypes == /\ intr \in BOOLEAN /\ irr \subseteq Line /\ call \in Call
            /\ stack \in [Context -> Seq(Frame)]
Kernel == Free \/ \E line \in Line \cup Spurious, command \in BOOLEAN : Handling(line, command)
Masked == /\ intr => cpu = 0 /\ Free
          /\ cpu # 0 \/ waitFor # 0 => Handling(Keyboard, TRUE)
ProcessFrames == \A c \in Context \ {0} : \A i \in DOMAIN stack[c] :
                   stack[c][i].vector \notin 32 .. 47 /\ ~stack[c][i].enabled
CpuInv == CpuTypes /\ Kernel /\ Masked /\ ProcessFrames

IInv == SP!IInv /\ CpuInv

(* The kernel starts with empty stacks and nothing in service. *)
LEMMA InitIInv == Init => IInv
<1> SUFFICES ASSUME Init PROVE IInv
  OBVIOUS
<1>1. SP!Init
  BY Zenon DEF Init, S!Init, SP!Init, S!Pid, SP!Pid, S!Unborn, SP!Unborn
<1>2. SP!IInv
  BY <1>1, MaxPidAssumption, TickQuantumAssumption, SP!InitIInv
<1>3. cpu = 0 /\ waitFor = 0
  BY DEF Init, S!Init
<1>4. CpuTypes /\ Free /\ ~intr
  BY MaxPidAssumption DEF Init, CpuTypes, Free, NoCall, Call, Word, Context
<1>5. ProcessFrames
  BY DEF Init, ProcessFrames
<1> QED
  BY <1>2, <1>3, <1>4, <1>5 DEF IInv, CpuInv, Kernel, Masked

(* A nonspecific end of interrupt, when one line is in service or none. *)
LEMMA EndedOne == ASSUME NEW x \in Nat PROVE Ended({x}) = {} /\ Ended({}) = {}
<1>1. \A y \in {x} : x <= y
  OBVIOUS
<1>2. Min({x}) \in {x}
  BY <1>1 DEF Min
<1> QED
  BY <1>2 DEF Ended

(* A stack of one frame, and the frame's fields. *)
LEMMA OneFrame ==
  ASSUME NEW f
  PROVE  /\ Front(<<f>>) = << >> /\ Last(<<f>>) = f /\ Append(<< >>, f) = <<f>>
         /\ f \in Frame => <<f>> \in Seq(Frame)
  BY DEF Front, Last

(* What the kernel's frame says of the line and of the command. *)
LEMMA FrameFields ==
  ASSUME NEW line, NEW command
  PROVE  KernelFrame(line, command).vector = Vector(line)
         /\ KernelFrame(line, command).command = command
  BY DEF KernelFrame

(* A handler that starts a command only marks its frame. *)
LEMMA FrameEntersCommand ==
  ASSUME NEW v, NEW t, NEW u
  PROVE  [[vector |-> v, enabled |-> t, command |-> u] EXCEPT !.command = t]
           = [vector |-> v, enabled |-> t, command |-> t]
  OBVIOUS

(* What is on top of the running context's stack tells who is running. *)
LEMMA WhoRuns ==
  ASSUME IInv
  PROVE  /\ cpu \in Context /\ 0 \in Context
         /\ \A line \in Line \cup Spurious : Top = Vector(line) =>
              /\ cpu = 0 /\ ~intr
              /\ \E command \in BOOLEAN : Handling(line, command)
         /\ cpu # 0 => ~intr
<1>1. cpu \in Context /\ 0 \in Context /\ (cpu # 0 => ~intr)
  BY MaxPidAssumption DEF IInv, CpuInv, Masked, SP!IInv, SP!TypeOK, SP!PidOrNull, Context
<1>2. ASSUME NEW line \in Line \cup Spurious, Top = Vector(line)
      PROVE  cpu = 0 /\ ~intr /\ \E command \in BOOLEAN : Handling(line, command)
  <2>1. Vector(line) \in 32 .. 47 /\ Vector(line) # NoFrame
    BY DEF Vector, Line, Spurious, Timer, Keyboard, Mouse, NoFrame
  <2>2. stack[cpu] # << >> /\ Last(stack[cpu]).vector = Vector(line)
    BY <1>2, <2>1 DEF Top
  <2>3. stack[cpu] \in Seq(Frame)
    BY <1>1 DEF IInv, CpuInv, CpuTypes
  <2>4. Len(stack[cpu]) \in DOMAIN stack[cpu] /\ Last(stack[cpu]) = stack[cpu][Len(stack[cpu])]
    BY <2>2, <2>3 DEF Last
  <2>5. cpu = 0
    BY <1>1, <2>1, <2>2, <2>4 DEF IInv, CpuInv, ProcessFrames
  <2>6. ~Free /\ ~intr
    BY <2>2, <2>5 DEF IInv, CpuInv, Masked, Free
  <2>7. PICK l \in Line \cup Spurious, command \in BOOLEAN : Handling(l, command)
    BY <2>6 DEF IInv, CpuInv, Kernel
  <2>8. Vector(l) = Vector(line)
    BY <2>2, <2>4, <2>5, <2>7 DEF Handling, KernelFrame
  <2>9. l = line
    BY <2>8 DEF Vector, Line, Spurious, Timer, Keyboard, Mouse
  <2> QED
    BY <2>5, <2>6, <2>7, <2>9
<1> QED
  BY <1>1, <1>2

(* The end of a handler of the kernel's context. *)
LEMMA HandlerEnds ==
  ASSUME IInv, NEW line \in Line \cup Spurious, NEW command \in BOOLEAN, cpu = 0,
         Handling(line, command), SendEoi(line), Iretq, UNCHANGED <<irr, call, cpu, waitFor>>,
         waitFor = 0
  PROVE  CpuInv'
<1>1. stack' = [stack EXCEPT ![0] = << >>] /\ intr' = TRUE
  <2>1. PICK f : f = KernelFrame(line, command)
    OBVIOUS
  <2>2. stack[cpu] = <<f>> /\ f.enabled = TRUE
    BY <2>1 DEF Handling, KernelFrame
  <2>3. Front(stack[cpu]) = << >> /\ Last(stack[cpu]) = f
    BY <2>2, OneFrame
  <2> QED
    BY <2>2, <2>3 DEF Iretq
<1>2. 0 \in Context
  BY WhoRuns
<1>3. stack \in [Context -> Seq(Frame)] /\ ProcessFrames
  BY DEF IInv, CpuInv, CpuTypes
<1>4. isr' = [master |-> {}, slave |-> {}]
  <2>1. isr.master = {Level(line)} \ {7} /\ isr.slave = {line} \cap {Mouse}
    BY DEF Handling, Only
  <2>2. Level(line) \in Nat /\ Mouse \in Nat /\ (line < 8 => {line} \cap {Mouse} = {})
    BY DEF Level, Line, Spurious, Timer, Keyboard, Cascade, Mouse
  <2>3. isr.master \in {{}, {Level(line)}} /\ isr.slave \in {{}, {Mouse}}
    BY <2>1
  <2>4. Ended(isr.master) = {} /\ Ended(isr.slave) = {}
    BY <2>2, <2>3, EndedOne
  <2>5. line \in Nat
    BY DEF Line, Spurious, Timer, Keyboard, Mouse
  <2> QED
    BY <2>1, <2>2, <2>4, <2>5 DEF SendEoi
<1>5. CpuTypes'
  BY <1>1, <1>2, <1>3 DEF IInv, CpuInv, CpuTypes
<1>6. Free'
  BY <1>1, <1>2, <1>3, <1>4 DEF Free
<1>7. ProcessFrames'
  BY <1>1, <1>3 DEF ProcessFrames
<1> QED
  BY <1>1, <1>5, <1>6, <1>7 DEF CpuInv, Kernel, Masked

(* The gate of an interrupt, which only the kernel's context meets. *)
LEMMA GateOfLine ==
  ASSUME IInv, NEW line \in Line \cup Spurious, intr, Enter(Vector(line)), isr' = Only(line),
         irr' \subseteq Line, UNCHANGED <<call, cpu, waitFor>>
  PROVE  CpuInv'
<1>1. cpu = 0 /\ Free /\ waitFor = 0
  <2>1. cpu = 0 /\ Free
    BY DEF IInv, CpuInv, Masked
  <2> QED
    BY <2>1 DEF IInv, CpuInv, Masked, Free, Handling
<1>2. 0 \in Context /\ stack \in [Context -> Seq(Frame)] /\ ProcessFrames
  BY WhoRuns DEF IInv, CpuInv, CpuTypes
<1>3. stack' = [stack EXCEPT ![0] = <<KernelFrame(line, FALSE)>>] /\ intr' = FALSE
  BY <1>1, <1>2 DEF Enter, Push, Free, KernelFrame, IInv, CpuInv, CpuTypes
<1>4. KernelFrame(line, FALSE) \in Frame
  BY DEF KernelFrame, Frame, Vector, Line, Spurious, Timer, Keyboard, Mouse
<1>5. CpuTypes'
  <2>1. <<KernelFrame(line, FALSE)>> \in Seq(Frame)
    BY <1>4, OneFrame
  <2>2. stack' \in [Context -> Seq(Frame)]
    BY <1>2, <1>3, <2>1
  <2>3. call' \in Call
    BY DEF IInv, CpuInv, CpuTypes
  <2> QED
    BY <1>3, <2>2, <2>3 DEF CpuTypes
<1>6. Handling(line, FALSE)'
  BY <1>2, <1>3 DEF Handling
<1>7. ProcessFrames'
  BY <1>2, <1>3 DEF ProcessFrames
<1> QED
  BY <1>1, <1>3, <1>5, <1>6, <1>7 DEF CpuInv, Kernel, Masked

(* The gate of an exception or a call, which only processes meet. *)
LEMMA GateOfProcess ==
  ASSUME IInv, Running, NEW vector \in 0 .. 255, vector \notin 32 .. 47, Enter(vector),
         UNCHANGED <<schedulerVars, irr, isr, call>>
  PROVE  CpuInv'
<1>1. /\ cpu \in Context \ {0} /\ ~intr /\ stack[cpu] = << >>
      /\ UNCHANGED <<cpu, waitFor>>
  BY WhoRuns DEF Running, schedulerVars
<1>2. stack \in [Context -> Seq(Frame)] /\ ProcessFrames /\ intr = FALSE
  BY <1>1 DEF IInv, CpuInv, CpuTypes
<1> DEFINE f == [vector |-> vector, enabled |-> FALSE, command |-> FALSE]
<1>3. stack' = [stack EXCEPT ![cpu] = <<f>>] /\ intr' = FALSE
  <2>1. Append(<< >>, f) = <<f>>
    BY OneFrame
  <2>2. stack' = [stack EXCEPT ![cpu] = Append(stack[cpu], [vector |-> vector, enabled |-> intr, command |-> FALSE])]
    BY DEF Enter, Push
  <2>3. intr' = FALSE
    BY DEF Enter
  <2>4. Append(stack[cpu], [vector |-> vector, enabled |-> intr, command |-> FALSE]) = <<f>>
    BY <1>1, <1>2, <2>1
  <2> QED BY <2>2, <2>3, <2>4
<1>4. f \in Frame
  BY DEF Frame
<1>5. f.vector \notin 32 .. 47 /\ ~f.enabled
  OBVIOUS
<1> HIDE DEF f
<1>6. CpuTypes'
  <2>1. <<f>> \in Seq(Frame)
    BY <1>4, OneFrame
  <2>2. stack' \in [Context -> Seq(Frame)]
    BY <1>1, <1>2, <1>3, <2>1
  <2>3. call' \in Call /\ irr' \subseteq Line
    BY DEF IInv, CpuInv, CpuTypes
  <2> QED
    BY <1>3, <2>2, <2>3 DEF CpuTypes
<1>7. stack'[0] = stack[0]
  BY <1>1, <1>2, <1>3 DEF Context
<1>8. Handling(Keyboard, TRUE)'
  BY <1>1, <1>7 DEF IInv, CpuInv, Masked, Handling
<1>9. ProcessFrames'
  BY <1>1, <1>2, <1>3, <1>5 DEF ProcessFrames
<1> QED
  BY <1>3, <1>6, <1>8, <1>9 DEF CpuInv, Kernel, Masked, Line

(* The scheduler may do what it likes while a command is inside the keyboard's
   handler, as long as the machine stays as it is. *)
LEMMA Untouched ==
  ASSUME CpuInv, UNCHANGED <<intr, isr, stack>>, irr' \subseteq Line, call' \in Call,
         UNCHANGED <<cpu, waitFor>> \/ (Handling(Keyboard, TRUE) /\ ~intr)
  PROVE  CpuInv'
<1>1. CpuTypes'
  BY DEF CpuInv, CpuTypes
<1>2. Kernel'
  BY DEF CpuInv, Kernel, Free, Handling
<1>3. Masked'
  BY DEF CpuInv, Masked, Free, Handling
<1>4. ProcessFrames'
  BY DEF CpuInv, ProcessFrames
<1> QED
  BY <1>1, <1>2, <1>3, <1>4 DEF CpuInv

(* Devices, the controllers and the kernel outside of its handlers. *)
LEMMA KernelStep ==
  ASSUME IInv,
         \/ \E line \in Line : Raise(line) \/ Accept(line)
         \/ \E line \in Spurious : AcceptSpurious(line)
         \/ Sti \/ BootCreate
  PROVE  CpuInv' /\ [S!Next]_S!vars
<1>0. CpuInv /\ irr \subseteq Line /\ call \in Call
  BY DEF IInv, CpuInv, CpuTypes
<1>1. ASSUME UNCHANGED schedulerVars PROVE UNCHANGED S!vars /\ UNCHANGED <<cpu, waitFor>>
  BY <1>1 DEF schedulerVars, S!vars, S!schedVars
<1>2. ASSUME NEW line \in Line, Raise(line)
      PROVE  CpuInv' /\ UNCHANGED S!vars
  BY <1>0, <1>1, <1>2, Untouched DEF Raise
<1>3. ASSUME NEW line \in Line, Accept(line)
      PROVE  CpuInv' /\ UNCHANGED S!vars
  <2>1. isr = [master |-> {}, slave |-> {}]
    BY <1>0, <1>3 DEF Accept, CpuInv, Masked, Free
  <2>2. isr' = Only(line)
    <3>1. /\ {} \cup {Level(line)} = {Level(line)} \ {7}
          /\ {} \cup ({line} \ (0 .. 7)) = {line} \cap {Mouse}
      <4>1. line \in {0, 1, 12} /\ Level(line) \in {0, 1, 2} /\ Mouse = 12
        BY DEF Level, Line, Timer, Keyboard, Cascade, Mouse
      <4>2. {} \cup {Level(line)} = {Level(line)} \ {7}
        BY <4>1
      <4>3. line \notin 0 .. 7 <=> line = Mouse
        BY <4>1
      <4> HIDE DEF Mouse
      <4>4. {} \cup ({line} \ (0 .. 7)) = {line} \cap {Mouse}
        BY <4>3
      <4> QED
        BY <4>2, <4>4
    <3> QED
      BY <1>3, <2>1, <3>1 DEF Accept, InService, Only
  <2> QED
    BY <1>0, <1>1, <1>3, <2>2, GateOfLine DEF Accept
<1>4. ASSUME NEW line \in Spurious, AcceptSpurious(line)
      PROVE  CpuInv' /\ UNCHANGED S!vars
  <2>1. isr = [master |-> {}, slave |-> {}]
    BY <1>0, <1>4 DEF AcceptSpurious, CpuInv, Masked, Free
  <2>2. isr' = Only(line)
    BY <1>4, <2>1 DEF AcceptSpurious, Only, Level, Spurious, Cascade, Mouse
  <2> QED
    BY <1>0, <1>1, <1>4, <2>2, GateOfLine DEF AcceptSpurious
<1>5. CASE Sti
  <2>1. Free
    BY <1>0, <1>5 DEF Sti, CpuInv, Kernel, Handling
  <2>2. waitFor = 0
    BY <1>0, <2>1 DEF CpuInv, Masked, Free, Handling
  <2> QED
    BY <1>0, <1>1, <1>5, <2>1, <2>2
       DEF Sti, CpuInv, CpuTypes, Kernel, Masked, ProcessFrames, Free
<1>6. CASE BootCreate
  <2>1. PICK own \in BOOLEAN : S!BootCreate(own)
    BY <1>6 DEF BootCreate
  <2>2. UNCHANGED <<cpu, waitFor>>
    BY <2>1 DEF S!BootCreate, S!Create
  <2>3. CpuInv'
    BY <1>0, <1>6, <2>2, Untouched DEF BootCreate, cpuVars
  <2> QED
    BY <2>1, <2>3 DEF S!Next
<1> QED
  BY <1>2, <1>3, <1>4, <1>5, <1>6

(* The handlers of the lines, and the commands inside the keyboard's. *)
LEMMA HandlerStep ==
  ASSUME IInv, Command \/ Handlers
  PROVE  CpuInv' /\ [S!Next]_S!vars
<1>0. CpuInv /\ irr \subseteq Line /\ call \in Call
  BY DEF IInv, CpuInv, CpuTypes
<1>1. Timer \in Line \cup Spurious /\ Keyboard \in Line \cup Spurious /\ Timer # Keyboard
  BY DEF Line, Timer, Keyboard
(* no other handler's frame is there while a process runs or a command waits *)
<1>2. ASSUME NEW line \in Line \cup Spurious, Top = Vector(line), line # Keyboard \/ ~InCommand
      PROVE  /\ cpu = 0 /\ waitFor = 0 /\ ~intr
             /\ \E command \in BOOLEAN : Handling(line, command)
             /\ line = Keyboard => Handling(Keyboard, FALSE)
  <2>1. /\ cpu = 0 /\ ~intr
        /\ \E command \in BOOLEAN : Handling(line, command)
    BY <1>2, WhoRuns
  <2>2. PICK command \in BOOLEAN : Handling(line, command)
    BY <2>1
  <2>3. PICK f : f = KernelFrame(line, command)
    OBVIOUS
  <2>4. stack[cpu] = <<f>> /\ Last(stack[cpu]) = f
    BY <2>1, <2>2, <2>3, OneFrame DEF Handling
  <2>5. f.vector = Vector(line) /\ f.command = command
    BY <2>3, FrameFields
  <2>6. ASSUME line = Keyboard PROVE command = FALSE
    BY <1>2, <2>4, <2>5, <2>6 DEF InCommand
  <2>7. ~Handling(Keyboard, TRUE)
    <3>1. ASSUME Handling(Keyboard, TRUE) PROVE FALSE
      <4>1. PICK g : g = KernelFrame(Keyboard, TRUE)
        OBVIOUS
      <4>2. g.vector = Vector(Keyboard) /\ g.command = TRUE
        BY <4>1, FrameFields
      <4>3. f = g
        BY <2>1, <2>4, <3>1, <4>1, OneFrame DEF Handling
      <4>4. line = Keyboard
        BY <2>5, <4>2, <4>3 DEF Vector, Line, Spurious, Timer, Keyboard, Mouse
      <4> QED
        BY <2>5, <2>6, <4>2, <4>3, <4>4
    <3> QED
      BY <3>1
  <2>8. waitFor = 0
    BY <1>0, <2>7 DEF CpuInv, Masked
  <2> QED
    BY <2>1, <2>2, <2>6, <2>8
<1>3. CASE TimerDone
  <2>1. Top = Vector(Timer) /\ S!SchedulerTick /\ SendEoi(Timer) /\ Iretq /\ UNCHANGED <<irr, call>>
    BY <1>3 DEF TimerDone
  <2>2. cpu = 0 /\ waitFor = 0 /\ \E command \in BOOLEAN : Handling(Timer, command)
    BY <1>1, <1>2, <2>1
  <2>3. S!Next
    BY <2>1, <2>2 DEF S!Next, S!Tick, S!ShellIdle
  <2>4. UNCHANGED <<cpu, waitFor>>
    BY <2>1 DEF S!SchedulerTick
  <2> QED
    BY <1>1, <2>1, <2>2, <2>3, <2>4, HandlerEnds
<1>4. ASSUME NEW line \in {Keyboard, Mouse} \cup Spurious, HandlerDone(line)
      PROVE  CpuInv' /\ UNCHANGED S!vars
  <2>1. line \in Line \cup Spurious
    BY DEF Line
  <2>2. /\ Top = Vector(line) /\ ~InCommand /\ SendEoi(line) /\ Iretq
        /\ UNCHANGED schedulerVars /\ UNCHANGED <<irr, call>>
    BY <1>4 DEF HandlerDone
  <2>3. UNCHANGED S!vars /\ UNCHANGED <<cpu, waitFor>>
    BY <2>2 DEF schedulerVars, S!vars, S!schedVars
  <2>4. cpu = 0 /\ waitFor = 0 /\ \E command \in BOOLEAN : Handling(line, command)
    BY <1>2, <2>1, <2>2
  <2> QED
    BY <2>1, <2>2, <2>3, <2>4, HandlerEnds
<1>5. CASE Command
  <2>1. Top = Vector(Keyboard) /\ ~InCommand /\ UNCHANGED <<intr, irr, isr, call>>
    BY <1>5 DEF Command
  <2>2. cpu = 0 /\ ~intr /\ Handling(Keyboard, FALSE)
    BY <1>1, <1>2, <2>1
  <2>3. S!Next
    BY <1>5 DEF Command, S!Next
  <2>4. PICK f, g : f = KernelFrame(Keyboard, FALSE) /\ g = KernelFrame(Keyboard, TRUE)
    OBVIOUS
  <2>5. stack[0] = <<f>> /\ Front(stack[0]) = << >> /\ Last(stack[0]) = f /\ Append(<< >>, g) = <<g>>
    BY <2>2, <2>4, OneFrame DEF Handling
  <2>6. [f EXCEPT !.command = TRUE] = g
    <3>1. [KernelFrame(Keyboard, FALSE) EXCEPT !.command = TRUE] = KernelFrame(Keyboard, TRUE)
      BY FrameEntersCommand DEF KernelFrame
    <3> QED
      BY <2>4, <3>1
  <2>7. stack' = [stack EXCEPT ![0] = <<g>>]
    BY <1>5, <2>2, <2>5, <2>6, Zenon DEF Command
  <2>8. <<g>> \in Seq(Frame)
    BY <2>4, OneFrame DEF KernelFrame, Frame, Vector, Keyboard
  <2>9. 0 \in Context /\ stack \in [Context -> Seq(Frame)] /\ ProcessFrames
    BY <1>0, WhoRuns DEF CpuInv, CpuTypes
  <2>10. stack' \in [Context -> Seq(Frame)]
    BY <2>7, <2>8, <2>9
  <2>11. Handling(Keyboard, TRUE)'
    BY <2>1, <2>2, <2>4, <2>7, <2>9 DEF Handling
  <2>12. ProcessFrames'
    BY <2>7, <2>9 DEF ProcessFrames
  <2>13. CpuTypes'
    BY <1>0, <2>1, <2>10 DEF CpuInv, CpuTypes
  <2> QED
    BY <2>1, <2>2, <2>3, <2>11, <2>12, <2>13 DEF CpuInv, Kernel, Masked, Line
(* inside a command *)
<1>6. ASSUME InCommand PROVE cpu = 0 /\ ~intr /\ Handling(Keyboard, TRUE)
  <2>1. Top = Vector(Keyboard) /\ Last(stack[cpu]).command
    BY <1>6 DEF InCommand
  <2>2. cpu = 0 /\ ~intr
    BY <1>1, <2>1, WhoRuns
  <2>3. PICK command \in BOOLEAN : Handling(Keyboard, command)
    BY <1>1, <2>1, WhoRuns
  <2>4. PICK f : f = KernelFrame(Keyboard, command)
    OBVIOUS
  <2>5. Last(stack[cpu]) = f
    BY <2>2, <2>3, <2>4, OneFrame DEF Handling
  <2>6. f.command = command
    BY <2>4, FrameFields
  <2>7. command = TRUE
    BY <2>1, <2>5, <2>6
  <2> QED
    BY <2>2, <2>3, <2>7
<1>7. CASE CommandWaits
  <2>1. CpuInv'
    BY <1>0, <1>6, <1>7, Untouched DEF CommandWaits, cpuVars
  <2> QED
    BY <1>7, <2>1 DEF CommandWaits, S!Next
<1>8. CASE CommandDone
  <2>1. /\ InCommand /\ waitFor = 0 /\ SendEoi(Keyboard) /\ Iretq
        /\ UNCHANGED schedulerVars /\ UNCHANGED <<irr, call>>
    BY <1>8 DEF CommandDone
  <2>2. UNCHANGED S!vars /\ UNCHANGED <<cpu, waitFor>>
    BY <2>1 DEF schedulerVars, S!vars, S!schedVars
  <2> QED
    BY <1>1, <1>6, <2>1, <2>2, HandlerEnds
<1> QED
  BY <1>3, <1>4, <1>5, <1>7, <1>8 DEF Handlers

(* Whatever the kernel takes for the saved registers is words of the stack. *)
LEMMA WordsRead ==
  ASSUME NEW words \in Frames
  PROVE  words \in Seq(Word) /\ Len(words) >= 6
<1>1. Registers \in Seq(Word) /\ Len(Registers) = 9
  BY DEF Registers, Word
<1>2. <<"return">> \in Seq(Word) /\ Len(<<"return">>) = 1
  BY DEF Word
<1>3. <<"saved", "return">> \in Seq(Word) /\ Len(<<"saved", "return">>) = 2
  BY DEF Word
<1>4. ASSUME NEW s \in Seq(Word), NEW t \in Seq(Word)
      PROVE  s \o t \in Seq(Word) /\ Len(s \o t) = Len(s) + Len(t)
  OBVIOUS
<1>5. CASE words = <<"return">> \o Registers
  BY <1>1, <1>2, <1>4, <1>5
<1>6. CASE words = <<"saved", "return">> \o Registers
  BY <1>1, <1>3, <1>4, <1>6
<1> QED
  BY <1>5, <1>6 DEF Frames

(* Processes, their calls and their exceptions: interrupts are masked. *)
LEMMA ProcessesStep ==
  ASSUME IInv, ProcessStep \/ SystemCall \/ Sleep \/ PageFault \/ KillFaulting \/ Panic
  PROVE  CpuInv' /\ [S!Next]_S!vars
<1>0. CpuInv /\ irr \subseteq Line /\ call \in Call
  BY DEF IInv, CpuInv, CpuTypes
<1>1. ASSUME UNCHANGED schedulerVars PROVE UNCHANGED S!vars /\ UNCHANGED <<cpu, waitFor>>
  BY <1>1 DEF schedulerVars, S!vars, S!schedVars
<1>2. cpu # 0 => ~intr /\ Handling(Keyboard, TRUE)
  BY <1>0, WhoRuns DEF CpuInv, Masked
<1>3. CASE ProcessStep
  <2>1. CpuInv'
    BY <1>0, <1>2, <1>3, Untouched DEF ProcessStep, Running, cpuVars
  <2> QED
    BY <1>3, <2>1 DEF ProcessStep, S!Next
<1>4. CASE SystemCall
  <2>1. call' \in Call
    <3>1. PICK words \in Frames :
            call' = [nr |-> words[1], args |-> <<words[6], words[5], words[4], words[3]>>]
      BY <1>4 DEF SystemCall
    <3>2. words \in Seq(Word) /\ Len(words) >= 6
      BY <3>1, WordsRead
    <3>3. words[1] \in Word /\ words[3] \in Word /\ words[4] \in Word /\ words[5] \in Word
          /\ words[6] \in Word
      BY <3>2
    <3> QED
      BY <3>1, <3>3 DEF Call
  <2> QED
    BY <1>0, <1>1, <1>4, <2>1, Untouched DEF SystemCall
<1>5. ASSUME NEW vector \in OtherException \cup {PageFaultVector, SystemCallVector},
             Running, Enter(vector), UNCHANGED <<schedulerVars, irr, isr, call>>
      PROVE  CpuInv' /\ UNCHANGED S!vars
  <2>1. vector \in 0 .. 255 /\ vector \notin 32 .. 47
    BY DEF OtherException, PageFaultVector, SystemCallVector
  <2> QED
    BY <1>1, <1>5, <2>1, GateOfProcess
<1>6. CASE Sleep \/ PageFault \/ Panic
  BY <1>5, <1>6 DEF Sleep, PageFault, Panic
<1>7. CASE KillFaulting
  <2>1. S!ProcExit /\ UNCHANGED <<intr, irr, isr, stack, call>>
    BY <1>7 DEF KillFaulting, cpuVars
  <2>2. cpu # 0
    BY <2>1 DEF S!ProcExit
  <2>3. CpuInv'
    BY <1>0, <1>2, <2>1, <2>2, Untouched
  <2> QED
    BY <2>1, <2>3 DEF S!Next
<1> QED
  BY <1>3, <1>4, <1>6, <1>7

(* A step of the machine keeps the invariant and is one of Scheduler's, or
   nothing that Scheduler sees. *)
LEMMA NextStep == IInv /\ [Next]_vars => IInv' /\ [S!Next]_S!vars
<1> SUFFICES ASSUME IInv, [Next]_vars PROVE IInv' /\ [S!Next]_S!vars
  OBVIOUS
<1>1. CpuInv' /\ [S!Next]_S!vars
  <2>1. CASE UNCHANGED vars
    <3>1. UNCHANGED <<intr, irr, isr, stack, call, cpu, waitFor>> /\ UNCHANGED S!vars
      BY <2>1 DEF vars, cpuVars, schedulerVars, S!vars, S!schedVars
    <3>2. CpuInv /\ irr \subseteq Line /\ call \in Call
      BY DEF IInv, CpuInv, CpuTypes
    <3> QED
      BY <3>1, <3>2, Untouched
  <2> QED
    BY <2>1, KernelStep, HandlerStep, ProcessesStep DEF Next
<1>2. SP!IInv'
  <2>1. [SP!Next]_SP!vars
    BY <1>1, SameNext
  <2> QED
    BY <2>1, MaxPidAssumption, TickQuantumAssumption, SP!NextStep DEF IInv
<1> QED
  BY <1>1, <1>2 DEF IInv

(* The invariant holds in every reachable state. *)
THEOREM Invariance == Spec => []IInv
<1>1. IInv /\ [Next]_vars => IInv'
  BY NextStep
<1> QED
  BY <1>1, InitIInv, PTL DEF Spec

(* The gates, the controllers and the handlers give the scheduler ticks and
   commands only where its own model has them (pit.c:32, idt.c:64). *)
THEOREM Refinement == Spec => ImplementsScheduler
<1>1. Init => S!Init
  BY DEF Init
<1>2. IInv /\ [Next]_vars => [S!Next]_S!vars
  BY NextStep
<1> QED
  BY <1>1, <1>2, Invariance, PTL DEF Spec, ImplementsScheduler, S!Spec

(* A line is in service in a controller as long as its handler is on a stack, and
   no longer (pic.c:37, irq.c:32). *)
THEOREM EoisMatch == Spec => []EoiMatches
<1>1. IInv => EoiMatches
  <2> SUFFICES ASSUME IInv PROVE EoiMatches
    OBVIOUS
  <2>1. ASSUME NEW line \in Line \cup Spurious, NEW c \in Context \ {0}, NEW i \in DOMAIN stack[c]
        PROVE  stack[c][i].vector # Vector(line)
    <3>1. Vector(line) \in 32 .. 47
      BY DEF Vector, Line, Spurious, Timer, Keyboard, Mouse
    <3> QED
      BY <3>1 DEF IInv, CpuInv, ProcessFrames
  <2>2. Handled = {line \in Line \cup Spurious : \E i \in DOMAIN stack[0] : stack[0][i].vector = Vector(line)}
    BY <2>1, WhoRuns DEF Handled
  <2>3. CASE Free
    <3>1. Handled = {}
      BY <2>2, <2>3 DEF Free
    <3> QED
      BY <2>3, <3>1 DEF Free, EoiMatches
  <2>4. ASSUME NEW line \in Line \cup Spurious, NEW command \in BOOLEAN, Handling(line, command)
        PROVE  EoiMatches
    <3>1. PICK f : f = KernelFrame(line, command)
      OBVIOUS
    <3>2. stack[0] = <<f>> /\ f.vector = Vector(line)
      BY <2>4, <3>1, FrameFields DEF Handling
    <3>3. Handled = {l \in Line \cup Spurious : Vector(l) = Vector(line)}
      BY <2>2, <3>2
    <3>4. Handled = {line}
      BY <3>3 DEF Vector, Line, Spurious, Timer, Keyboard, Mouse
    <3>5. isr.master = {Level(line)} \ {7} /\ isr.slave = {line} \cap {Mouse}
      BY <2>4 DEF Handling, Only
    <3>6. {Level(l) : l \in {line} \ {7}} = {Level(line)} \ {7}
      BY DEF Level, Line, Spurious, Timer, Keyboard, Mouse, Cascade
    <3> QED
      BY <3>4, <3>5, <3>6 DEF EoiMatches
  <2> QED
    BY <2>3, <2>4 DEF IInv, CpuInv, Kernel
<1> QED
  BY <1>1, Invariance, PTL
(* The flag, the controllers and every stack of frames stay well typed, and so does
   the scheduler inside them, however many processes there are (irq.c:11). *)
THEOREM TypeCorrect == Spec => []TypeOK
<1>1. IInv => TypeOK
  <2> SUFFICES ASSUME IInv PROVE TypeOK
    OBVIOUS
  <2>1. S!TypeOK
    <3>1. SP!TypeOK
      BY DEF IInv, SP!IInv
    <3> QED
      BY <3>1, Zenon DEF S!TypeOK, SP!TypeOK, S!Pid, SP!Pid, S!PidOrNull, SP!PidOrNull, S!Unborn, SP!Unborn
  <2>2. isr \in [master : SUBSET {Timer, Keyboard, Cascade}, slave : SUBSET {Mouse}]
    <3>1. CASE Free
      BY <3>1 DEF Free
    <3>2. ASSUME NEW line \in Line \cup Spurious, isr = Only(line)
          PROVE  isr \in [master : SUBSET {Timer, Keyboard, Cascade}, slave : SUBSET {Mouse}]
      BY <3>2 DEF Only, Level, Line, Spurious, Timer, Keyboard, Mouse, Cascade
    <3> QED
      BY <3>1, <3>2 DEF IInv, CpuInv, Kernel, Handling
  <2> QED
    BY <2>1, <2>2 DEF IInv, CpuInv, CpuTypes, TypeOK
<1> QED
  BY <1>1, Invariance, PTL

=============================================================================
