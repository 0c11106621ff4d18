------------------------------ MODULE Scheduler ------------------------------
(***************************************************************************)
(* kernel/scheduler/scheduler.c and kernel/process/process.c: the run      *)
(* queue, the zombie list, the cooperative switch between the kernel's     *)
(* context and the contexts of processes, and the shell commands (exec,    *)
(* kill) that call them.                                                   *)
(*                                                                         *)
(* A process is its pid; 0 is the NULL process_t pointer and, for `cpu',   *)
(* the kernel's own context.  Both lists are linked through process_t.next *)
(* and are sequences of pids here.  Shell commands run inside the keyboard *)
(* interrupt, so everything from exec's first yield on runs with           *)
(* interrupts masked: PIT ticks reach the scheduler only before that.      *)
(* Processes are cooperative; what they call is process.h.                 *)
(***************************************************************************)
EXTENDS Integers, Sequences, SequencesExt

CONSTANTS MaxPid,       \* bound on processes ever created
          TickQuantum   \* ticks between two requests to reschedule, 50 in the source

ASSUME MaxPidAssumption == MaxPid \in Nat
ASSUME TickQuantumAssumption == TickQuantum \in Nat \ {0}

VARIABLES
  runqueue, zombies,         \* the lists behind runqueue_head and zombie_head
  current,                   \* the process_t pointer, 0 when NULL
  tick_count, need_resched,
  next_pid,
  state,                     \* process_t.state by pid
  address_space,             \* process_t.address_space by pid: its own, or 0 for NULL
  cr3,                       \* whose address space is loaded, 0 for the kernel's
  cpu,                       \* whose instructions are executing
  saved,                     \* contexts with a saved stack pointer to resume from
  waitFor                    \* the pid exec waits for, 0 when no exec is waiting

schedVars == <<runqueue, zombies, current, state, cr3, cpu, saved, need_resched>>
vars == <<schedVars, tick_count, next_pid, address_space, waitFor>>

Pid == 1 .. MaxPid
PidOrNull == 0 .. MaxPid
Unborn == "UNBORN"

TypeOK == /\ runqueue \in Seq(Pid) /\ zombies \in Seq(Pid)
          /\ current \in PidOrNull /\ cpu \in PidOrNull /\ cr3 \in PidOrNull
          /\ tick_count \in 0 .. TickQuantum - 1 /\ need_resched \in {0, 1}
          /\ next_pid \in 1 .. MaxPid + 1
          /\ state \in [Pid -> {Unborn, "READY", "RUNNING", "TERMINATED"}]
          /\ address_space \in [Pid -> PidOrNull]
          /\ saved \subseteq PidOrNull
          /\ waitFor \in PidOrNull

(* scheduler_init, after vmm_init loaded the kernel's page tables *)
Init == /\ runqueue = << >> /\ zombies = << >>
        /\ current = 0 /\ cpu = 0 /\ cr3 = 0
        /\ tick_count = 0 /\ need_resched = 0
        /\ next_pid = 1
        /\ state = [p \in Pid |-> Unborn]
        /\ address_space = [p \in Pid |-> 0]
        /\ saved = {}
        /\ waitFor = 0

-----------------------------------------------------------------------------
(* The lists.                                                              *)

Queued(p) == p \in ToSet(runqueue)
Index(p) == CHOOSE i \in DOMAIN runqueue : runqueue[i] = p
Unlink(p) == RemoveAt(runqueue, Index(p))

(* scheduler_find_by_pid *)
Found(p) == p # 0 /\ (Queued(p) \/ p = current \/ p \in ToSet(zombies))

(* pick_next on the queue rq with process states st.  The walk starts behind
   the current process (at the head when it is not queued); from the end it
   returns without wrapping; it wraps when it steps over a process that is not
   ready, and gives up when it is back at the current process. *)
PickHead(rq, st) == IF rq = << >> THEN 0 ELSE Head(rq) \* a bug: no rotation
PickNext(rq, st) ==
  LET here    == IF current \in ToSet(rq) THEN CHOOSE i \in DOMAIN rq : rq[i] = current ELSE 0
      later   == {i \in DOMAIN rq : i > here /\ st[rq[i]] = "READY"}
      earlier == {i \in DOMAIN rq : i < here /\ st[rq[i]] = "READY"}
  IN  IF rq = << >>             THEN 0
      ELSE IF current = 0       THEN Head(rq)
      ELSE IF here = Len(rq)    THEN current
      ELSE IF later # {}        THEN rq[Min(later)]
      ELSE IF earlier # {}      THEN rq[Min(earlier)]
      ELSE current

-----------------------------------------------------------------------------
(* Switching.  These set every variable of schedVars but the lists.        *)

(* context_switch(&old->stack_ptr, new->stack_ptr) *)
ContextSwitch(old, new) == /\ saved' = (saved \cup {old}) \ {new}
                           /\ cpu' = new

LeaveRunning(next, st) == \* a bug: the previous process is left RUNNING
  /\ state' = [st EXCEPT ![next] = "RUNNING"]
  /\ current' = next
  /\ need_resched' = 0
  /\ cr3' = IF address_space[next] # 0 THEN address_space[next] ELSE cr3
  /\ ContextSwitch(current, next)

(* the prologue of scheduler_yield that leads to a switch to next *)
SwitchTo(next, st) ==
  /\ state' = [p \in Pid |-> IF p = next THEN "RUNNING"
                             ELSE IF p = current /\ st[p] # "TERMINATED" THEN "READY"
                             ELSE st[p]]
  /\ current' = next
  /\ need_resched' = 0
  /\ cr3' = IF address_space[next] # 0 THEN address_space[next] ELSE cr3
  /\ ContextSwitch(current, next)

Stay(st) == state' = st /\ UNCHANGED <<current, need_resched, cr3, saved, cpu>>

(* scheduler_yield, on the queue and states its caller leaves *)
Yield(rq, st) ==
  LET next == PickNext(rq, st)
  IN  IF next \in {0, current} THEN Stay(st) ELSE SwitchTo(next, st)

-----------------------------------------------------------------------------
(* process.c and scheduler_kill.                                           *)

(* process_create: out of memory for its page tables it keeps a NULL address
   space; out of memory for the process itself it returns NULL unchanged *)
Create(own) ==
  /\ next_pid \in Pid
  /\ next_pid' = next_pid + 1
  /\ state' = [state EXCEPT ![next_pid] = "READY"]
  /\ address_space' = [address_space EXCEPT ![next_pid] = IF own THEN next_pid ELSE 0]
  /\ saved' = saved \cup {next_pid}
  /\ runqueue' = Append(runqueue, next_pid)
  /\ UNCHANGED <<zombies, current, cr3, cpu, need_resched, tick_count>>

RemoveRelinks == \* a bug: the process is linked to the zombies although it is not queued
  /\ runqueue' = IF Queued(current) THEN Unlink(current) ELSE runqueue
  /\ zombies' = <<current>> \o zombies

(* scheduler_remove_current: a process that already left the queue stays where
   it is *)
RemoveCurrent ==
  /\ runqueue' = IF Queued(current) THEN Unlink(current) ELSE runqueue
  /\ zombies' = IF Queued(current) THEN <<current>> \o zombies ELSE zombies

(* process_exit_current_status, and scheduler_kill of the current process:
   terminate, remove, yield.  With nothing to switch to the yield returns. *)
Exit ==
  /\ RemoveCurrent
  /\ Yield(runqueue', [state EXCEPT ![current] = "TERMINATED"])
  /\ UNCHANGED <<next_pid, address_space, tick_count>>

KillMarksOnly(p) == \* a bug: the process is marked but stays queued
  /\ p # current
  /\ Queued(p)
  /\ state' = [state EXCEPT ![p] = "TERMINATED"]
  /\ UNCHANGED <<runqueue, zombies, current, cr3, cpu, saved, need_resched, next_pid,
                 address_space, tick_count>>

(* scheduler_kill of another process than the current one *)
KillOther(p) ==
  /\ p # current
  /\ Queued(p)
  /\ runqueue' = Unlink(p)
  /\ state' = [state EXCEPT ![p] = "TERMINATED"]
  /\ UNCHANGED <<zombies, current, cr3, cpu, saved, need_resched, next_pid, address_space,
                 tick_count>>

Kill(p) == \/ Found(p) /\ p = current /\ Exit
           \/ Found(p) /\ KillOther(p)

-----------------------------------------------------------------------------
(* The kernel's context: PIT ticks between shell commands, and the shell.  *)

ShellIdle == cpu = 0 /\ waitFor = 0

(* scheduler_tick *)
SchedulerTick ==
  /\ tick_count' = (tick_count + 1) % TickQuantum
  /\ need_resched' = IF tick_count' = 0 THEN 1 ELSE need_resched
  /\ UNCHANGED <<runqueue, zombies, current, state, cr3, cpu, saved, next_pid, address_space,
                 waitFor>>
Tick == ShellIdle /\ SchedulerTick

(* exec: process_exec, then the loop that waits for its end *)
ShellExec(own) == ShellIdle /\ Create(own) /\ waitFor' = next_pid

(* one round of that loop *)
ShellWait ==
  /\ cpu = 0 /\ waitFor # 0
  /\ IF Found(waitFor) /\ state[waitFor] = "TERMINATED"
     THEN waitFor' = 0 /\ UNCHANGED schedVars
     ELSE Yield(runqueue, state) /\ UNCHANGED <<waitFor, runqueue, zombies>>
  /\ UNCHANGED <<next_pid, address_space, tick_count>>

(* process_create called by the kernel itself.  In this commit only an optional
   demo of kernel_main does, which stands in a comment there. *)
BootCreate(own) == ShellIdle /\ Create(own) /\ UNCHANGED waitFor

ShellKill(p) == ShellIdle /\ Kill(p) /\ UNCHANGED waitFor

(* What the running process may call. *)
ProcYield == /\ cpu # 0
             /\ Yield(runqueue, state)
             /\ UNCHANGED <<runqueue, zombies, next_pid, address_space, tick_count, waitFor>>
ProcExit == cpu # 0 /\ Exit /\ UNCHANGED waitFor
ProcKill(p) == cpu # 0 /\ Kill(p) /\ UNCHANGED waitFor
ProcCreate(own) == cpu # 0 /\ Create(own) /\ UNCHANGED waitFor

Next == \/ Tick
        \/ ShellWait
        \/ ProcYield
        \/ ProcExit
        \/ \E own \in BOOLEAN : BootCreate(own) \/ ShellExec(own) \/ ProcCreate(own)
        \/ \E p \in Pid : ShellKill(p) \/ ProcKill(p)

Spec == Init /\ [][Next]_vars

(* Cooperative processes keep yielding, and the shell's wait loop runs. *)
YieldSpec == /\ Spec
             /\ \A p \in Pid : WF_vars(cpu = p /\ ProcYield)
             /\ WF_vars(ShellWait)

(* Programs end: every process that runs eventually exits. *)
ExitSpec == /\ YieldSpec
            /\ \A p \in Pid : WF_vars(cpu = p /\ ProcExit)

-----------------------------------------------------------------------------
(* Every live process is queued exactly once, so no ready process is lost; a
   terminated one is never queued, and the zombie list holds each of its
   processes once (a second link would close the list into a ring). *)
ListsSound ==
  /\ ToSet(runqueue) = {p \in Pid : state[p] \in {"READY", "RUNNING"}}
  /\ \A s \in {runqueue, zombies} : \A i, j \in DOMAIN s : s[i] = s[j] => i = j
  /\ \A p \in ToSet(zombies) : state[p] = "TERMINATED"

(* At most one process is RUNNING, it is `current', it owns the CPU, and its
   page tables are loaded unless it has none of its own. *)
CurrentRuns ==
  /\ cpu = current
  /\ \A p \in Pid : state[p] = "RUNNING" => p = current
  /\ current # 0 => state[current] \in {"RUNNING", "TERMINATED"}
  /\ current # 0 => address_space[current] \in {0, cr3}

(* The loop of pick_next ends: when the current process has left the queue,
   a queue that is not empty has a ready process. *)
PickNextEnds ==
  current # 0 /\ ~Queued(current) /\ runqueue # << >> =>
    \E p \in ToSet(runqueue) : state[p] = "READY"

(* context_switch resumes only a context whose stack pointer was saved when it
   left the CPU (or prepared by process_create), and never a terminated
   process. *)
ResumesSaved == [][cpu' # cpu => cpu' \in saved /\ state[cpu'] = "READY"]_vars

(* A process queued behind the current one is reached: it runs, or it is
   terminated before that, provided the processes before it keep yielding. *)
Behind(p) == \E i, j \in DOMAIN runqueue : i < j /\ runqueue[i] = current /\ runqueue[j] = p
BehindRuns == \A p \in Pid : Behind(p) ~> (cpu = p \/ state[p] = "TERMINATED")

(* shell.c:135: exec waits for the process to terminate and reports its exit
   code. *)
ExecReports == \A p \in Pid : waitFor = p ~> waitFor = 0
=============================================================================
