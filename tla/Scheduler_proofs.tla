-------------------------- MODULE Scheduler_proofs --------------------------
(***************************************************************************)
(* Proofs about Scheduler for any number of processes and any quantum: the *)
(* lists are sound, the CPU is where `current' says, pick_next terminates  *)
(* and only saved contexts of ready processes are resumed.                 *)
(***************************************************************************)
EXTENDS Scheduler, ListLemmas

(* What the lists rq and zs and the process states st satisfy at every point
   where the scheduler may pick the next process. *)
Sound(rq, zs, st) ==
  /\ rq \in Seq(Pid) /\ zs \in Seq(Pid) /\ Injective(rq) /\ Injective(zs)
  /\ st \in [Pid -> {Unborn, "READY", "RUNNING", "TERMINATED"}]
  /\ ToSet(rq) = {p \in Pid : st[p] \in {"READY", "RUNNING"}}
  /\ \A p \in ToSet(zs) : st[p] = "TERMINATED"
  /\ \A p \in Pid : st[p] = "RUNNING" => p = current
  /\ current # 0 => st[current] \in {"RUNNING", "TERMINATED"}
  /\ \A p \in Pid : st[p] = "READY" => p \in saved
  /\ \A p \in Pid : p >= next_pid => st[p] = Unborn

(* The inductive invariant: a ready process has a context to resume, and a pid
   that was not given out yet has no state. *)
IInv == TypeOK /\ CurrentRuns /\ Sound(runqueue, zombies, state)

(* A queue that is not empty has a ready process when the current one is not
   in it, since only the current one may be RUNNING. *)
LEMMA IInvImplies == IInv => ListsSound /\ PickNextEnds
<1> SUFFICES ASSUME IInv PROVE ListsSound /\ PickNextEnds
  OBVIOUS
<1>1. ListsSound
  BY DEF IInv, Sound, ListsSound, Injective
<1>2. ASSUME current # 0, ~Queued(current), runqueue # << >>
      PROVE  \E p \in ToSet(runqueue) : state[p] = "READY"
  <2>1. Head(runqueue) \in ToSet(runqueue)
    BY <1>2 DEF IInv, TypeOK, ToSet
  <2> QED
    BY <1>2, <2>1 DEF IInv, Sound, Queued
<1> QED
  BY <1>1, <1>2 DEF PickNextEnds

(* The lists are empty, nobody runs and no pid was given out. *)
LEMMA InitIInv == Init => IInv
<1> SUFFICES ASSUME Init PROVE IInv
  OBVIOUS
<1>1. TypeOK
  BY MaxPidAssumption, TickQuantumAssumption DEF Init, TypeOK, Pid, PidOrNull
<1>2. CurrentRuns
  BY DEF Init, CurrentRuns, Unborn
<1>3. Sound(runqueue, zombies, state)
  BY DEF Init, Sound, Injective, ToSet, Unborn
<1> QED
  BY <1>1, <1>2, <1>3 DEF IInv

-----------------------------------------------------------------------------
(* pick_next returns NULL, the current process, or a ready one of the queue. *)
LEMMA PickNextReady ==
  ASSUME current \in PidOrNull, NEW rq, NEW zs, NEW st, Sound(rq, zs, st),
         PickNext(rq, st) \notin {0, current}
  PROVE  PickNext(rq, st) \in Pid /\ st[PickNext(rq, st)] = "READY"
<1> DEFINE here    == IF current \in ToSet(rq) THEN CHOOSE i \in DOMAIN rq : rq[i] = current ELSE 0
           later   == {i \in DOMAIN rq : i > here /\ st[rq[i]] = "READY"}
           earlier == {i \in DOMAIN rq : i < here /\ st[rq[i]] = "READY"}
<1>1. rq \in Seq(Pid) /\ DOMAIN rq = 1 .. Len(rq) /\ Len(rq) \in Nat
  BY DEF Sound
<1>2. ASSUME NEW S, S \in {later, earlier}, S # {}
      PROVE  rq[Min(S)] \in Pid /\ st[rq[Min(S)]] = "READY"
  <2>1. S \subseteq 1 .. Len(rq) /\ \A i \in S : st[rq[i]] = "READY"
    BY <1>1, <1>2
  <2>2. Min(S) \in S
    BY <1>1, <1>2, <2>1, FirstIndex
  <2>3. PICK m : m = Min(S)
    OBVIOUS
  <2> HIDE DEF here, later, earlier
  <2>4. m \in 1 .. Len(rq) /\ st[rq[m]] = "READY"
    BY <2>1, <2>2, <2>3
  <2>5. rq[m] \in Pid
    BY <1>1, <2>4
  <2> QED
    BY <2>3, <2>4, <2>5
<1>3. CASE rq # << >> /\ current = 0
  <2>1. PickNext(rq, st) = Head(rq)
    BY <1>3 DEF PickNext
  <2>2. Head(rq) \in ToSet(rq)
    BY <1>1, <1>3 DEF ToSet
  <2>3. Head(rq) \in Pid /\ st[Head(rq)] \in {"READY", "RUNNING"} /\ Head(rq) # current
    BY <1>3, <2>2 DEF Sound, Pid
  <2> QED
    BY <2>1, <2>3 DEF Sound
<1>4. CASE rq # << >> /\ current # 0
  <2>1. PickNext(rq, st) = IF here = Len(rq) THEN current
                           ELSE IF later # {} THEN rq[Min(later)]
                           ELSE IF earlier # {} THEN rq[Min(earlier)] ELSE current
    BY <1>4 DEF PickNext
  <2> HIDE DEF here, later, earlier
  <2>2. PickNext(rq, st) \in {rq[Min(S)] : S \in {s \in {later, earlier} : s # {}}}
    BY <2>1
  <2> QED
    BY <1>2, <2>2
<1> QED
  BY <1>3, <1>4 DEF PickNext

(* scheduler_yield keeps the invariant and resumes only a saved context of a
   ready process. *)
LEMMA YieldStep ==
  ASSUME TypeOK, CurrentRuns, NEW rq, NEW zs, NEW st, Sound(rq, zs, st), Yield(rq, st),
         runqueue' = rq, zombies' = zs, UNCHANGED <<next_pid, address_space, tick_count>>,
         waitFor' \in PidOrNull
  PROVE  /\ IInv'
         /\ cpu' # cpu => cpu' \in saved /\ cpu' # current /\ st[cpu'] = "READY"
<1> DEFINE next == PickNext(rq, st)
<1>1. current \in PidOrNull
  BY DEF TypeOK
<1>2. CASE next \in {0, current}
  <2>1. state' = st /\ UNCHANGED <<current, need_resched, cr3, saved, cpu>>
    BY <1>2 DEF Yield, Stay
  <2>2. TypeOK'
    BY <2>1 DEF TypeOK, Sound
  <2>3. CurrentRuns'
    BY <2>1 DEF CurrentRuns, Sound
  <2>4. Sound(runqueue, zombies, state)'
    BY <2>1 DEF Sound, Injective
  <2> QED
    BY <2>1, <2>2, <2>3, <2>4 DEF IInv
<1>3. CASE next \notin {0, current}
  <2>1. next \in Pid /\ st[next] = "READY"
    BY <1>1, <1>3, PickNextReady
  <2> HIDE DEF next
  <2>2. SwitchTo(next, st)
    BY <1>3 DEF Yield, next
  <2>3. /\ state' = [p \in Pid |-> IF p = next THEN "RUNNING"
                                   ELSE IF p = current /\ st[p] # "TERMINATED" THEN "READY"
                                   ELSE st[p]]
        /\ current' = next /\ cpu' = next /\ need_resched' = 0
        /\ cr3' = IF address_space[next] # 0 THEN address_space[next] ELSE cr3
        /\ saved' = (saved \cup {current}) \ {next}
    BY <2>2 DEF SwitchTo, ContextSwitch
  <2>4. st \in [Pid -> {Unborn, "READY", "RUNNING", "TERMINATED"}]
    BY DEF Sound
  <2>5. TypeOK'
    BY <2>1, <2>3, <2>4 DEF TypeOK, PidOrNull, Pid, Sound
  <2>6. CurrentRuns'
    BY <1>3, <2>1, <2>3, <2>4 DEF CurrentRuns, Sound, Pid
  <2>7. Sound(runqueue, zombies, state)'
    <3>1. \A p \in Pid : state'[p] \in {"READY", "RUNNING"} <=> st[p] \in {"READY", "RUNNING"}
      BY <1>3, <2>1, <2>3, <2>4 DEF Sound
    <3>2. \A p \in Pid : st[p] \in {"TERMINATED", Unborn} => state'[p] = st[p]
      BY <1>3, <2>1, <2>3, <2>4 DEF Sound, Unborn
    <3>3. ToSet(rq)' = ToSet(rq) /\ ToSet(zs)' = ToSet(zs) /\ ToSet(zs) \subseteq Pid
      BY DEF ToSet, Sound
    <3>4. ToSet(runqueue') = {p \in Pid : state'[p] \in {"READY", "RUNNING"}}
      BY <3>1 DEF Sound
    <3>5. \A p \in Pid : (state'[p] = "RUNNING" => p = current') /\ (state'[p] = "READY" => p \in saved')
      BY <2>1, <2>3, <2>4 DEF Sound
    <3>6. \A p \in ToSet(zombies') : state'[p] = "TERMINATED"
      BY <3>2, <3>3 DEF Sound
    <3>7. state'[current'] = "RUNNING"
      BY <2>1, <2>3
    <3>8. \A p \in Pid : p >= next_pid' => state'[p] = Unborn
      BY <3>2 DEF Sound
    <3>9. /\ runqueue' \in Seq(Pid) /\ zombies' \in Seq(Pid)
          /\ Injective(runqueue') /\ Injective(zombies')
      BY DEF Sound
    <3> QED
      BY <2>5, <3>4, <3>5, <3>6, <3>7, <3>8, <3>9 DEF Sound, TypeOK, Injective
  <2> QED
    BY <1>3, <2>1, <2>3, <2>5, <2>6, <2>7 DEF IInv, CurrentRuns, Sound
<1> QED
  BY <1>2, <1>3

-----------------------------------------------------------------------------
(* What an action must leave true besides the invariant: a switch resumes a
   saved context of a ready process. *)
Resumes == cpu' # cpu => cpu' \in saved /\ state[cpu'] = "READY"

(* process_create takes the next pid, which is in no list. *)
LEMMA CreateStep ==
  ASSUME IInv, NEW own \in BOOLEAN, Create(own), waitFor' \in PidOrNull
  PROVE  IInv' /\ Resumes
<1> USE DEF IInv
<1>1. next_pid \in Pid /\ state[next_pid] = Unborn
  BY DEF Create, Sound, Pid, TypeOK
<1>2. next_pid \notin ToSet(runqueue) /\ next_pid # current
  BY <1>1 DEF Sound, Unborn
<1>3. /\ runqueue' \in Seq(Pid) /\ Injective(runqueue')
      /\ ToSet(runqueue') = ToSet(runqueue) \cup {next_pid}
  BY <1>1, <1>2, AppendElements DEF Create, Sound
<1>4. /\ state' = [state EXCEPT ![next_pid] = "READY"]
      /\ address_space' = [address_space EXCEPT ![next_pid] = IF own THEN next_pid ELSE 0]
      /\ saved' = saved \cup {next_pid} /\ next_pid' = next_pid + 1
      /\ UNCHANGED <<zombies, current, cr3, cpu, need_resched, tick_count>>
  BY DEF Create
<1>5. TypeOK'
  BY <1>1, <1>3, <1>4, MaxPidAssumption DEF TypeOK, Pid, PidOrNull
<1>6. CurrentRuns'
  BY <1>1, <1>2, <1>4 DEF CurrentRuns, TypeOK, PidOrNull, Pid
<1>7. Sound(runqueue, zombies, state)'
  <2>1. ToSet(runqueue') = {p \in Pid : state'[p] \in {"READY", "RUNNING"}}
    BY <1>1, <1>3, <1>4 DEF Sound, TypeOK
  <2>2. ToSet(zombies') = ToSet(zombies) /\ ToSet(zombies) \subseteq Pid
    BY <1>4 DEF ToSet, TypeOK
  <2>3. \A p \in ToSet(zombies') : state'[p] = "TERMINATED"
    BY <1>1, <1>4, <2>2 DEF Sound, TypeOK, Unborn
  <2>4. /\ \A p \in Pid : state'[p] = "RUNNING" => p = current'
        /\ \A p \in Pid : state'[p] = "READY" => p \in saved'
        /\ \A p \in Pid : p >= next_pid' => state'[p] = Unborn
    BY <1>1, <1>4 DEF Sound, TypeOK, Pid
  <2>5. current' # 0 => state'[current'] \in {"RUNNING", "TERMINATED"}
    BY <1>2, <1>4 DEF Sound, TypeOK
  <2>6. zombies' \in Seq(Pid) /\ Injective(zombies')
    BY <1>4 DEF Sound, Injective
  <2> QED
    BY <1>3, <1>5, <2>1, <2>3, <2>4, <2>5, <2>6 DEF Sound, TypeOK
<1> QED
  BY <1>4, <1>5, <1>6, <1>7 DEF Resumes

(* Unlinking a queued process leaves the others. *)
LEMMA UnlinkElements ==
  ASSUME IInv, NEW p \in ToSet(runqueue)
  PROVE  /\ Unlink(p) \in Seq(Pid) /\ Injective(Unlink(p))
         /\ ToSet(Unlink(p)) = ToSet(runqueue) \ {p}
<1>1. runqueue \in Seq(Pid) /\ Injective(runqueue)
  BY DEF IInv, Sound
<1>2. Index(p) \in DOMAIN runqueue /\ runqueue[Index(p)] = p
  BY DEF Index, ToSet
<1> QED
  BY <1>1, <1>2, RemoveAtEntries, RemoveAtElements DEF Unlink

(* A process that exits leaves the run queue and enters the zombie list once,
   however often it exits. *)
LEMMA ExitStep ==
  ASSUME IInv, current # 0, Exit, waitFor' \in PidOrNull
  PROVE  IInv' /\ Resumes
<1> DEFINE st == [state EXCEPT ![current] = "TERMINATED"]
<1>1. TypeOK /\ CurrentRuns /\ Sound(runqueue, zombies, state) /\ current \in Pid
  BY DEF IInv, TypeOK, Pid, PidOrNull
<1>2. /\ runqueue' \in Seq(Pid) /\ Injective(runqueue')
      /\ ToSet(runqueue') = ToSet(runqueue) \ {current}
  <2>1. CASE Queued(current)
    BY <2>1, UnlinkElements DEF Queued, Exit, RemoveCurrent
  <2>2. CASE ~Queued(current)
    BY <1>1, <2>2 DEF Queued, Exit, RemoveCurrent, Sound, Injective
  <2> QED
    BY <2>1, <2>2
<1>3. /\ zombies' \in Seq(Pid) /\ Injective(zombies')
      /\ ToSet(zombies') \subseteq ToSet(zombies) \cup {current}
  <2>1. CASE Queued(current)
    <3>1. zombies' = <<current>> \o zombies /\ current \notin ToSet(zombies)
      BY <1>1, <2>1 DEF Exit, RemoveCurrent, Queued, Sound
    <3> QED
      BY <1>1, <3>1, PrependElements DEF Sound
  <2>2. CASE ~Queued(current)
    <3>1. zombies' = zombies
      BY <2>2 DEF Exit, RemoveCurrent
    <3> QED
      BY <1>1, <3>1 DEF Sound, Injective, ToSet
  <2> QED
    BY <2>1, <2>2
<1>4. st \in [Pid -> {Unborn, "READY", "RUNNING", "TERMINATED"}]
      /\ st[current] = "TERMINATED" /\ \A p \in Pid : p # current => st[p] = state[p]
  BY <1>1 DEF TypeOK
<1> HIDE DEF st
<1>5. Sound(runqueue', zombies', st)
  <2>1. ToSet(runqueue') = {p \in Pid : st[p] \in {"READY", "RUNNING"}}
    BY <1>1, <1>2, <1>4 DEF Sound
  <2>2. ToSet(zombies) \subseteq Pid
    BY <1>1 DEF ToSet, Sound
  <2>3. \A p \in ToSet(zombies') : st[p] = "TERMINATED"
    BY <1>1, <1>3, <1>4, <2>2 DEF Sound
  <2>4. \A p \in Pid : p >= next_pid => st[p] = Unborn
    BY <1>1, <1>4 DEF Sound, Unborn
  <2> QED
    BY <1>1, <1>2, <1>3, <1>4, <2>1, <2>3, <2>4 DEF Sound
<1>6. PICK rq, zs : rq = runqueue' /\ zs = zombies'
  OBVIOUS
<1>7. IInv' /\ (cpu' # cpu => cpu' \in saved /\ cpu' # current /\ st[cpu'] = "READY")
  <2>1. Yield(rq, st) /\ UNCHANGED <<next_pid, address_space, tick_count>>
    BY <1>6 DEF Exit, st
  <2>2. Sound(rq, zs, st)
    BY <1>5, <1>6
  <2> QED
    BY <1>1, <1>6, <2>1, <2>2, YieldStep
<1> QED
  BY <1>1, <1>4, <1>7 DEF Resumes, st, TypeOK

(* scheduler_kill of another process takes it off the run queue for good. *)
LEMMA KillOtherStep ==
  ASSUME IInv, NEW p \in Pid, KillOther(p), waitFor' \in PidOrNull
  PROVE  IInv' /\ Resumes
<1> USE DEF IInv
<1>1. /\ p # current /\ p \in ToSet(runqueue) /\ runqueue' = Unlink(p)
      /\ state' = [state EXCEPT ![p] = "TERMINATED"]
      /\ UNCHANGED <<zombies, current, cr3, cpu, saved, need_resched, next_pid, address_space,
                     tick_count>>
  BY DEF KillOther, Queued
<1>2. /\ runqueue' \in Seq(Pid) /\ Injective(runqueue')
      /\ ToSet(runqueue') = ToSet(runqueue) \ {p}
  BY <1>1, UnlinkElements
<1>3. TypeOK'
  BY <1>1, <1>2 DEF TypeOK
<1>4. CurrentRuns'
  BY <1>1 DEF CurrentRuns, TypeOK, Pid, PidOrNull
<1>5. Sound(runqueue, zombies, state)'
  <2>1. ToSet(runqueue') = {x \in Pid : state'[x] \in {"READY", "RUNNING"}}
    BY <1>1, <1>2 DEF Sound, TypeOK
  <2>2. ToSet(zombies') = ToSet(zombies) /\ ToSet(zombies) \subseteq Pid
    BY <1>1 DEF ToSet, TypeOK
  <2>3. \A x \in ToSet(zombies') : state'[x] = "TERMINATED"
    BY <1>1, <2>2 DEF Sound, TypeOK
  <2>4. /\ \A x \in Pid : state'[x] = "RUNNING" => x = current'
        /\ \A x \in Pid : state'[x] = "READY" => x \in saved'
    BY <1>1 DEF Sound, TypeOK
  <2>5. \A x \in Pid : x >= next_pid' => state'[x] = Unborn
    BY <1>1 DEF Sound, TypeOK, Unborn
  <2>6. current' # 0 => state'[current'] \in {"RUNNING", "TERMINATED"}
    BY <1>1 DEF Sound, TypeOK
  <2>7. zombies' \in Seq(Pid) /\ Injective(zombies')
    BY <1>1 DEF Sound, Injective
  <2> QED
    BY <1>2, <1>3, <2>1, <2>3, <2>4, <2>5, <2>6, <2>7 DEF Sound, TypeOK
<1> QED
  BY <1>1, <1>3, <1>4, <1>5 DEF Resumes

(* scheduler_kill, of the current process or of another one. *)
LEMMA KillStep ==
  ASSUME IInv, NEW p \in Pid, Kill(p), waitFor' \in PidOrNull
  PROVE  IInv' /\ Resumes
<1>1. CASE p = current /\ Exit
  <2>1. current # 0
    BY <1>1 DEF Pid
  <2> QED
    BY <1>1, <2>1, ExitStep
<1>2. CASE KillOther(p)
  BY <1>2, KillOtherStep
<1> QED
  BY <1>1, <1>2 DEF Kill

(* Ticks, the end of exec's wait and stuttering touch no list and no context. *)
LEMMA QuietStep ==
  ASSUME IInv, UNCHANGED <<runqueue, zombies, current, state, cr3, cpu, saved, next_pid,
                           address_space>>,
         tick_count' \in 0 .. TickQuantum - 1, need_resched' \in {0, 1}, waitFor' \in PidOrNull
  PROVE  IInv' /\ Resumes
<1>1. TypeOK'
  BY DEF IInv, TypeOK
<1>2. CurrentRuns'
  BY DEF IInv, CurrentRuns
<1>3. Sound(runqueue, zombies, state)'
  BY DEF IInv, Sound, Injective, ToSet
<1> QED
  BY <1>1, <1>2, <1>3 DEF IInv, Resumes

(* scheduler_yield on the lists and states as they are. *)
LEMMA PlainYieldStep ==
  ASSUME IInv, Yield(runqueue, state), waitFor' \in PidOrNull,
         UNCHANGED <<runqueue, zombies, next_pid, address_space, tick_count>>
  PROVE  IInv' /\ Resumes
  BY YieldStep DEF IInv, Resumes

-----------------------------------------------------------------------------
(* Every step of the kernel's context and of the processes. *)
LEMMA NextStep == IInv /\ [Next]_vars => IInv' /\ Resumes
<1> SUFFICES ASSUME IInv, [Next]_vars PROVE IInv' /\ Resumes
  OBVIOUS
<1>1. /\ waitFor \in PidOrNull /\ tick_count \in 0 .. TickQuantum - 1 /\ need_resched \in {0, 1}
      /\ 0 \in PidOrNull /\ \A p \in Pid : p \in PidOrNull
      /\ next_pid \in Pid => next_pid \in PidOrNull
  BY MaxPidAssumption DEF IInv, TypeOK, PidOrNull, Pid
<1>2. CASE Tick
  <2>1. tick_count' \in 0 .. TickQuantum - 1
    BY <1>1, <1>2, TickQuantumAssumption DEF Tick, SchedulerTick
  <2>2. need_resched' \in {0, 1}
    BY <1>1, <1>2 DEF Tick, SchedulerTick
  <2> QED
    BY <1>1, <1>2, <2>1, <2>2, QuietStep DEF Tick, SchedulerTick
<1>3. CASE ShellWait
  <2>1. CASE Found(waitFor) /\ state[waitFor] = "TERMINATED"
    BY <1>1, <1>3, <2>1, QuietStep DEF ShellWait, schedVars
  <2>2. CASE ~(Found(waitFor) /\ state[waitFor] = "TERMINATED")
    BY <1>1, <1>3, <2>2, PlainYieldStep DEF ShellWait
  <2> QED
    BY <2>1, <2>2
<1>4. CASE ProcYield
  BY <1>1, <1>4, PlainYieldStep DEF ProcYield
<1>5. CASE ProcExit
  <2>1. current # 0
    BY <1>5 DEF ProcExit, IInv, CurrentRuns
  <2> QED
    BY <1>1, <1>5, <2>1, ExitStep DEF ProcExit
<1>6. ASSUME NEW own \in BOOLEAN, BootCreate(own) \/ ShellExec(own) \/ ProcCreate(own)
      PROVE  IInv' /\ Resumes
  <2>1. Create(own) /\ waitFor' \in PidOrNull
    BY <1>1, <1>6 DEF BootCreate, ShellExec, ProcCreate, Create
  <2> QED
    BY <2>1, CreateStep
<1>7. ASSUME NEW p \in Pid, ShellKill(p) \/ ProcKill(p)
      PROVE  IInv' /\ Resumes
  <2>1. Kill(p) /\ waitFor' \in PidOrNull
    BY <1>1, <1>7 DEF ShellKill, ProcKill
  <2> QED
    BY <2>1, KillStep
<1>8. CASE UNCHANGED vars
  BY <1>1, <1>8, QuietStep DEF vars, schedVars
<1> QED
  BY <1>2, <1>3, <1>4, <1>5, <1>6, <1>7, <1>8 DEF Next

(* The invariant holds in every reachable state. *)
THEOREM Invariance == Spec => []IInv
<1>1. IInv /\ [Next]_vars => IInv'
  BY NextStep
<1> QED
  BY <1>1, InitIInv, PTL DEF Spec

(* Every variable of scheduler.c and process.c keeps its type. *)
THEOREM TypeCorrect == Spec => []TypeOK
<1>1. IInv => TypeOK
  BY DEF IInv
<1> QED
  BY <1>1, Invariance, PTL

(* No live process is lost or queued twice, whatever sequence of creations,
   yields, exits and kills happens (scheduler.c:31-58, 167-187). *)
THEOREM ListsAreSound == Spec => []ListsSound
  BY IInvImplies, Invariance, PTL

(* `current' is the process that executes, and its page tables are loaded. *)
THEOREM CurrentIsRunning == Spec => []CurrentRuns
<1>1. IInv => CurrentRuns
  BY DEF IInv
<1> QED
  BY <1>1, Invariance, PTL

(* The loop of pick_next (scheduler.c:99-102) always terminates. *)
THEOREM PickNextTerminates == Spec => []PickNextEnds
  BY IInvImplies, Invariance, PTL

(* context_switch never loads a stack pointer that was not saved before, and
   never resumes a terminated process. *)
THEOREM OnlySavedResumed == Spec => ResumesSaved
<1>1. IInv /\ [Next]_vars => [cpu' # cpu => cpu' \in saved /\ state[cpu'] = "READY"]_vars
  BY NextStep DEF Resumes
<1>2. Spec => [][cpu' # cpu => cpu' \in saved /\ state[cpu'] = "READY"]_vars
  BY <1>1, Invariance, PTL DEF Spec
<1> QED
  BY <1>2 DEF ResumesSaved
=============================================================================
