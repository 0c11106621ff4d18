# A formal model of nanaos

nanaos (`kernel/`) is an experimental x86_64 kernel: one CPU, one address
map, interrupt-driven input, cooperative processes, a memory-backed file system
and a small graphical desktop. This directory holds TLA+ models of its parts,
the TLC configurations that check them and proofs checked by TLAPS. Paths
below are relative to the repository's root.

## Inventory

| component | state | operations | meets the others through |
|---|---|---|---|
| event queue, `kernel/core/events.c` | `q`, `head`, `tail` | `events_enqueue`, `events_dequeue` | drivers enqueue in interrupts, the UI loops dequeue |
| PIT, keyboard, mouse, `kernel/drivers/` | ticks; packet phase, position; the controller's configuration | `*_init`, `*_on_interrupt` | one data port; events; the scheduler's tick; the shell's characters |
| interrupt entry and PIC, `kernel/arch/x86_64/` | EFLAGS.IF, in-service bits | gates, `isr_common_c`, EOI, exceptions | everything that runs "inside" an interrupt |
| scheduler and processes, `kernel/scheduler/`, `kernel/process/` | run queue, zombie list, `current`, saved stack pointers | create, yield, exit, kill, tick | shell (`exec`, `kill`), system calls, page faults |
| physical memory, `kernel/memory/pmm.c`, `memory_map.c` | table of free regions | walk the tags, parse, take, free | Multiboot information; no user in the kernel yet |
| heap, `kernel/memory/heap.c` | bump pointer | `kmalloc` | nearly everybody, from both sides of the interrupt line |
| page tables, `kernel/memory/vmm.c` | tables, loaded address space | create, switch, map | processes |
| VFS, `kernel/fs/vfs.c` | tree of nodes | resolve, create, write, read | shell, system calls, FAT32, loader |
| system calls, `kernel/syscall/` | descriptor tables | open, read, lseek, close, sleep, exit | VFS, PIT, scheduler |
| ATA and block devices, `kernel/drivers/ata/`, `drivers/block/` | the drive's status and registers | identify, read a sector | FAT32 and MBR |
| FAT32 and MBR, `kernel/fs/` | the disk's cluster graph | find the partition, mount | block device, VFS, heap |
| loader, `kernel/exec/` | image being loaded | validate, copy | VFS, heap, processes |
| shell, `kernel/core/shell.c` | line buffer, cwd and its path | characters, commands | runs inside the keyboard interrupt |
| login, desktop, windows, `kernel/ui/` | UI state, windows, drag | mouse and keyboard events | event queue, heap |

What makes this code hard is that everything but the UI loop runs inside an
interrupt with further interrupts masked: the shell's commands, the processes
they start and every system call. The hazards in `PROJECT.json` are sorted
from that: interleavings of handlers with the main loop (event queue, heap),
control that never comes back (`exec`, `sys_sleep`, FAT32 walks), lists and
tables whose correctness depends on long sequences of calls (scheduler, region
table, descriptors, VFS tree), and state kept twice (button edges).

What each part must guarantee:

- event queue: an accepted event reaches the UI loop once, whole, in order;
- scheduler: no process lost or queued twice, the CPU and `current` agree, only
  saved contexts are resumed, ready processes run;
- physical memory: no frame handed out twice, only usable memory, no leak;
- heap: blocks do not overlap; VFS: a tree in which every node has a name that
  resolves to it; descriptors: reads deliver the file in order; disk and FAT32:
  the sectors read are those that were meant, the mount ends and invents
  nothing; loader: a process is what the disk holds, and complete; input: the
  line is what was typed, and the mouse is understood again after a lost byte;
  interrupts: every line handled is acknowledged where
  it is in service, and nothing enters the scheduler while something is in it;
  desktop: one active window, the drag ends with the button.

## Modules

### EventQueue, BoundedFifo, Input_proofs

`EventQueue` models `core/events.c` at the grain of single loads and stores.
`head`, `tail`, `q` are the variables of the C file; `frame[s]` is the handler
of source `s` while it is inside `events_enqueue`; `pc` and `out` are the main
loop and its local `ev` (a 16-byte struct, copied by two 8-byte loads in the
build in `build/`); `got` is the event passed to the handler. `q` is not
volatile, so the two stores of `events_enqueue` are taken in either order (the
build stores `tail` first). Every gate in `idt.c` is an interrupt gate: a
handler starts only when none is running, and the main loop does not move
before it returns.

| action | code |
|---|---|
| `DeviceInterrupt`, `PitInterrupt` | `keyboard.c:30`, `mouse.c:52`, `pit.c:22`, up to the first store of `events.c:14` |
| `StoreSlot`, `StoreTail` | `events.c:17-19` |
| `TestEmpty`, `CopyLo`, `CopyHi`, `Advance` | `events.c:22-28` |
| `Composite`, `Halt`, `Wake` | `ura.c:72-75`, the same loop as `ui.c:65` |

`BoundedFifo` is the abstract promise: put, refuse when full, get the oldest.
The refinement maps its buffer to what lies between `head` and `tail`, where a
slot whose `tail` is already published but whose content is not yet stored
counts with the content that is on its way.

Fairness: handlers are straight-line code (weak); the PIT fires at 100 Hz and
the main loop runs whenever no handler does (strong, because each interrupts
the other). A shell command that starts a program never returns (see
`ExecReports` below) and ends all this; the model covers the system up to there.

### Scheduler, Scheduler_proofs, ListLemmas

`Scheduler` models `scheduler.c`, `process.c`, the saved contexts of
`context_switch.S` and the shell commands that call them. Processes are pids,
the two linked lists are sequences, `cpu` is whose instructions execute (0 for
the kernel), `saved` the contexts somebody may resume. Between two shell
commands the PIT ticks; from `exec` on everything runs with interrupts masked,
so there are no ticks. A process may yield, exit, kill and create; an exit may
return (with nothing else to run) and be repeated.

| action | code |
|---|---|
| `Tick` | `scheduler_tick` |
| `ShellExec`, `ShellWait`, `ShellKill` | `shell.c:129-159` with `process_exec`, `scheduler_yield`, `scheduler_kill` |
| `ProcYield`, `ProcExit`, `ProcKill`, `ProcCreate` | `scheduler_yield`, `process_exit_current_status`, `scheduler_kill`, `process_create` |
| `BootCreate` | the demo processes of `kernel.c:98-111` |

`ExecReports` (`shell.c:135`) does not hold and has a run of its own.
`BehindRuns` is the liveness that does hold: whoever is queued behind the current
process is reached. Who is queued in front of it is reached only if the last of
the queue ends: `pick_next` does not wrap there, though `scheduler.c:92` calls
it round robin.

The callers are those `process.h` is made for. The programs of this commit only
use `int 0x80`, and the process that `kernel_main` would create is in a comment
(`kernel.c:98`), so today's kernel takes fewer of these steps than the model.

### Interrupts, Interrupts_proofs

`Interrupts` puts the machine around the scheduler, which it contains (`S`, an
instance of `Scheduler` whose actions it takes): the interrupt flag, the request
and in-service bits of the two controllers, and for each context the stack of
frames it has not returned from. `context_switch` changes the context and leaves
the flag as it is, which is how a process comes to run with interrupts masked and
with the keyboard's line still in service.

| action | code |
|---|---|
| `Raise`, `Accept`, `AcceptSpurious` | the controllers as `pic.c` programs them (external), through `isr_common` |
| `Sti`, `BootCreate` | `kernel.c:90`, `process_create` from the kernel |
| `TimerDone`, `HandlerDone` | `isr_common_c` up to `iretq`, with `scheduler_tick` |
| `Command`, `CommandWaits`, `CommandDone` | `keyboard.c:30`, `shell.c:129-148` and `197-204` |
| `ProcessStep`, `SystemCall`, `Sleep` | a program's calls, `irq.c:37`, `syscall.c:140` |
| `PageFault`, `KillFaulting`, `Panic` | `exception_dispatch` |

`ImplementsScheduler` is a refinement: `Scheduler` takes for granted that no
tick arrives inside a command or while a process runs, and here the gates have to
bring that about. `EoiMatches` ties the controllers to the stacks. `Served` says
that a request is handled unless a process has begun to run, after which none is:
`sys_sleep` waits for ever, and a fault of the only process repeats.
`CallArrives` (`irq.c:38`) does not hold. `Files` takes the number and arguments
of a call as the program gives them.

Fairness: handlers run to their end, the kernel reaches `sti` (weak), and a line
that can be accepted again and again is (`Unhurried`): the devices of higher
priority ask every 10 ms or less often, and a handler takes microseconds.

### Input, MCInput, Input_proofs

`Input` is the two input drivers behind the one data port of the 8042: their
initialization, which polls the port with interrupts masked, then their
handlers, the driver's packet and the line that the shell edits inside the
keyboard's handler. The controller is external: it presents one byte at a time
(`pending`), raises the line of whoever sent it, and the interrupt controller
remembers the request (`irq`). A request whose byte was polled away may stay or
be withdrawn, so a handler may start without a byte of its own.

| action | code |
|---|---|
| `Flush`, `Flushed` | `keyboard_init` |
| `AskConfig`, `ReadConfig`, `Configure`, `Command`, `ReadAnswer` | `mouse_init` with `mouse_write`, `mouse_read` |
| `Sti` | `kernel.c:90` |
| `KeyboardInterrupt` | `keyboard.c:30` and `shell_receive_char` |
| `MouseInterrupt` | `mouse.c:52-74` up to the event |
| `Key`, `Move` | the user (external); a byte of a packet may be lost |

What can go wrong is recorded in variables that are not in the code: `misread`
(a key between the flush and the answer was taken for the configuration), `left`
(a request outlived its byte at `sti`), `mixed` and `upset` (a byte reached the
wrong handler; a packet was disturbed). `OwnBytes` says that the first two are
the only causes of the third. `InStep` and `KeysInOrder` say what holds without;
`Resynchronizes` says that bit 3 brings the driver back for good after any
disturbance, if the mouse goes on with movements that do not look like first
bytes (those that do are bounded by `MaxHard`), and `Heard` that the port does
not stay full. The events go on in `EventQueue`, and the sum of the movements in
`Desktop`.

Fairness: the processor goes on (weak, one `Kernel` for initialization and
handlers together); the user need not do anything.

### Fat32, Disk, Loader, Programs, MCPrograms, Programs_proofs

This is the way from the disk to a process. `Disk` extends `Fat32`, `Loader`
extends `Heap`, and `Programs` composes the two.

`Fat32` is the mount: a walk over the disk's cluster graph that recurses into
directories (`frames` is the recursion) and makes nodes below the mount point
(`found`). Any allocation may fail; the code ignores most of that. A byte of a
file is its cluster and its place there, so that a wrong cluster, a short count
or a stale buffer shows. `Mirrors` compares what the mount made with what the
disk says, computed from the graph and not by the walk, on disks that are `Formatted`;
`NothingInvented` is what remains when something failed. The marks of the table from `0x0FFFFFF8` on
are one value.

`Disk` puts the ATA driver below it: IDENTIFY, then reads of single sectors with
the drive's status polled, any of which may end in an error, and the choice of
the partition. `job` is the read under way, in the code the loops that read
sectors one after the other: the ones to do, and the ones that came. Its `want`
is not in the code; `RightSectors` compares the two, with the sector numbers
computed as the code computes them and split over the four registers.

| action | code |
|---|---|
| `Identify`, `FirstStatus`, `Identified` | `ata_init` |
| `Issue`, `PollError`, `PollReady`, `Transfer` | `ata_read_sector`, `ata_poll_status` |
| `Selftested`, `FindPartition` | `ata_selftest_sector0`, `mbr_find_fat32_partition` |
| `LoadTable`, `NoTable`, `BeginWalk` | `fat32.c:154-195`, `fat_load_fat` |
| `ReadDirectory`, `DirectoryRead`, `ReadFile`, `FileRead`, `WalkOn` | `fat_process_directory`, `fat_read_file_clusters` |

`Loader` is `process_exec`: the headers of the file, the image with its
segments, and the five blocks that an exec takes from `Heap`, one step each,
any of which may fail. In `Programs` first the boot runs with interrupts masked,
then commands execute files of the mounted disk, while the main loop allocates
windows and may be interrupted in the middle of that.

| action | code |
|---|---|
| `Exec` | `process_exec` up to `elf_load_from_buffer` |
| `AllocProcess`, `AllocStack` | `process_create` |
| `AllocSpace`, `AllocTable`, `Create` | `vmm_create_address_space`, the rest of `process_create` and `process_exec` |
| `Others` | `BootAlloc`, `Enable`, `MainLoad`, `MainFail`, `MainStore` of `Heap` |

`ImageFromDisk` relates the two ends: what a process has in memory is what the
disk has at that place of its file. `WholeProcess` says that whatever failed, a
process that is made has an image and a stack that nobody else was given. It
ignores the blocks of other commands, since no command runs behind an exec that
succeeded.

`BootEnds` needs chains without a circle and directories without `.` and `..`;
`LoadsDisk` says that the first should be enough, and is violated, since the
walk enters `.` (`fat32.c:124-128`). `BootEnds` excepts the floating bus as well:
where no drive is attached and the status reads 0xFF, `ata.c:57` waits for ever.

Fairness: the boot's own code (weak, nothing interrupts it), and a drive that
was given a command answers it in the end (weak).

### Heap, Programs_proofs

`Heap` models `kmalloc` as the build has it: one load of `heap_ptr` and one
store. In the main loop (which makes windows) the keyboard interrupt may come
between the two (`MainLoad`, then `MainStore` or `MainFail`), and the shell's
command that runs inside it allocates in one step (`ShellAlloc`), as everything
does before interrupts are enabled (`BootAlloc`). `raced` records that a store
of the main loop undid an allocation: blocks are disjoint as long as it is
false (`DisjointUnlessRaced`), and always in the heap (`InBounds`). Both are
theorems, in the first part of `Programs_proofs`; the run `programs` checks the heap with its users.
`NodesKept` does not hold: a node that `mkdir` made (`vfs.h:23`) may come to lie
in the buffer of a window whose allocation it interrupted. A process does not,
because a successful `exec` keeps the processor and the main loop never stores
(`WholeProcess`).

### Vfs, Files, MCFiles, Files_proofs

`Vfs` is the tree of `vfs.c`: a node is its place in the order of creation, with
name, kind, parent and size of its data. A path is its components and whether
slashes follow the last one, since what `vfs_create` does with those is not what
`vfs_resolve` does. The shell keeps its directory and, for `pwd`, the path of it that
`update_cwd_path` built at the last `cd`. Memory may run out at each allocation of a
creation (`Grow`); a path for whose components there is no memory leads nowhere, and the
commands change nothing then. `Files` adds what holds on to paths: the descriptor tables of the
kernel and of the processes, and `cat`, which opens, reads in chunks and closes
while nothing else runs. A descriptor is a path and an offset, as in
`syscall.c`; the file is found again on every read, which takes memory that nothing
gives back. All reads of one `cat` take the same amount, and nobody else allocates
meanwhile, so `memory` is the number of reads the heap has room for, any number up to
`MaxReads`, when `cat` has opened its file. A read of a process that fails changes
nothing and needs no step. `history` is not in the
code: what each descriptor was opened on and has read. A byte is its file and its place.

| action | code |
|---|---|
| `BootDir`, `WriteFile`, `Boot` | `vfs_init`, `vfs_write_file` and the other writes of the boot |
| `Touch`, `Mkdir`, `Cd`, `CdRoot` | the shell's commands over `vfs_create` and `vfs_resolve` |
| `CatOpen`, `CatRead`, `CatClose` | `shell.c:74-92` |
| `RunProcess`, `ProcessCall` with `SysOpen`, `SysRead`, `SysLseek`, `SysClose` | `syscall.c:57-132`, through `syscall_dispatch` |

`PwdLeadsBack` says that what `pwd` prints leads to where the shell stands, through
whatever dots, slashes and relative paths it came there and whatever was created
since, as no creation gives a path another meaning (`StableResolution`). The tree never grows while a
descriptor is open: `cat` keeps the shell busy to its end, and once a process runs, the
shell does not come back. `CatPrints` says that `cat` goes on while the heap has memory
for the reads that are left, and has then printed the whole file when it ends; without
that memory a failed read (`vfs.c:99`, `syscall.c:71`) ends it in the middle of the file
as if it were the end of it (`shell.c:88`). Either way it gives its descriptor back and returns
to the prompt. That it returns assumes weak fairness of cat's own steps, which run
inside an interrupt handler that nothing interrupts. `vfs_create` keeps trailing
slashes in the name it makes, against the comment `vfs.c:121`; `RoundTrip`
excepts such names.

### Desktop, MCDesktop, Desktop_proofs

`Desktop` models what happens to an event behind the queue: the login screen,
the desktop's handler with its dock, and the window manager. The state of
`wm.c` is one record `desk`, its functions are functions of that record, and
`HandleMouse` is their composition for one event (press, drag, release).
`MouseEvent` takes any position the driver can report and any button state,
since events between two that are seen may have been lost in a full queue. The
edge of the button is kept three times (`loginPrev`, `prevLeft`,
`desk.prevBtn`), and the properties are mostly about these staying in step with
focus, drag and what is painted.

### MemoryMap, Pmm, MCPmm, Pmm_proofs

`MemoryMap` is the walk over the tags that the boot loader leaves: tags begin
at multiples of 8 but have any size, and the entries of a map are `entry_size`
apart, which may be more than the fields that are read. Each tag carries the
place where it begins (`at`), which is the boot loader's choice: behind the end
of the tag before it (`Behind`), at the next multiple of 8. `Pmm` models `pmm.c` on
top of it: a bounded unordered table of regions, filled entry by entry and then
used by callers that return only what they hold (`owned`). `lost` is not in the
code: the frames that found the table full. `Accounted` says that every frame
that lies whole in usable memory, and not in what is left alone, is free, held
or lost, and no other is; `NoDoubleUse` that none is two of these or twice in
the table. A freed block is merged with the first neighbour found and not with
a second one, against the comment `pmm.c:141`.

## Runs

| run | instance | what it shows |
|---|---|---|
| `event_queue` | 4 slots, 2 devices and the PIT, an event every 2 ticks | torn or lost events, wrap-around and the full ring all happen within 4 slots; 2 devices suffice because handlers are symmetric in their code |
| `scheduler` | 4 processes, quantum 2 | queues with a process before, behind and beside the current one; exits of the last process, repeated exits, kills from both sides |
| `exec_wait` | 2 processes | an `exec` that never reports |
| `interrupts` | 2 processes, quantum 2, the lines of the timer, keyboard and mouse and both spurious ones | every order of requests, handlers, commands, calls and faults; lines on both controllers, and a second process, are what the bits and the flag can go wrong about |
| `syscall_frame` | 1 process | the words a system call is dispatched with |
| `input` | 2 bytes on their way, 3 keys, movements of both kinds, 1 lost byte, a line of 1 | keys at every point of the initialization, packets cut short and mixed with keys, requests without a byte, no mouse |
| `programs` | 7 disks of up to 5 clusters, sectors of 1 byte, registers of 2 values, 4 headers of programs, a heap of 80 bytes, 2 blocks of others | files over several clusters out of order, a last cluster that is not full, an empty file, a second partition, nested directories, a circle, a chain that is too short, sectors that no register can name; programs with gaps, with zeros behind their bytes, cut off; each of the five allocations failing |
| `fat32_dots` | the same | `.` sends the walk into itself |
| `heap_race` | requests of 1, 8, 12 and 30 bytes in a heap of 40, which they fill | a node in the buffer of a window |
| `files` | 4 nodes, paths of up to 2 components with dots and slashes, one free descriptor, files of 0 or 3 bytes read by 2, memory for 0 to 3 reads, one process | relative and absolute paths, dots and slashes, a full descriptor table, empty files and a last short chunk; memory for too few, just enough and more reads of a file |
| `desktop` | a screen of 4 by 2, 3 overlapping windows of 3 by 2 and one dock icon, 3 slots, a password of 2 keys in a field of 3 | windows that cover each other, a press that closes one and hits another, a drag to every edge, lost releases, a full table of windows |
| `pmm` | pages of 2 units, a table of 3 regions, blocks up to 3 frames, 3 maps among other tags | tags of odd sizes on both sides of the map, longer entries, rounding on both sides, a full table at boot and later, regions split by the kernel |

Bounds: `MaxPid` bounds creations (`next_pid` is a 32-bit counter that a real
system does not exhaust); `Quantum` and `TickQuantum` replace 10 and 50, as the
counters matter only modulo them; `Cap` replaces 128, `MaxRegions` 64,
`PageSize` 4096, `MaxFd` 15 (`PROC_MAX_FDS` less one), `MaxWindows` 8,
`LineMax` 127, `SectorBytes` 512, `Radix` and `Heads` 256 and 16, and `Page`,
`StackSize` and their like the sizes of what an exec allocates. `MaxBlocks`,
`MaxOthers`, `MaxPending`, `MaxKeys`, `MaxHard`, `MaxLost` and `Beyond` end what
the code lets grow or its surroundings may do; `MaxAddress` is above every
address in a program; `MaxDepth` is the room of the boot stack. The
configurations give every value. Deadlock is not checked where the system may
really stop: `heap_race` (memory is used up), `programs` (a process has the
processor, or the heap is used up), `input` (nobody types)
and `interrupts` (a panic, or a sleep with interrupts masked). The types of
`EventQueue`, `Scheduler`, `Interrupts` and `Heap` are theorems and no run
repeats them (`ProgramsTypeOK` contains those of `Heap`).

The runs that end in a violation (`exec_wait`, `heap_race`, `syscall_frame`,
`fat32_dots`) each check one sentence of the source that the code does not keep;
`findings` in `PROJECT.json` quotes it.

## Proofs

Each proof module takes the constants as the component declares them, with the
named assumptions of that module and no others.

`Input_proofs` begins with the queue by itself, behind the drivers, and proves for
every `Cap > 1`, every set of devices and events and every quantum `QueueTypeOK`,
`OneHandler`, `CopyStable`, and that the ring implements `BoundedFifo`
(`QueueRefinement`). The inductive invariant adds to
the types that at most one frame is active, that an active frame's slot is
`tail` until the tail store and its predecessor after it, that such a slot is
never `head`, and what the main loop's copy holds at each of its program points. The
refinement then has one step per action: the first of the two stores that
publishes `tail` is the abstract put, `Advance` is the get, the others stutter.

`Scheduler_proofs` proves, for any number of processes, `TypeOK`, `ListsSound`,
`CurrentRuns`, `PickNextEnds` and `ResumesSaved`. The inductive invariant has
the lists disjoint and without repetition, one running process, and says which
processes have a context somebody may resume: all that are neither running nor
terminated. `ListLemmas` has what appending, prepending and removing do to a
list without repetition, and that a search along a list finds a first entry.

`Interrupts_proofs` proves, for any number of processes and any quantum,
`EoiMatches` and `ImplementsScheduler`: what `Scheduler_proofs` shows then
holds of the machine with its gates, controllers and handlers. The inductive
invariant says that only the kernel's context is ever interrupted, and with
interrupts open only when nothing is on its stack; that this stack holds one
frame at most; that the lines in service are that frame's; and that while a
process runs, or a command waits for one, the frame is the keyboard's and its
handler is in a command. `EoiMatches` alone is not inductive: that a tick
never reaches a process needs the keyboard's frame below every process. `TypeOK`
follows from it (`TypeCorrect`). The module
takes the scheduler's invariant through an instance of `Scheduler_proofs`, whose
definitions it first shows equal to those of the instance `Interrupts` uses.

`Desktop_proofs` proves, for every screen, every set of windows and icons, any
number of slots and any password, `TypeOK`, `OneActive`, `ClickHitsSeen`,
`DragFollows`, `OnlyDraggedMoves`, `ClosedBySight` and `PasswordOpens`. Three facts make these
inductive. The windows marked active are the one of `desk.active` (`Marked`),
which every function of `wm.c` must restore before it returns. The desktop's copy
of the button and the window manager's are the same, since each event passes
through both; a drag that survived a lost release would otherwise be seen by one
and not by the other. And the login screen never has a drag behind it. That
the press which opens a window from the dock is also seen by the window manager
is the case that decides `ClosedBySight`. `PasswordOpens` speaks of every key since
the last attempt; its invariant (`Typing`) is that the field holds what those keys
leave, and the step that reads one more key extends the recursive function by one.

`Pmm_proofs` proves, for every memory map, every table size and every page size,
`TypeOK`, `NoDoubleUse` and `Accounted`. The inductive invariant says of the walk
that the entries still to come are the rest of the map, whose entries do not
overlap, and of the table that its regions are whole pages and pairwise disjoint;
free, held and lost frames are disjoint and together are those of the entries
passed so far. Entries come one at a time, so that "no frame twice" needs the
entries passed and not only the table. The bound by `total_memory` is that of the
frames passed, by induction over the steps: each entry adds at least its pages.

Of the drivers it proves, for any number of bytes on their way, keys and movements,
`TypeOK`, `OwnBytes`, `InStep` and `KeysInOrder`. `OwnBytes` is not inductive: that no byte is
read by the wrong handler needs that every request stands for a byte in front of
the port (`Requested`), and that needs that the boot asks the controller only
when nothing is outstanding (`Answered`, `Roomy`). `InStep` relates the driver's
two or three bytes with those that are on their way: as long as no packet was
disturbed, what the driver has and what is still coming are whole packets in
the order they were sent (`Framed`), and none is on its way before the mouse
was told to send (`Quiet`). `KeysInOrder` needs an invariant of its own (`Ordered`):
until `sti`, what counts as typed is what is still on its way, without the codes that
name no character (`Filtered`); from then on, the line fed with the codes on their way
is the empty line fed with all keys. A key may be put in before bytes of the mouse, and
those feed nothing (`FeedInserted`).

`Programs_proofs` begins with the heap by itself and proves of it, for every heap,
every set of requests and any number of allocations, that `heap_ptr` stays in the
heap, `InBounds` and `DisjointUnlessRaced`. What makes it inductive is that
`heap_ptr` is behind every block unless the main loop has put it back, and that
what the main loop has loaded, but not yet tested, is still a rounded request.

It then proves `WholeProcess`, for every set of disks and programs, every size of
what is allocated and any number of allocations. A store of the main loop may put
`heap_ptr` back under what a command was given, so "above `heap_ptr` is nobody's"
is not an invariant. The inductive one says that what the boot and the main loop
were given ends below `heap_ptr`, and, while the main loop stands between its load
and its store, below what it loaded; and that an exec under way holds blocks that
lie above all of those, in the order in which it took them. Nobody else allocates
while it is under way. `ImageHasEntry` is the arithmetic of the loader: the image
has room up to the highest address of a segment, so the entry, which some segment
contains, lies in it. That rests on `LoaderAssumption`, which asks for well-formed
headers: segments that are not empty, do not overlap and whose ends do not wrap
around, and one of them around the entry. `loader.c` tests none of this.

The second half of `Programs_proofs` is about the disk, for every set of disks that
`DiskAssumption` and `LayoutAssumption` describe and every width of the registers:
`RightSectors`, `NothingInvented`, `ProgramsTypeOK` and `ImageFromDisk`.
`RightSectors` speaks of what came in; that says nothing of the next sector, so
the invariant has four parts:

- `JobInv`: what is still to be read is, place by place, what is still meant;
- `DriverInv`: while the drive is at a sector, the address in the four registers is
  the next sector's, so that what is transferred is what was meant;
- `MountInv`: a frame of the walk stands at a cluster that is reached from a
  directory of the disk, as deep as its path is long; a node is that of an
  entry of a directory, with the entry's bytes, and no two have one path;
- `FileInv`: a file's job has all its sectors, and the walk goes on only between jobs.

That a job is right when it begins is arithmetic, which the layout lemmas state:
`PartitionFacts` (where the sectors of a partition lie), `TableMeant`,
`ClusterMeant` and `ChainMeant` (the numbers that `fat32.c` computes are those of
the table, of a cluster and of a whole chain) and `AddressOfRegisters` (the
number split over the registers is that number, if it fits, and otherwise is not
tried). `ImageFromDisk` then needs that what an `exec` has loaded stays the image
of a file of the disk until the process is made (`SourceInv`), and `ImageHolds`,
that a segment's bytes stay in the image while the others are copied, so it rests
on `LoaderAssumption` as well. The two assumptions on disks ask
that a table has a last cluster, that a directory's chain leads through
clusters of entries, and that the boot record's first FAT partition is the one
whose contents the disk describes. The code takes all three for granted.

`Mirrors` (`DiskMirrored`) is the converse of `NothingInvented`, and its invariant is
`NothingLeftOut`: there is a set of directories that are done. Of one that is
done every entry has its node, with exactly the bytes that the disk has, and its
subdirectories are done too. A frame of the walk has passed the clusters of its
directory before its own, and of its own the entries before its index; an entry
that was passed has its node, and a subdirectory is done or open, in a frame further
in. When a frame returns, its chain has ended, so its directory joins those that
are done (`ReturnLeaves`); when the first one returns, the root is among them,
and with it all that is reached from it (`DirsLeast`). Nothing is skipped on the way
along a chain, since the clusters reached from one are that cluster and those reached
from the next (`Onward`), and what the walk copies is, when no allocation and no
sector failed, byte by byte what the disk has (`ContentsOnDisk`). The property speaks
of disks that are `Formatted`: of two entries with one name the code keeps one node and
the bytes of the later one, and in a cluster it reads nothing behind an end mark, so on
other disks it is not what the code does. It also makes a path name one directory
(`PathsDiffer`), which is how a frame's path tells whose entries it has passed.

`Files_proofs` proves, for every set of paths, any number of nodes and processes and
files of any size, `TypeOK`, `TreeSound`, `RoundTrip`, `PwdLeadsBack`,
`ReadsInOrder` and `StableResolution`. The inductive invariant has four parts. Of the tree
(`TreeInv`), a node is younger than its parent, which is a directory, and the names
of a directory's children differ; the path that `vfs_get_path` builds from the
parents then leads back to the node (`LeadsBack`, by induction along the ancestors). Of the shell (`CwdInv`), its path
leads to where it stands, and that node and all above it are named by components
(`Reachable`): `cd` walks by components, by which it never enters a name with slashes or
none (`WalkReaches`), so the path built there leads back. Of a descriptor (`DescriptorInv`), its path leads to the node it was opened on, a file
with data, and what was read of it is the file's bytes, without a gap, from where it
was last sought to where it stands. Of the tasks (`TaskInv`), nothing is open before
the boot has filled the tree, and `cat` reads with a descriptor of the kernel from
the first byte on. That a path keeps its node is the lemma `StableWalk`: no node
is ever taken away, renamed or given another parent, and a new one is nobody's child
of that name yet, so the walk of a path that led somewhere passes the same
nodes; the path of `pwd` keeps its node by it (`PathKept`). Of `CatPrints`, the part that is
safety is proved as well (`CatPrintsOn`): a read that leaves bytes has filled the buffer, so that
memory for the reads that were left is still enough for those that are, and `cat` ends
only at the end of the file or without memory. The paths are
those of `PathAssumption`: none is empty, and `.` and `..` are no names of nodes.

Steps along a chain, a path of directories or a flattened list are inductions.
`ListLemmas` has them for sets instead of formulas: a set that has the first
number of a range, and with each number the next one, has them all (`Upwards`),
and a recursive function along a range exists (`Iteration`). Lists of pieces of one
length keep each element at its place (`EqualPieces`).

Not provable with the tools here, and left to TLC: liveness under fairness
(`Delivered`, `BehindRuns`, `CatPrints`, `Served`, `BootEnds`, `Resynchronizes`,
`Heard`). Every other property of the passing runs is stated by a theorem.

## Plan

1. Done: EventQueue, Scheduler, Interrupts, Heap and Programs with their proofs;
   Pmm with MemoryMap, Vfs, Files, Desktop, Input, and Fat32, Disk and Loader
   below Programs.
2. Done: proofs of Desktop, of Pmm with MemoryMap, of Input, and of the way from
   the disk to a process (`Mirrors` included), and of Vfs and Files.
3. The words of a command line and the terminal's cursor, which decide what the
   shell's commands are given and where output appears.

Not modelled, and why (see `components` in `PROJECT.json`):

- drawing, the framebuffer, text output, the serial port and the log: output
  whose contents no other part reads;
- the GDT, the boot assembly and the programming of the PIT: constants written
  to the hardware once, whose effect is assumed;
- `vmm_map_page` and `vmm_unmap_page`: nothing calls them. A new address space
  is a table from a heap that aligns to 8 bytes, and `cr3` drops the low 12 bits
  of its address (`vmm.c:95`); what the processor makes of the result is outside
  of any model here, and `Loader` keeps only that the allocation may fail;
- a floating bus: `BootEnds` excepts it (`ata.c:57` then waits for ever);
- the splitting of a line into words and the commands that only print;
- the Rust helper: a comparison and a greeting, without state; and the test
  program in `userspace/`, whose system calls are those of any process.
