-------------------------------- MODULE Files --------------------------------
(***************************************************************************)
(* syscall/syscall.c: descriptors on the files of the Vfs, used by the     *)
(* shell's cat and by processes.                                           *)
(*                                                                         *)
(* A descriptor keeps the path it was opened with, not the node: every     *)
(* read resolves the path again.  Shell commands run inside the keyboard   *)
(* interrupt and system calls with interrupts disabled, so only one of     *)
(* them is under way; once a process runs, the shell does not come back    *)
(* (see Scheduler).  Paths fit the 127 characters of a descriptor.         *)
(* Every resolution takes memory for the path's components, and nothing    *)
(* ever gives memory back.  Out of it, sys_open_impl and sys_read_impl     *)
(* return -1 and change nothing, and cat stops where it is.                *)
(* history and reading are not in the code: the file that was opened, and  *)
(* the bytes read since, each as its file and its place in it.             *)
(***************************************************************************)
EXTENDS Vfs

CONSTANTS Process, \* processes
          MaxFd,   \* highest descriptor
          Chunk,   \* cat's buffer
          MaxReads, \* bound on the reads that the heap has memory for
          MaxLen   \* bound on the length of a read and on lseek

KernelIo == "kernel_io_proc"  \* the task of the kernel itself
Task == {KernelIo} \cup Process
Fd == 0 .. MaxFd
FirstFd == 3

ASSUME FilesAssumption ==
  MaxFd \in Nat /\ MaxFd >= FirstFd /\ Chunk \in Nat \ {0} /\ MaxLen \in Nat
  /\ MaxReads \in Nat /\ KernelIo \notin Process

VARIABLES current, \* whose descriptors sys_current_process finds
          fds,     \* used, path and offset of every task's descriptors
          cat,     \* the descriptor cat reads, 0 outside of it
          memory,  \* how often the heap still has memory for cat's path, 0 outside of it
          history  \* what each open descriptor was opened on and has read

fileVars == <<current, fds, cat, memory, history>>
vars == <<tree, booted, cwd, cwdPath, fileVars>>

NoPath == [abs |-> FALSE, comps |-> << >>, slash |-> FALSE]
Closed == [used |-> FALSE, path |-> NoPath, offset |-> 0]
NoHistory == [node |-> 0, from |-> 0, bytes |-> << >>]
Byte == (1 .. MaxNode) \X (0 .. MaxSize)

TypeOK ==
  /\ VfsTypeOK
  /\ current \in Task
  /\ fds \in [Task -> [Fd -> [used : BOOLEAN, path : Path \cup {NoPath}, offset : 0 .. MaxSize + MaxLen]]]
  /\ cat \in {0} \cup FirstFd .. MaxFd
  /\ memory \in 0 .. MaxReads
  /\ \A t \in Task, fd \in Fd : history[t][fd].bytes \in Seq(Byte)

(* process_init_fds: standard input, output and error are taken *)
InitFds == [fd \in Fd |-> [Closed EXCEPT !.used = fd < FirstFd]]

Init == /\ VfsInit
        /\ current = KernelIo
        /\ fds = [t \in Task |-> InitFds]
        /\ cat = 0 /\ memory = 0
        /\ history = [t \in Task |-> [fd \in Fd |-> NoHistory]]

-----------------------------------------------------------------------------
(* vfs_read_file: the file whose data is found, 0 when it returns NULL *)
ReadFile(path, start) ==
  LET n == Resolve(path, start) IN IF n # 0 /\ tree[n].kind = "FILE" /\ tree[n].size # NoData THEN n ELSE 0

Opened(path) == ReadFile(path, Root)

(* sys_open_impl: the lowest free descriptor *)
SysOpen(fd, path) ==
  /\ Opened(path) # 0
  /\ fd \in FirstFd .. MaxFd /\ ~fds[current][fd].used
  /\ \A lower \in FirstFd .. fd - 1 : fds[current][lower].used
  /\ fds' = [fds EXCEPT ![current][fd] = [used |-> TRUE, path |-> path, offset |-> 0]]
  /\ history' = [history EXCEPT ![current][fd] = [NoHistory EXCEPT !.node = Opened(path)]]

(* what sys_read_impl copies when there is memory for the path: the bytes from the
   offset on, nothing when the descriptor is not open, has no file behind it, or is
   at the end *)
Copied(fd, len) ==
  LET f == fds[current][fd]
      n == ReadFile(f.path, Root)
  IN  IF ~f.used \/ n = 0 \/ f.offset >= tree[n].size THEN << >>
      ELSE [i \in 1 .. Min({len, tree[n].size - f.offset}) |-> <<n, f.offset + i - 1>>]

(* sys_read_impl after a system call that found something to copy *)
SkipLen(fd, len) == \* a bug: the offset moves on by what was asked for
  /\ Copied(fd, len) # << >>
  /\ fds' = [fds EXCEPT ![current][fd].offset = @ + len]
  /\ history' = [history EXCEPT ![current][fd].bytes = @ \o Copied(fd, len)]
SysRead(fd, len) ==
  /\ Copied(fd, len) # << >>
  /\ fds' = [fds EXCEPT ![current][fd].offset = @ + Len(Copied(fd, len))]
  /\ history' = [history EXCEPT ![current][fd].bytes = @ \o Copied(fd, len)]

(* sys_close_impl: it does not ask whether the descriptor is open *)
SysClose(fd) ==
  /\ fd >= FirstFd
  /\ fds' = [fds EXCEPT ![current][fd] = Closed]
  /\ history' = [history EXCEPT ![current][fd] = NoHistory]

(* sys_lseek_impl: any offset is taken *)
SysLseek(fd, off) ==
  /\ fds[current][fd].used
  /\ fds' = [fds EXCEPT ![current][fd].offset = off]
  /\ history' = [history EXCEPT ![current][fd].from = off, ![current][fd].bytes = << >>]

-----------------------------------------------------------------------------
ShellIdle == booted /\ current = KernelIo /\ cat = 0

(* cat: open, read and print until nothing comes or a read fails, close.  Each read
   takes the same memory for its path, and nobody else takes any meanwhile, so what
   the heap has behind the open is enough for some number of reads. *)
CatOpen(path) ==
  /\ ShellIdle
  /\ \E fd \in Fd : SysOpen(fd, path) /\ cat' = fd
  /\ memory' \in 0 .. MaxReads
  /\ UNCHANGED <<vfsVars, current>>
CatRead == /\ cat # 0 /\ memory > 0
           /\ SysRead(cat, Chunk)
           /\ memory' = memory - 1
           /\ UNCHANGED <<vfsVars, current, cat>>
CatStopsShort == \* a bug: a read that does not fill the buffer counts as the end
  /\ cat # 0
  /\ memory = 0 \/ Len(Copied(cat, Chunk)) < Chunk
  /\ SysClose(cat)
  /\ cat' = 0 /\ memory' = 0
  /\ UNCHANGED <<vfsVars, current>>
CatClose == /\ cat # 0
            /\ memory = 0 \/ Copied(cat, Chunk) = << >>
            /\ SysClose(cat)
            /\ cat' = 0 /\ memory' = 0
            /\ UNCHANGED <<vfsVars, current>>

(* the shell's exec lets a process run, and the scheduler picks the next ones *)
RunProcess(p) == /\ booted /\ cat = 0 /\ current # p
                 /\ current' = p
                 /\ UNCHANGED <<vfsVars, fds, cat, memory, history>>

ProcessCall ==
  /\ current \in Process
  /\ \E fd \in Fd : \/ \E path \in Path : SysOpen(fd, path)
                    \/ \E len \in 1 .. MaxLen : SysRead(fd, len)
                    \/ SysClose(fd)
                    \/ \E off \in 0 .. MaxLen : SysLseek(fd, off)
  /\ UNCHANGED <<vfsVars, current, cat, memory>>

Next == \/ BootStep /\ UNCHANGED fileVars
        \/ ShellIdle /\ ShellStep /\ UNCHANGED fileVars
        \/ \E path \in Path : CatOpen(path)
        \/ CatRead \/ CatClose
        \/ \E p \in Process : RunProcess(p)
        \/ ProcessCall

(* cat runs to its end: nothing interrupts the interrupt handler it runs in *)
Spec == Init /\ [][Next]_vars /\ WF_vars(CatRead \/ CatClose)

-----------------------------------------------------------------------------
(* Reads deliver the file's bytes one after the other from where the descriptor
   was placed, each once and none from beyond the end. *)
ReadsInOrder == \A t \in Task, fd \in Fd :
  LET h == history[t][fd]
  IN  /\ h.bytes = [i \in DOMAIN h.bytes |-> <<h.node, h.from + i - 1>>]
      /\ fds[t][fd].used => fds[t][fd].offset = h.from + Len(h.bytes)
      /\ h.bytes # << >> => fds[t][fd].offset <= tree[h.node].size

(* shell.c:88, vfs.c:99: as long as the heap has memory for the reads that are left, cat
   goes on until it has printed the whole file, whatever the buffer's size leaves for
   the last read; without it, cat may end in the middle of the file.  Either way it comes
   back to the prompt and leaves its descriptor free for the next one (syscall.c:101). *)
Unread == LET h == history[KernelIo][cat] IN tree[h.node].size - Len(h.bytes)
Enough == Unread <= Chunk * memory
Ended == history[KernelIo][cat].from = 0 /\ ~fds'[KernelIo][cat].used /\ (Enough => Unread = 0)
CatPrints == /\ [][cat # 0 => IF cat' = 0 THEN Ended ELSE Enough => Enough']_vars
             /\ cat # 0 ~> cat = 0
=============================================================================
