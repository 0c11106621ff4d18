------------------------------- MODULE Loader -------------------------------
(***************************************************************************)
(* exec/elf.c, exec/loader.c and process.c: process_exec, which a shell    *)
(* command calls inside the keyboard's interrupt.  It takes up to five     *)
(* blocks from Heap, one step each: the image, the process, its stack, its *)
(* address space and its table.  Nothing else runs meanwhile, but the main *)
(* loop may stand in the middle of a kmalloc of its own.  Once a process   *)
(* is made the command waits for its end: the process has the processor    *)
(* and the kernel does not get it back (see Scheduler).                    *)
(*                                                                         *)
(* A file is a sequence of bytes.  Its headers are what Elf says of its    *)
(* first byte; a file whose first byte is in no header is not a program.   *)
(* Programs are well formed: their segments are apart and contain the      *)
(* entry, sums do not wrap around.  A file may be shorter than its headers *)
(* say.                                                                    *)
(***************************************************************************)
EXTENDS Heap, SequencesExt, FiniteSetsExt

CONSTANTS Elf,         \* first byte of a program |-> its headers
          Zero,        \* the byte 0
          MaxAddress,  \* no address of a program is above
          Page, ProcessSize, StackSize, SpaceSize, TableSize,
          MaxOthers    \* bound on their blocks

SegmentOf(h) == {h.phdrs[i] : i \in {j \in DOMAIN h.phdrs : h.phdrs[j].type = "LOAD"}}
In(v, s) == s.vaddr <= v /\ v < s.vaddr + s.memsz
ASSUME LoaderAssumption ==
  /\ {Page, ProcessSize, StackSize, SpaceSize, TableSize} \subseteq Nat \ {0}
  /\ {MaxAddress, MaxOthers} \subseteq Nat
  /\ \A b \in DOMAIN Elf :
       /\ \A s \in SegmentOf(Elf[b]) : /\ {s.offset, s.vaddr, s.filesz, s.memsz} \subseteq Nat
                                       /\ s.filesz <= s.memsz /\ 0 < s.memsz
                                       /\ s.vaddr + s.memsz <= MaxAddress
                                       /\ \A t \in SegmentOf(Elf[b]) \ {s} : ~In(s.vaddr, t)
       /\ Elf[b].entry \in Nat
       /\ SegmentOf(Elf[b]) # {} => \E s \in SegmentOf(Elf[b]) : In(Elf[b].entry, s)

VARIABLES load,  \* process_exec under way
          proc   \* what scheduler_add was given

loaderVars == <<vars, load, proc>>

NoLoad == [pc |-> "idle", file |-> << >>, base |-> 0, image |-> << >>, entry |-> 0, stack |-> 0]
NoProc == [file |-> << >>, base |-> 0, image |-> << >>, entry |-> 0, stack |-> 0, space |-> 0]

LoaderTypeOK ==
  /\ TypeOK
  /\ load.pc \in {"idle", "process", "stack", "space", "table", "wait"}
  /\ load.base \in 0 .. Limit /\ load.stack \in 0 .. Limit /\ load.entry \in Nat
  /\ proc.space \in 0 .. Limit /\ (load.pc = "wait" <=> proc # NoProc)

LoaderInit == Init /\ load = NoLoad /\ proc = NoProc

-----------------------------------------------------------------------------
(* elf_validate and elf_read_phdr; the bounds of the segments *)
IsElf(file) == file # << >> /\ file[1] \in DOMAIN Elf
Segments(file) == SegmentOf(Elf[file[1]])
Loadable(file) == IsElf(file) /\ Segments(file) # {}
MinVaddr(file) == Min({s.vaddr : s \in Segments(file)})
MaxVaddr(file) == Max({s.vaddr + s.memsz : s \in Segments(file)})
ImageSize(file) == ((MaxVaddr(file) - MinVaddr(file) + Page - 1) \div Page) * Page

(* every segment's bytes are in the file *)
Complete(file) == \A s \in Segments(file) : s.offset + s.filesz <= Len(file)

ByOffset(file) == \* a bug: a segment's place in the image is its place in the file
  [n \in 1 .. ImageSize(file) |->
     IF \E s \in Segments(file) : n - 1 >= s.offset /\ n - 1 < s.offset + s.filesz THEN file[n] ELSE Zero]
(* the image: zeroed, then each segment copied to its place *)
Image(file) ==
  [n \in 1 .. ImageSize(file) |->
     LET v == MinVaddr(file) + n - 1
         from == {s \in Segments(file) : s.vaddr <= v /\ v < s.vaddr + s.filesz}
     IN  IF from = {} THEN Zero
         ELSE LET s == CHOOSE s \in from : TRUE IN file[s.offset + (v - s.vaddr) + 1]]

(* kmalloc of the command, or what happens without *)
Kmalloc(n) == ShellAlloc(n)
NoMemory(n) == ~Fits(heap_ptr, AlignUpSize(n)) /\ UNCHANGED vars
Quit == load' = NoLoad /\ UNCHANGED proc
Goto(step) == load' = [load EXCEPT !.pc = step] /\ UNCHANGED proc

(* elf_load_from_buffer; of a file that is too short the image stays allocated *)
Exec(file) ==
  /\ enabled /\ load.pc = "idle"
  /\ Loadable(file)
  /\ \/ NoMemory(ImageSize(file)) /\ Quit
     \/ /\ Kmalloc(ImageSize(file))
        /\ IF Complete(file)
           THEN load' = [pc |-> "process", file |-> file, base |-> heap_ptr, image |-> Image(file),
                         entry |-> heap_ptr + (Elf[file[1]].entry - MinVaddr(file)), stack |-> 0]
           ELSE load' = NoLoad
        /\ UNCHANGED proc

(* process_create: the process and its stack *)
AllocProcess == /\ load.pc = "process"
                /\ \/ NoMemory(ProcessSize) /\ Quit
                   \/ Kmalloc(ProcessSize) /\ Goto("stack")
StackUnchecked == \* a bug: a process without a stack is made all the same
  /\ load.pc = "stack"
  /\ \/ NoMemory(StackSize) /\ Goto("space")
     \/ /\ Kmalloc(StackSize)
        /\ load' = [load EXCEPT !.pc = "space", !.stack = heap_ptr]
        /\ UNCHANGED proc
AllocStack == /\ load.pc = "stack"
              /\ \/ NoMemory(StackSize) /\ Quit
                 \/ /\ Kmalloc(StackSize)
                    /\ load' = [load EXCEPT !.pc = "space", !.stack = heap_ptr]
                    /\ UNCHANGED proc

(* the rest of process_create and of process_exec; space is the address of the table *)
Create(space) ==
  /\ proc' = [file |-> load.file, base |-> load.base, image |-> load.image,
              entry |-> load.entry, stack |-> load.stack, space |-> space]
  /\ load' = [NoLoad EXCEPT !.pc = "wait"]
(* vmm_create_address_space; without one the process is made all the same *)
AllocSpace == /\ load.pc = "space"
              /\ \/ NoMemory(SpaceSize) /\ Create(0)
                 \/ Kmalloc(SpaceSize) /\ Goto("table")
AllocTable == /\ load.pc = "table"
              /\ \/ NoMemory(TableSize) /\ Create(0)
                 \/ Kmalloc(TableSize) /\ Create(heap_ptr)

Creating == AllocProcess \/ AllocStack \/ AllocSpace \/ AllocTable

(* the boot and the main loop, when no command is under way *)
Others == /\ load.pc = "idle"
          /\ \/ /\ Len(SelectSeq(blocks, LAMBDA b : b.owner # "shell")) < MaxOthers
                /\ \E n \in Request : BootAlloc(n) \/ MainLoad(n)
             \/ Enable \/ MainFail \/ MainStore
          /\ UNCHANGED <<load, proc>>
=============================================================================
