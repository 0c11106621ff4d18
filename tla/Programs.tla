------------------------------ MODULE Programs ------------------------------
(***************************************************************************)
(* From the disk to a process: kernel_main mounts the disk (Disk) and      *)
(* enables interrupts; from then on shell commands execute the files that  *)
(* the mount made (Loader), while the main loop allocates windows (Heap).  *)
(* What the boot takes from the heap is one block here, and how its own    *)
(* allocations fail is Fat32's choice.                                     *)
(***************************************************************************)
EXTENDS Loader

CONSTANTS Disks, SectorBytes, MaxDepth, Radix, Heads
VARIABLES disk, phase, frames, found, trouble, at, drv, regs, drive, job

D == INSTANCE Disk
bootVars == <<disk, phase, frames, found, trouble, at, drv, regs, drive, job>>
allVars == <<loaderVars, bootVars>>

ASSUME VolumeAssumption == D!LayoutAssumption
ASSUME ByteAssumption == Zero # D!Stale

ProgramsInit == LoaderInit /\ D!DiskInit

Boot == D!DiskNext /\ UNCHANGED loaderVars
BootCode == (D!Driver \/ D!Mounting) /\ UNCHANGED loaderVars
Answer == D!Answer /\ UNCHANGED loaderVars

(* process_exec of a path: a file of the mounted disk *)
Run == /\ \E n \in found : n.kind = "FILE" /\ Exec(n.data)
       /\ UNCHANGED bootVars
AfterBoot == /\ phase \in {"done", "failed"}
             /\ Others \/ Creating
             /\ UNCHANGED bootVars

ProgramsNext == Boot \/ Run \/ AfterBoot
ProgramsSpec == /\ ProgramsInit /\ [][ProgramsNext]_allVars
                /\ WF_allVars(BootCode) /\ WF_allVars(Answer)

-----------------------------------------------------------------------------
(* The types; heap_ptr stays in the heap, the registers of the drive in their width. *)
ProgramsTypeOK == LoaderTypeOK /\ D!DiskTypeOK

(* fat32.c:35, ata.c:113: what is read is what was meant: the boot record, the
   first copy of the table, the sectors of the cluster, in order. *)
RightSectors == D!RightSectors

(* fat32.c:141: a node is that of an entry in use, with that entry's bytes or ones
   that never arrived. *)
NothingInvented == D!NothingInvented

(* fat32.c:96: a mount in which nothing failed has every directory and file, and
   all of their bytes, if the directories are written as formatters write them. *)
Mirrors == D!Mirrors

(* ata.c:57, fat32.c:147: the boot goes on behind the mount, unless the bus floats
   or the disk has a circle or the entries "." and "..". *)
BootEnds == D!BootEnds

(* fat32.c:11: the mount "loads directory entries and file contents"; it does not run
   out of stack on a disk as formatters make it. *)
LoadsDisk == D!LoadsDisk

(* loader.c:46: at every address of a process's segment stands the byte that the
   disk has at that place of the program's file, or one that never arrived, and
   behind it zeros; the entry is where the headers put it. *)
ImageFromDisk == proc # NoProc /\ ~D!HasDots =>
  LET low == MinVaddr(proc.file)
  IN  /\ proc.entry - proc.base = Elf[proc.file[1]].entry - low
      /\ \E d \in D!Dirs : \E e \in D!Used(d[2]) :
           /\ e.kind = "FILE" /\ e.size = Len(proc.file)
           /\ \A s \in Segments(proc.file) : \A n \in 0 .. s.memsz - 1 :
                IF n < s.filesz THEN proc.image[s.vaddr - low + n + 1] \in {D!OnDisk(e, s.offset + n + 1), D!Stale}
                ELSE proc.image[s.vaddr - low + n + 1] = Zero

(* process.c:26, :95, heap.c:37: whatever allocation fails, a process that is made
   has an image, with its entry, and a stack, which overlap neither each other nor
   what the boot and the main loop were given, even if that store was interrupted. *)
Memory(start, n) == [start |-> start, size |-> n]
WholeProcess == proc # NoProc =>
  LET image == Memory(proc.base, Len(proc.image))
      stack == Memory(proc.stack, StackSize)
  IN  /\ proc.base <= proc.entry /\ proc.entry < proc.base + Len(proc.image)
      /\ Disjoint(image, stack)
      /\ \A m \in {image, stack} :
           /\ \E i \in DOMAIN blocks : blocks[i].start = m.start /\ blocks[i].size >= m.size
           /\ \A i \in DOMAIN blocks : blocks[i].owner # "shell" => Disjoint(blocks[i], m)
=============================================================================
