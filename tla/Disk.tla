-------------------------------- MODULE Disk --------------------------------
(***************************************************************************)
(* kernel_main from ata_init to the end of the mount: the ATA driver       *)
(* (drivers/ata), the choice of the partition (fs/mbr.c), the boot sector  *)
(* and the table (fs/fat32.c), and the walk of Fat32, each of whose reads  *)
(* is here a job of the driver, sector by sector.                          *)
(*                                                                         *)
(* The registers of a drive hold the digits of a sector's number; Radix    *)
(* and Heads are 256 and 16.  The drive is external: it answers every      *)
(* command with data or an error; with nothing attached the status reads   *)
(* as 0, or as 0xFF where the bus floats.  What the sectors of a disk hold *)
(* is stated as the layout of its partition, not by the driver's sums.     *)
(***************************************************************************)
EXTENDS Fat32

CONSTANTS Radix, Heads

DriveState == {"absent", "floating", "idle", "busy", "data", "error"}

VARIABLES at,    \* where kernel_main is
          drv,   \* the driver's loop
          regs,  \* the drive's address registers
          drive, \* external
          job    \* sectors to read, what came in, and (not in the code) what was meant

fatVars == <<disk, phase, frames, found, trouble>>
ataVars == <<drv, regs, drive, job>>
diskVars == <<fatVars, at, ataVars>>

FatTypes == {11, 12}
Fats(d) == {i \in DOMAIN d.table : d.table[i].type \in FatTypes}
LayoutAssumption ==
  /\ DiskAssumption
  /\ Radix \in Nat \ {0} /\ Heads \in Nat \ {0}
  /\ \A d \in Disks :
       /\ d.signature \in BOOLEAN /\ DOMAIN d.table \subseteq 1 .. 4
       /\ \A i \in DOMAIN d.table : d.table[i].type \in 0 .. 255 /\ d.table[i].start \in Nat
       /\ {d.reserved, d.num_fats, d.fat_size, d.start} \subseteq Nat \ {0}
       /\ Fats(d) # {} => \E i \in Fats(d) : d.table[i].start = d.start /\ \A j \in Fats(d) : i <= j

DiskTypeOK ==
  /\ TypeOK
  /\ at \in {"identify", "selftest", "mbr", "boot sector", "fat", "walk", "load", "file", "end"}
  /\ drv \in {"idle", "first", "identify", "poll", "transfer"}
  /\ regs.lba0 \in 0 .. Radix - 1 /\ regs.lba1 \in 0 .. Radix - 1 /\ regs.lba2 \in 0 .. Radix - 1
  /\ regs.head \in 0 .. Heads - 1
  /\ drive \in DriveState
  /\ job.todo \in Seq(Nat) /\ job.ok \in BOOLEAN

NoJob == [todo |-> << >>, got |-> << >>, want |-> << >>, ok |-> TRUE]

DiskInit == /\ Init
            /\ at = "identify" /\ drv = "idle"
            /\ drive \in {"absent", "floating", "idle"}
            /\ regs = [lba0 |-> 0, lba1 |-> 0, lba2 |-> 0, head |-> 0]
            /\ job = NoJob

-----------------------------------------------------------------------------
(* What a disk holds: the partition begins at disk.start with its reserved
   sectors, the first of them the boot sector; copies of the table; clusters. *)
ClusterTags(c) == [s \in 1 .. disk.sectors_per_cluster |-> <<"cluster", c, s>>]
TableTags(copy) == [s \in 1 .. disk.fat_size |-> <<"table", copy, s>>]
Partition == [s \in 1 .. disk.reserved |-> <<"reserved", 0, s>>]
               \o FlattenSeq([k \in 1 .. disk.num_fats |-> TableTags(k)])
               \o FlattenSeq([k \in 1 .. Max(Clusters(disk)) - 1 |-> ClusterTags(k + 1)])
BootRecord == <<"boot record", 0, 0>>
SectorAt(lba) == CASE lba = 0 -> BootRecord
                   [] lba - disk.start + 1 \in DOMAIN Partition -> Partition[lba - disk.start + 1]
                   [] OTHER -> <<"elsewhere", 0, lba>>

-----------------------------------------------------------------------------
(* The ATA driver.                                                         *)

Start(todo, want) == job' = [todo |-> todo, got |-> << >>, want |-> want, ok |-> TRUE]
Finished == drv = "idle" /\ (job.todo = << >> \/ ~job.ok)
Command == drive' = IF drive = "floating" THEN drive ELSE "busy"

(* What is wrong before the walk ends the mount with nothing made. *)
Stop == at' = "end" /\ BeginFails
(* ... and what a job read is used up. *)
Consumed == job' = NoJob /\ UNCHANGED <<drv, regs, drive>>

(* ata_init: no status, no drive *)
Identify == /\ at = "identify" /\ drv = "idle"
            /\ IF drive = "absent"
               THEN Stop /\ UNCHANGED ataVars
               ELSE drv' = "first" /\ Command /\ UNCHANGED <<fatVars, at, regs, job>>
(* ... then the drive is registered: data, or an error that is there at once, or a
   floating bus *)
Register == /\ at' = "selftest" /\ drv' = "idle"
            /\ drive' = IF drive = "floating" THEN drive ELSE "idle"
            /\ Start(<<0>>, <<BootRecord>>)
            /\ UNCHANGED <<fatVars, regs>>
FirstStatus == /\ at = "identify" /\ drv = "first"
               /\ \/ drive \in {"data", "error", "floating"} /\ Register
                  \/ drive = "busy" /\ drv' = "identify" /\ UNCHANGED <<fatVars, at, regs, drive, job>>
Identified == /\ at = "identify" /\ drv = "identify"
              /\ \/ drive = "data" /\ Register
                 \/ drive = "error" /\ drv' = "idle" /\ Stop /\ UNCHANGED <<regs, drive, job>>

Registers(lba) == [lba0 |-> lba % Radix, lba1 |-> (lba \div Radix) % Radix,
                   lba2 |-> (lba \div (Radix * Radix)) % Radix, head |-> (lba \div (Radix * Radix * Radix)) % Heads]
Address(r) == r.lba0 + Radix * (r.lba1 + Radix * (r.lba2 + Radix * r.head))

(* ata_read_sector up to the command *)
Issue == LET lba == Head(job.todo) IN
  /\ drv = "idle" /\ job.todo # << >> /\ job.ok
  /\ IF lba >= Radix * Radix * Radix * Heads
     THEN job' = [job EXCEPT !.ok = FALSE] /\ UNCHANGED <<drv, regs, drive>>
     ELSE drv' = "poll" /\ regs' = Registers(lba) /\ Command /\ UNCHANGED job
  /\ UNCHANGED <<fatVars, at>>
NotSeen == \* a bug: the driver waits for data whatever the status says
  FALSE /\ UNCHANGED diskVars
(* ata_poll_status, an error *)
PollError == /\ drv = "poll" /\ drive = "error"
             /\ drv' = "idle" /\ drive' = "idle"
             /\ job' = [job EXCEPT !.ok = FALSE]
             /\ UNCHANGED <<fatVars, at, regs>>
PollReady == /\ drv = "poll" /\ drive = "data"
             /\ drv' = "transfer"
             /\ UNCHANGED <<fatVars, at, regs, drive, job>>
Transfer == /\ drv = "transfer"
            /\ drv' = "idle" /\ drive' = "idle"
            /\ job' = [job EXCEPT !.todo = Tail(@), !.got = Append(@, SectorAt(Address(regs)))]
            /\ UNCHANGED <<fatVars, at, regs>>

(* external *)
Answer == /\ drive = "busy"
          /\ drive' \in {"data", "error"}
          /\ UNCHANGED <<fatVars, at, drv, regs, job>>

-----------------------------------------------------------------------------
(* ata_selftest_sector0, of which only the message depends on the result *)
Selftested == /\ at = "selftest" /\ Finished
              /\ at' = "mbr" /\ Start(<<0>>, <<BootRecord>>)
              /\ UNCHANGED <<fatVars, drv, regs, drive>>

(* mbr_find_fat32_partition *)
FatEntries == Fats(disk)
PartitionLba == disk.table[Min(FatEntries)].start
FindPartition == /\ at = "mbr" /\ Finished
                 /\ IF job.ok /\ disk.signature /\ FatEntries # {}
                    THEN /\ at' = "boot sector"
                         /\ Start(<<PartitionLba>>, <<Partition[1]>>)
                         /\ UNCHANGED <<fatVars, drv, regs, drive>>
                    ELSE Stop /\ Consumed

FromZero(c) == \* a bug: clusters are counted from 0
  PartitionLba + disk.reserved + disk.num_fats * disk.fat_size + c * disk.sectors_per_cluster
(* first_sector_of_cluster *)
FirstSector(c) ==
  PartitionLba + disk.reserved + disk.num_fats * disk.fat_size + (c - 2) * disk.sectors_per_cluster
Sectors(c) == [s \in 1 .. disk.sectors_per_cluster |-> FirstSector(c) + s - 1]

(* fat32_mount_partition and fat_load_fat; the table may find no memory *)
LoadTable == /\ at = "boot sector" /\ Finished /\ job.ok
             /\ at' = "fat"
             /\ Start([s \in 1 .. disk.fat_size |-> PartitionLba + disk.reserved + s - 1], TableTags(1))
             /\ UNCHANGED <<fatVars, drv, regs, drive>>
NoTable == /\ at = "boot sector" /\ Finished
           /\ Stop /\ Consumed
BeginWalk == /\ at = "fat" /\ Finished
             /\ IF job.ok THEN at' = "walk" /\ Begin ELSE Stop
             /\ Consumed

(* fat_process_directory, with the reads of fat_read_file_clusters *)
ReadDirectory == /\ at = "walk" /\ phase = "walk" /\ ~Top.loaded
                 /\ at' = "load"
                 /\ Start(Sectors(Top.cluster), ClusterTags(Top.cluster))
                 /\ UNCHANGED <<fatVars, drv, regs, drive>>
DirectoryRead == /\ at = "load" /\ Finished
                 /\ at' = "walk"
                 /\ IF job.ok THEN LoadCluster ELSE LoadFails
                 /\ Consumed
ReadFile == /\ at = "walk" /\ AtEntry /\ Entry.kind = "FILE"
            /\ at' = "file"
            /\ Start(FlattenSeq([i \in DOMAIN FileChain |-> Sectors(FileChain[i])]),
                     FlattenSeq([i \in DOMAIN FileChain |-> ClusterTags(FileChain[i])]))
            /\ UNCHANGED <<fatVars, drv, regs, drive>>
FileRead == /\ at = "file" /\ Finished
            /\ at' = "walk"
            /\ CopyFile(Len(job.got))
            /\ Consumed
(* what needs no read, or finds no memory for its buffer *)
WalkOn == /\ at = "walk"
          /\ SkipEntry \/ EnterDir \/ SkipFile \/ NextCluster \/ LoadFails
          /\ UNCHANGED <<at, ataVars>>

Driver == Identify \/ FirstStatus \/ Identified \/ Issue \/ PollError \/ PollReady \/ Transfer
Mounting == \/ Selftested \/ FindPartition \/ LoadTable \/ NoTable \/ BeginWalk
            \/ ReadDirectory \/ DirectoryRead \/ ReadFile \/ FileRead \/ WalkOn
DiskNext == Driver \/ Mounting \/ Answer

(* Boot code, which nothing interrupts; a drive answers. *)
DiskSpec == DiskInit /\ [][DiskNext]_diskVars /\ WF_diskVars(Driver \/ Mounting) /\ WF_diskVars(Answer)

-----------------------------------------------------------------------------
(* fat32.c:35, ata.c:113: what is read is what was meant: the boot record, the
   first copy of the table, the sectors of the cluster, in order. *)
RightSectors == IsPrefix(job.got, job.want)

(* The boot goes on behind the mount, unless the bus floats (ata.c:57 then waits
   for ever), or the disk has a circle or the entries "." and "..". *)
BootEnds == drive # "floating" /\ ~HasDots /\ Acyclic ~> phase \in {"done", "failed"}
=============================================================================
