-------------------------------- MODULE Fat32 --------------------------------
(***************************************************************************)
(* fs/fat32.c: the mount, a walk of the disk that copies every directory   *)
(* and every file into the memory file system.                             *)
(*                                                                         *)
(* A disk is its cluster chains and what its clusters hold.  The recursion *)
(* of fat_process_directory is a stack of frames, each with a buffer that  *)
(* holds one cluster of its directory.  A byte of a file is its cluster    *)
(* and its place there; what is never read into a buffer of the heap is    *)
(* Stale.  Disk has the reads, sector by sector.  found is what the mount made of the memory file system: a path  *)
(* is the sequence of names below the mount point.  Any read and any       *)
(* allocation may fail; trouble (not in the code) says that one did.       *)
(***************************************************************************)
EXTENDS Integers, Sequences, SequencesExt, FiniteSetsExt

CONSTANTS Disks,       \* set of disks
          SectorBytes, \* bytes of a file in a sector
          MaxDepth     \* frames that fit the kernel's stack

EndOfChain == 0
ThisDir == "."
ParentDir == ".."
Kind == {"END", "DELETED", "LONG", "FILE", "DIR"}

(* entries: of the directories' clusters.  Chains lead from cluster to cluster.
   EndOfChain stands for the marks from 0x0FFFFFF8 on, and in an entry for the 0 of
   a directory without clusters. *)
Clusters(disk) == DOMAIN disk.fat
RootCluster(disk) == IF disk.root = 0 THEN 2 ELSE disk.root
DiskAssumption ==
  /\ SectorBytes \in Nat \ {0} /\ MaxDepth \in Nat \ {0}
  /\ \A disk \in Disks :
       /\ Clusters(disk) \subseteq Nat \ {EndOfChain, 1} /\ RootCluster(disk) \in DOMAIN disk.entries
       /\ disk.sectors_per_cluster \in Nat \ {0}
       /\ disk.fat \in [Clusters(disk) -> Clusters(disk) \cup {EndOfChain}]
       /\ \E last \in Clusters(disk) : \A c \in Clusters(disk) : c <= last
       /\ DOMAIN disk.entries \subseteq Clusters(disk)
       /\ \A c \in DOMAIN disk.entries : disk.fat[c] \in DOMAIN disk.entries \cup {EndOfChain}
       /\ \A c \in DOMAIN disk.entries : disk.entries[c] \in Seq(ToSet(disk.entries[c]))
       /\ \A c \in DOMAIN disk.entries : \A e \in ToSet(disk.entries[c]) :
            /\ e.kind \in Kind /\ e.size \in Nat
            /\ e.kind = "DIR" => e.first \in DOMAIN disk.entries \cup {EndOfChain}
            /\ e.kind = "FILE" /\ e.size > 0 => e.first \in Clusters(disk)

VARIABLES disk,    \* the one that is mounted
          phase,   \* of the mount
          frames,  \* of fat_process_directory, the innermost last
          found,   \* nodes of the memory file system
          trouble

vars == <<disk, phase, frames, found, trouble>>

Stale == <<0, 0>>
Byte == (Nat \X Nat) \cup {Stale}
Mount == << >> \* the path of the mount point

TypeOK ==
  /\ disk \in Disks
  /\ phase \in {"start", "walk", "done", "failed", "overflow"}
  /\ Len(frames) <= MaxDepth
  /\ \A i \in DOMAIN frames :
       /\ frames[i].cluster \in DOMAIN disk.entries
       /\ frames[i].loaded \in BOOLEAN /\ frames[i].index \in Nat \ {0}
  /\ \A n \in found : /\ n.kind \in {"FILE", "DIR"} /\ n.data \in Seq(Byte)
                      /\ \A m \in found : m.path = n.path => m = n
  /\ trouble \in BOOLEAN

Init == /\ disk \in Disks
        /\ phase = "start" /\ frames = << >> /\ found = {} /\ trouble = FALSE

-----------------------------------------------------------------------------
(* The memory file system: a node is made below a directory that is there.  *)
(* A node whose name finds no memory is never found again (see Vfs) and is  *)
(* left out.                                                               *)

IsDir(path) == \E n \in found : n.path = path /\ n.kind = "DIR"
Node(path, kind, data) == [path |-> path, kind |-> kind, data |-> data]
Room(path) == path = Mount \/ IsDir(Front(path))

(* vfs_create of a directory; that it fails is not noticed *)
MakeDir(path) ==
  \/ /\ found' = found \cup IF Room(path) /\ \A n \in found : n.path # path
                            THEN {Node(path, "DIR", << >>)} ELSE {}
     /\ UNCHANGED trouble
  \/ UNCHANGED found /\ trouble' = TRUE

(* vfs_write_file likewise *)
WriteFile(path, data) ==
  {n \in found : n.path # path \/ n.kind = "DIR"}
    \cup IF Room(path) /\ ~IsDir(path) THEN {Node(path, "FILE", data)} ELSE {}

-----------------------------------------------------------------------------
(* fat_read_file_clusters: the clusters it reads, following the chain from
   first, at most n of them. *)
Contiguous(first, n) == \* a bug: the clusters of a file follow one another
  SelectSeq([i \in 1 .. n |-> first + i - 1], LAMBDA c : c \in Clusters(disk))
Chain(first, n) ==
  LET walk[i \in 1 .. n] == IF i = 1 THEN first
                            ELSE LET before == walk[i - 1]
                                 IN  IF before = EndOfChain THEN before ELSE disk.fat[before]
  IN  [i \in {i \in 1 .. n : walk[i] # EndOfChain} |-> walk[i]]

ClusterBytes == disk.sectors_per_cluster * SectorBytes
OneShort(size) == size \div ClusterBytes \* a bug: the last cluster is not counted when it is not full
ClustersNeeded(size) == (size + ClusterBytes - 1) \div ClusterBytes

(* the first size bytes of the buffer when the first n sectors of the clusters came in *)
Contents(chain, n, size) ==
  [i \in 1 .. size |-> IF i > n * SectorBytes THEN Stale
                       ELSE <<chain[(i - 1) \div ClusterBytes + 1], (i - 1) % ClusterBytes>>]

-----------------------------------------------------------------------------
(* fat_process_directory.                                                  *)

Frame(cluster, path) == [cluster |-> cluster, path |-> path, loaded |-> FALSE, index |-> 1]
Top == Last(frames)
SetTop(f) == Append(Front(frames), f)

(* It returns; only the first call's result matters. *)
Return(ok) ==
  /\ frames' = Front(frames)
  /\ phase' = IF Len(frames) > 1 THEN phase ELSE IF ok THEN "done" ELSE "failed"

(* fat32_mount_partition up to the walk *)
Begin == /\ phase = "start"
         /\ phase' = "walk" /\ frames' = <<Frame(RootCluster(disk), Mount)>>
         /\ MakeDir(Mount)
         /\ UNCHANGED disk

(* the boot sector or the table cannot be read, is not one, or does not fit *)
BeginFails == /\ phase = "start"
              /\ phase' = "failed" /\ trouble' = TRUE
              /\ UNCHANGED <<disk, frames, found>>

LoadCluster == /\ phase = "walk" /\ ~Top.loaded
               /\ frames' = SetTop([Top EXCEPT !.loaded = TRUE, !.index = 1])
               /\ UNCHANGED <<disk, phase, found, trouble>>
(* a read error, or no memory for the buffer *)
LoadFails == /\ phase = "walk" /\ ~Top.loaded
             /\ Return(FALSE)
             /\ trouble' = TRUE
             /\ UNCHANGED <<disk, found>>

Entry == disk.entries[Top.cluster][Top.index]
AtEntry == /\ phase = "walk" /\ Top.loaded
           /\ Top.index \in DOMAIN disk.entries[Top.cluster]
           /\ Entry.kind # "END"
EntryPath == Append(Top.path, Entry.name)
Advanced == SetTop([Top EXCEPT !.index = @ + 1])

SkipEntry == /\ AtEntry /\ Entry.kind \in {"DELETED", "LONG"}
             /\ frames' = Advanced
             /\ UNCHANGED <<disk, phase, found, trouble>>

(* A directory: also the entries "." and "..", which are directories.  "." is the
   directory again, with a longer path, until the stack (or the 256 bytes of
   fullpath) are used up; that its path means the directory itself is left out. *)
EnterDir == /\ AtEntry /\ Entry.kind = "DIR"
            /\ MakeDir(EntryPath)
            /\ IF Entry.first = EndOfChain THEN frames' = Advanced /\ UNCHANGED phase
               ELSE IF Len(frames) = MaxDepth THEN phase' = "overflow" /\ UNCHANGED frames
               ELSE frames' = Append(Advanced, Frame(Entry.first, EntryPath)) /\ UNCHANGED phase
            /\ UNCHANGED disk

(* A file: a read error is ignored, and the n sectors that came in before it are
   written. *)
FileChain == Chain(Entry.first, ClustersNeeded(Entry.size))
FileSectors == Len(FileChain) * disk.sectors_per_cluster
CopyFile(n) ==
  /\ AtEntry /\ Entry.kind = "FILE"
  /\ frames' = Advanced
  /\ found' = WriteFile(EntryPath, Contents(FileChain, n, Entry.size))
  /\ trouble' = (trouble \/ n < FileSectors)
  /\ UNCHANGED <<disk, phase>>
(* no memory for its buffer or its node, or for the data of a node that is made *)
SkipFile == /\ AtEntry /\ Entry.kind = "FILE"
            /\ frames' = Advanced
            /\ trouble' = TRUE
            /\ \/ UNCHANGED found
               \/ /\ Room(EntryPath) /\ \A n \in found : n.path # EntryPath
                  /\ found' = found \cup {Node(EntryPath, "FILE", << >>)}
            /\ UNCHANGED <<disk, phase>>

(* the end of a cluster *)
NextCluster == /\ phase = "walk" /\ Top.loaded /\ ~AtEntry
               /\ LET next == disk.fat[Top.cluster]
                  IN  IF next = EndOfChain THEN Return(TRUE)
                      ELSE frames' = SetTop(Frame(next, Top.path)) /\ UNCHANGED phase
               /\ UNCHANGED <<disk, found, trouble>>

Next == \/ Begin \/ BeginFails
        \/ LoadCluster \/ LoadFails
        \/ SkipEntry \/ EnterDir \/ SkipFile
        \/ AtEntry /\ \E n \in 0 .. FileSectors : CopyFile(n)
        \/ NextCluster

(* It is boot code: nothing else runs. *)
Spec == Init /\ [][Next]_vars /\ WF_vars(Next)

-----------------------------------------------------------------------------
(* What the disk says, without the walk: the clusters of each directory, and
   the entries in use, each with the path of its directory. *)
Reached(c) == LET r[i \in 0 .. Cardinality(Clusters(disk))] ==
                    IF i = 0 THEN {c}
                    ELSE LET before == r[i - 1] IN before \cup {disk.fat[d] : d \in before \ {EndOfChain}}
              IN  r[Cardinality(Clusters(disk))] \ {EndOfChain}
Entries(c) == UNION {ToSet(disk.entries[d]) : d \in Reached(c)}
Used(c) == {e \in Entries(c) : e.kind \in {"FILE", "DIR"}}
Dirs == LET at[i \in 0 .. MaxDepth] ==
              IF i = 0 THEN {<<Mount, RootCluster(disk)>>}
              ELSE UNION {{<<Append(d[1], e.name), e.first>> :
                             e \in {e \in Used(d[2]) : e.kind = "DIR" /\ e.first # EndOfChain}} : d \in at[i - 1]}
        IN  UNION {at[i] : i \in 0 .. MaxDepth}
HasDots == \E c \in DOMAIN disk.entries : \E e \in Entries(c) : e.name \in {ThisDir, ParentDir}
Acyclic == \A c \in Clusters(disk) : c \notin Reached(disk.fat[c])

(* the byte at place i of a file, which is Stale when its chain ends before *)
OnDisk(e, i) ==
  LET at[k \in 0 .. e.size] == IF k = 0 THEN e.first
                               ELSE LET before == at[k - 1]
                                    IN  IF before = EndOfChain THEN before ELSE disk.fat[before]
      cluster == at[(i - 1) \div ClusterBytes]
  IN  IF cluster = EndOfChain THEN Stale ELSE <<cluster, (i - 1) % ClusterBytes>>

(* Whatever failed: a node is that of an entry in use, and a file is empty or has
   the size of its entry and at every place the byte of the disk, or one that never
   arrived. *)
NothingInvented == ~HasDots => \A n \in found \ {Node(Mount, "DIR", << >>)} :
  \E d \in Dirs : \E e \in Used(d[2]) :
    /\ n.path = Append(d[1], e.name) /\ n.kind = e.kind
    /\ n.kind = "FILE" /\ n.data # << >> =>
         /\ Len(n.data) = e.size
         /\ \A i \in 1 .. e.size : n.data[i] \in {Stale, OnDisk(e, i)}

(* Directories as they are written: the names in use differ, and behind an end mark
   nothing is in use in its cluster. *)
Formatted == \A c \in DOMAIN disk.entries :
  /\ \A e, f \in Used(c) : e.name = f.name => e = f
  /\ \A i, j \in DOMAIN disk.entries[c] : disk.entries[c][i].kind = "END" /\ i < j
       => disk.entries[c][j].kind \notin {"FILE", "DIR"}

(* A mount of such a disk in which nothing failed has every directory and file of it,
   and all of their bytes. *)
Mirrors == Formatted /\ phase = "done" /\ ~trouble =>
  \A d \in Dirs : \A e \in Used(d[2]) :
    Node(Append(d[1], e.name), e.kind, IF e.kind = "FILE" THEN [i \in 1 .. e.size |-> OnDisk(e, i)] ELSE << >>)
      \in found

(* fat32.c:11: the mount "loads directory entries and file contents"; it does
   not run out of stack on a disk as formatters make it. *)
LoadsDisk == Acyclic => phase # "overflow"
=============================================================================
