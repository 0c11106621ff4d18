--------------------------------- MODULE Pmm ---------------------------------
(***************************************************************************)
(* kernel/memory/pmm.c: the physical frame allocator, a bounded, unordered *)
(* table of free regions built from the Multiboot memory map.              *)
(*                                                                         *)
(* Addresses are numbers; a frame is named by its address.  The callers'   *)
(* side is the set of frames they were given and have not returned:        *)
(* pmm.h asks to free only what was allocated.  No 64-bit address wraps:   *)
(* the map describes memory that exists.                                   *)
(***************************************************************************)
EXTENDS MemoryMap, SequencesExt, FiniteSets

CONSTANTS PageSize,      \* PAGE_SIZE
          MaxRegions,    \* MAX_FREE_REGIONS, 64 in the source
          LowTop,        \* end of the low memory left alone, 1 MiB in the source
          KStart, KEnd,  \* kernel image and heap, [KStart, KEnd)
          MaxAlloc       \* bound on the frames asked for in one call

ASSUME PageAssumption == PageSize \in Nat \ {0}
ASSUME RegionsAssumption == MaxRegions \in Nat
ASSUME LayoutAssumption == LowTop \in Nat \ {0} /\ KStart \in Nat /\ KEnd \in Nat /\ KStart <= KEnd
ASSUME MapsAssumption ==
  \A info \in Infos : \A i, j \in DOMAIN info :
    \A k \in DOMAIN info[i].entries, l \in DOMAIN info[j].entries :
      LET d == info[i].entries[k]
          e == info[j].entries[l]
      IN  <<i, k>> # <<j, l>> => d.addr + d.len <= e.addr \/ e.addr + e.len <= d.addr
ASSUME MaxAllocAssumption == MaxAlloc \in Nat

VARIABLES regions,       \* free_regions[0 .. free_count - 1]
          total_memory,
          owned,         \* the frames the callers hold
          lost           \* not in the code: frames that found the table full

pmmVars == <<regions, total_memory, owned, lost>>
vars == <<walkVars, pmmVars>>

Region == [addr : Nat, frames : Nat \ {0}]

TypeOK == /\ tags \in Infos /\ ptr \in Nat /\ ent \in Nat
          /\ regions \in Seq(Region) /\ Len(regions) <= MaxRegions
          /\ total_memory \in Nat
          /\ owned \subseteq Nat /\ lost \subseteq Nat

Init == /\ WalkInit
        /\ regions = << >>
        /\ total_memory = 0
        /\ owned = {} /\ lost = {}

-----------------------------------------------------------------------------
(* The table.                                                              *)

RegionEnd(r) == r.addr + r.frames * PageSize
Block(start, n) == {start + k * PageSize : k \in 0 .. n - 1}
FramesOf(r) == Block(r.addr, r.frames)
FreeFrames == UNION {FramesOf(regions[i]) : i \in DOMAIN regions}

AlignDown(a) == (a \div PageSize) * PageSize
AlignUp(a) == ((a + PageSize - 1) \div PageSize) * PageSize

(* The loop add_free_region and pmm_free_frame share: the first region that
   begins where the block ends, or ends where the block begins, grows; with no
   such region the block gets an entry of its own, and when the table is full
   it is dropped. *)
Grow(rs, start, n) ==
  LET end      == start + n * PageSize
      touching == {i \in DOMAIN rs : rs[i].addr = end \/ RegionEnd(rs[i]) = start}
      i        == Min(touching)
      r        == rs[i]
  IN  [rs EXCEPT ![i] = [addr   |-> IF r.addr = end THEN start ELSE r.addr,
                         frames |-> r.frames + n]]
Touches(rs, start, n) ==
  \E i \in DOMAIN rs : rs[i].addr = start + n * PageSize \/ RegionEnd(rs[i]) = start

Insert(rs, start, n) ==
  IF Touches(rs, start, n) THEN Grow(rs, start, n)
  ELSE IF Len(rs) < MaxRegions THEN Append(rs, [addr |-> start, frames |-> n])
  ELSE rs

(* add_free_region, for [addr, end) *)
AddFreeRegion(rs, addr, end) ==
  LET lo == AlignUp(addr)
      hi == AlignDown(end)
  IN  IF end - addr < PageSize \/ hi <= lo THEN rs
      ELSE Insert(rs, lo, (hi - lo) \div PageSize)

-----------------------------------------------------------------------------
(* pmm_init: one step per entry of the map.                                *)

(* The frames that the map leaves to the allocator: aligned, each wholly in one
   usable entry, above LowTop and outside the kernel and its heap.  (Address 0 is
   below LowTop: a result of 0 is a failure.) *)
UsableIn(e) == {f \in e.addr .. e.addr + e.len - PageSize :
                  /\ e.usable
                  /\ f % PageSize = 0
                  /\ f >= LowTop
                  /\ f + PageSize <= KStart \/ f >= KEnd}

Counted(e) == e.usable /\ e.addr + e.len > LowTop

(* the part of [start, end) that is outside the kernel and its heap *)
AddAroundKernel(rs, start, end) ==
  IF end <= KStart \/ start >= KEnd THEN AddFreeRegion(rs, start, end)
  ELSE LET lower == IF start < KStart THEN AddFreeRegion(rs, start, KStart) ELSE rs
       IN  IF end > KEnd THEN AddFreeRegion(lower, KEnd, end) ELSE lower

(* what was given to the table, which had no place for it *)
Dropped(frames) == lost' = lost \cup IF Len(regions') = MaxRegions THEN frames \ FreeFrames' ELSE {}

(* mmap_callback *)
MmapEntry ==
  /\ NextEntry
  /\ LET e == EntryHere
         start == IF e.addr < LowTop THEN LowTop ELSE e.addr
     IN  IF Counted(e)
         THEN /\ regions' = AddAroundKernel(regions, start, e.addr + e.len)
              /\ total_memory' = total_memory + e.len
              /\ Dropped(UsableIn(e))
         ELSE UNCHANGED <<regions, total_memory, lost>>
  /\ UNCHANGED owned
Walk == (EnterMap \/ NextTag \/ EndTag) /\ UNCHANGED pmmVars

-----------------------------------------------------------------------------
(* Allocation and release, once the map is parsed.                         *)

Ready == Parsed
Fits(n) == {i \in DOMAIN regions : regions[i].frames >= n}

(* First fit: n frames from the start of region i, which leaves the table when
   it has no more. *)
KeepEmpty(i, n) == \* a bug: the table is not compacted
  regions' = [regions EXCEPT ![i] = [addr |-> @.addr + n * PageSize, frames |-> @.frames - n]]
AdvanceOne(i, n) == \* a bug: the start moves by one frame, whatever n
  regions' = IF regions[i].frames = n THEN RemoveAt(regions, i)
             ELSE [regions EXCEPT ![i] = [addr |-> @.addr + PageSize, frames |-> @.frames - n]]
Shrink(i, n) ==
  regions' = IF regions[i].frames = n THEN RemoveAt(regions, i)
             ELSE [regions EXCEPT ![i] = [addr |-> @.addr + n * PageSize, frames |-> @.frames - n]]

Take(n) ==
  /\ Ready /\ Fits(n) # {}
  /\ Shrink(Min(Fits(n)), n)
  /\ owned' = owned \cup Block(regions[Min(Fits(n))].addr, n)
  /\ UNCHANGED <<walkVars, total_memory, lost>>

(* pmm_alloc_frame, pmm_alloc_frames; with nothing that fits they return 0 *)
AllocFrame == Take(1)
AllocFrames(n) == Take(n)

(* pmm_free_frame *)
FreeFrame(f) ==
  /\ Ready /\ f \in owned
  /\ regions' = Insert(regions, f, 1)
  /\ owned' = owned \ {f}
  /\ Dropped({f})
  /\ UNCHANGED <<walkVars, total_memory>>

(* pmm_free_frames *)
FreeBlock(f, n) ==
  /\ Ready /\ Block(f, n) \subseteq owned
  /\ regions' = AddFreeRegion(regions, f, f + n * PageSize)
  /\ owned' = owned \ Block(f, n)
  /\ Dropped(Block(f, n))
  /\ UNCHANGED <<walkVars, total_memory>>

Next == \/ MmapEntry \/ Walk
        \/ AllocFrame
        \/ \E n \in 1 .. MaxAlloc : AllocFrames(n)
        \/ \E f \in owned : FreeFrame(f)
        \/ \E f \in owned, n \in 1 .. MaxAlloc : FreeBlock(f, n)

Spec == Init /\ [][Next]_vars

-----------------------------------------------------------------------------
(* pmm.c:147: however blocks are split, merged and returned, a frame is in one
   place: one region of the table, or a caller, or dropped; it cannot be handed out
   twice. *)
NoDoubleUse ==
  /\ \A i, j \in DOMAIN regions : i # j => FramesOf(regions[i]) \cap FramesOf(regions[j]) = {}
  /\ FreeFrames \cap owned = {}
  /\ lost \cap (FreeFrames \cup owned) = {}

(* pmm.c:37, :60, memory_map.c:68: no frame is kept that the map does not leave to
   the allocator, and once the map is parsed every one that it leaves is free, with
   a caller, or was dropped when the table was full; no more is free than was
   counted (pmm.c:202). *)
UsableFrames == UNION {UsableIn(e) : e \in Entries}
Accounted ==
  /\ FreeFrames \cup owned \cup lost \subseteq UsableFrames
  /\ Ready => UsableFrames \subseteq FreeFrames \cup owned \cup lost
  /\ Cardinality(FreeFrames) * PageSize <= total_memory
=============================================================================
