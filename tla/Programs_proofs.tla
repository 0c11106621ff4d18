--------------------------- MODULE Programs_proofs ---------------------------
(***************************************************************************)
(* For every heap, disk and program, wherever an allocation fails, a drive *)
(* reports an error or the main loop is interrupted:                       *)
(*   - kmalloc hands out nothing twice but in a race;                      *)
(*   - a process is made whole;                                            *)
(*   - a sector that is read is the one that was meant;                    *)
(*   - a node of the mount is that of an entry of the disk;                *)
(*   - a process's image is what the disk has of its program.              *)
(***************************************************************************)
EXTENDS Programs, ListLemmas

-----------------------------------------------------------------------------
(* The heap by itself: what kmalloc hands out, whoever asks and however often. *)
Answers(n, aligned) == n <= aligned /\ aligned < n + Align

(* The main loop inside kmalloc has rounded a request. *)
RequestRounded == pc = "loaded" => \E n \in Request : Answers(n, size)

(* heap_ptr is behind every block, unless the main loop put it back. *)
PtrBehind == ~raced => \A i \in DOMAIN blocks : blocks[i].start + blocks[i].size <= heap_ptr

BlocksInv == TypeOK /\ InBounds /\ DisjointUnlessRaced /\ RequestRounded /\ PtrBehind

-----------------------------------------------------------------------------
(* align_up_size returns the first multiple of 8 that is not below the request. *)
LEMMA AlignUpAnswers ==
  ASSUME NEW n \in Nat \ {0}
  PROVE  /\ AlignUpSize(n) \in Nat
         /\ Answers(n, AlignUpSize(n))
  BY DEF AlignUpSize, Align, Answers

(* What a block at heap_ptr that fits leaves true, whoever asked for it. *)
LEMMA HandedOut ==
  ASSUME BlocksInv, NEW owner \in Owner, NEW ptr \in Base .. Limit, NEW n \in Nat,
         Fits(ptr, n), Hand(owner, ptr, n), heap_ptr' = ptr + n,
         raced' \in BOOLEAN, ~raced' => ~raced /\ ptr = heap_ptr,
         \E r \in Request : Answers(r, n)
  PROVE  /\ heap_ptr' \in Base .. Limit /\ blocks' \in Seq(Block)
         /\ InBounds' /\ DisjointUnlessRaced' /\ PtrBehind'
<1> DEFINE b == [owner |-> owner, start |-> ptr, size |-> n]
<1>1. blocks' = Append(blocks, b) /\ blocks \in Seq(Block) /\ b \in Block
  BY HeapAssumption DEF Hand, BlocksInv, TypeOK, Block
<1>2. heap_ptr' \in Base .. Limit
  BY HeapAssumption DEF Fits
<1>3. blocks' \in Seq(Block)
  BY <1>1
<1>4. /\ DOMAIN blocks' = 1 .. Len(blocks) + 1 /\ DOMAIN blocks = 1 .. Len(blocks) /\ Len(blocks) \in Nat
      /\ \A i \in DOMAIN blocks : blocks'[i] = blocks[i] /\ blocks[i] \in Block
      /\ blocks'[Len(blocks) + 1] = b
  BY <1>1
<1>5. \A i \in DOMAIN blocks' : i \in DOMAIN blocks \/ blocks'[i] = b
  BY <1>4
<1>6. InBounds'
  <2> SUFFICES ASSUME NEW i \in DOMAIN blocks'
               PROVE  /\ Base <= blocks'[i].start /\ blocks'[i].start + blocks'[i].size <= Limit
                      /\ \E r \in Request : r <= blocks'[i].size /\ blocks'[i].size < r + Align
    BY DEF InBounds
  <2>1. CASE i \in DOMAIN blocks
    BY <1>4, <2>1 DEF BlocksInv, InBounds
  <2>2. CASE blocks'[i] = b
    BY <2>2 DEF Fits, Answers
  <2> QED BY <1>5, <2>1, <2>2
<1>7. PtrBehind'
  <2> SUFFICES ASSUME ~raced', NEW i \in DOMAIN blocks'
               PROVE  blocks'[i].start + blocks'[i].size <= heap_ptr'
    BY DEF PtrBehind
  <2>1. CASE i \in DOMAIN blocks
    <3>1. blocks[i].start + blocks[i].size <= heap_ptr /\ ptr = heap_ptr
      BY <2>1 DEF BlocksInv, PtrBehind
    <3> QED BY <1>4, <2>1, <3>1 DEF Block
  <2>2. CASE blocks'[i] = b
    BY <2>2
  <2> QED BY <1>5, <2>1, <2>2
<1>8. DisjointUnlessRaced'
  <2> SUFFICES ASSUME ~raced', NEW i \in DOMAIN blocks', NEW j \in DOMAIN blocks', i # j
               PROVE  Disjoint(blocks'[i], blocks'[j])
    BY DEF DisjointUnlessRaced
  <2>1. CASE i \in DOMAIN blocks /\ j \in DOMAIN blocks
    BY <1>4, <2>1 DEF BlocksInv, DisjointUnlessRaced
  <2>2. CASE i \in DOMAIN blocks /\ blocks'[j] = b
    BY <1>4, <2>2 DEF BlocksInv, PtrBehind, Disjoint
  <2>3. CASE j \in DOMAIN blocks /\ blocks'[i] = b
    BY <1>4, <2>3 DEF BlocksInv, PtrBehind, Disjoint
  <2>4. ~(i \notin DOMAIN blocks /\ j \notin DOMAIN blocks)
    BY <1>4
  <2> QED BY <1>5, <2>1, <2>2, <2>3, <2>4
<1> QED BY <1>2, <1>3, <1>6, <1>7, <1>8

LEMMA HeapInitially == Init => BlocksInv
<1> SUFFICES ASSUME Init PROVE BlocksInv
  OBVIOUS
<1>1. blocks \in Seq(Block) /\ DOMAIN blocks = {}
  BY DEF Init
<1>2. TypeOK
  <2>1. heap_ptr \in Base .. Limit /\ reg \in Base .. Limit /\ size \in Nat
    BY HeapAssumption DEF Init
  <2>2. enabled \in BOOLEAN /\ raced \in BOOLEAN /\ pc \in {"idle", "loaded"}
    BY DEF Init
  <2> QED BY <1>1, <2>1, <2>2 DEF TypeOK
<1>3. InBounds /\ DisjointUnlessRaced /\ PtrBehind
  BY <1>1 DEF InBounds, DisjointUnlessRaced, PtrBehind
<1>4. RequestRounded
  BY DEF Init, RequestRounded
<1> QED BY <1>2, <1>3, <1>4 DEF BlocksInv

LEMMA HeapInductive == BlocksInv /\ [Next]_vars => BlocksInv'
<1> SUFFICES ASSUME BlocksInv, [Next]_vars PROVE BlocksInv'
  OBVIOUS
<1> USE DEF BlocksInv
<1>1. ASSUME NEW owner \in Owner, NEW n \in Request, Allocate(owner, n) PROVE BlocksInv'
  <2> DEFINE a == AlignUpSize(n)
  <2>1. n \in Nat \ {0} /\ a \in Nat /\ Answers(n, a)
    BY HeapAssumption, AlignUpAnswers
  <2>2. heap_ptr \in Base .. Limit /\ Fits(heap_ptr, a) /\ Hand(owner, heap_ptr, a) /\ heap_ptr' = heap_ptr + a
    BY <1>1 DEF Allocate, TypeOK
  <2>3. raced' = raced /\ raced \in BOOLEAN
    BY <1>1 DEF Allocate, TypeOK
  <2> HIDE DEF a
  <2>4. /\ heap_ptr' \in Base .. Limit /\ blocks' \in Seq(Block)
        /\ InBounds' /\ DisjointUnlessRaced' /\ PtrBehind'
    BY <2>1, <2>2, <2>3, HandedOut
  <2> QED BY <1>1, <2>4 DEF Allocate, TypeOK, RequestRounded
<1>2. ASSUME NEW n \in Request, MainLoad(n) PROVE BlocksInv'
  <2>1. n \in Nat \ {0} /\ AlignUpSize(n) \in Nat /\ Answers(n, AlignUpSize(n))
    BY HeapAssumption, AlignUpAnswers
  <2>2. TypeOK' /\ RequestRounded'
    BY <1>2, <2>1 DEF MainLoad, TypeOK, RequestRounded
  <2> QED BY <1>2, <2>2 DEF MainLoad, InBounds, DisjointUnlessRaced, PtrBehind
<1>3. CASE MainStore
  <2>1. /\ reg \in Base .. Limit /\ size \in Nat /\ "main" \in Owner
        /\ Fits(reg, size) /\ Hand("main", reg, size) /\ heap_ptr' = reg + size
        /\ raced' \in BOOLEAN /\ (~raced' => ~raced /\ reg = heap_ptr)
        /\ \E r \in Request : Answers(r, size)
    BY <1>3 DEF MainStore, TypeOK, Owner, RequestRounded
  <2>2. /\ heap_ptr' \in Base .. Limit /\ blocks' \in Seq(Block)
        /\ InBounds' /\ DisjointUnlessRaced' /\ PtrBehind'
    BY <2>1, HandedOut
  <2> QED BY <1>3, <2>1, <2>2 DEF MainStore, TypeOK, RequestRounded
<1>4. CASE Enable \/ MainFail
  BY <1>4 DEF Enable, MainFail, TypeOK, InBounds, DisjointUnlessRaced, RequestRounded, PtrBehind
<1>5. CASE UNCHANGED vars
  BY <1>5 DEF vars, TypeOK, InBounds, DisjointUnlessRaced, RequestRounded, PtrBehind
<1> QED
  BY <1>1, <1>2, <1>3, <1>4, <1>5 DEF Next, BootAlloc, ShellAlloc, Owner

(* The inductive invariant holds. *)
THEOREM HeapInvariance == Spec => []BlocksInv
  BY HeapInitially, HeapInductive, PTL DEF Spec

(* The heap is well typed: heap_ptr never leaves it. *)
THEOREM HeapTypeCorrect == Spec => []TypeOK
<1>1. BlocksInv => TypeOK
  BY DEF BlocksInv
<1> QED BY HeapInvariance, <1>1, PTL

(* kmalloc never returns memory outside the heap, and never less than was asked
   for, wherever the interrupt comes. *)
THEOREM BlocksInBounds == Spec => []InBounds
<1>1. BlocksInv => InBounds
  BY DEF BlocksInv
<1> QED BY HeapInvariance, <1>1, PTL

(* kmalloc hands out every byte once, unless an interrupt allocates between the
   main loop's load and store of heap_ptr. *)
THEOREM BlocksDisjoint == Spec => []DisjointUnlessRaced
<1>1. BlocksInv => DisjointUnlessRaced
  BY DEF BlocksInv
<1> QED BY HeapInvariance, <1>1, PTL

-----------------------------------------------------------------------------
(* The inductive invariant.  What the boot and the main loop were given ends below
   heap_ptr, and below what the main loop has loaded and may put back: its store may
   undo allocations of a command, never one of theirs.  While a command is under way
   nobody else allocates, so what it has taken stays above theirs. *)
Foreign(i) == blocks[i].owner # "shell"
End(i) == blocks[i].start + blocks[i].size

HeapInv == /\ TypeOK
           /\ pc = "loaded" => enabled
           /\ \A i \in DOMAIN blocks : Foreign(i) => /\ End(i) <= heap_ptr
                                                     /\ pc = "loaded" => End(i) <= reg

(* the n bytes from start are a block's, above all foreign ones *)
Holds(start, n) ==
  /\ start \in Nat /\ n \in Nat /\ start + n <= heap_ptr
  /\ \E i \in DOMAIN blocks : blocks[i].start = start /\ blocks[i].size >= n
  /\ \A i \in DOMAIN blocks : Foreign(i) => End(i) <= start

HasImage(p) == /\ Holds(p.base, Len(p.image))
               /\ p.entry \in Nat /\ p.base <= p.entry /\ p.entry < p.base + Len(p.image)
HasStack(p) == Holds(p.stack, StackSize) /\ p.base + Len(p.image) <= p.stack

LoadInv == /\ DOMAIN load = DOMAIN NoLoad
           /\ load.pc \in {"process", "stack", "space", "table"} => HasImage(load)
           /\ load.pc \in {"space", "table"} => HasStack(load)
           /\ proc # NoProc => load.pc = "wait" /\ HasImage(proc) /\ HasStack(proc)

IInv == HeapInv /\ LoadInv

-----------------------------------------------------------------------------
(* Rounding up to whole pages loses nothing. *)
LEMMA WholePages ==
  ASSUME NEW n \in Nat, NEW page \in Nat \ {0}
  PROVE  /\ ((n + page - 1) \div page) * page \in Nat
         /\ n <= ((n + page - 1) \div page) * page
<1>1. n + page - 1 \in Nat
  OBVIOUS
<1>2. PICK x \in Nat : x = n + page - 1
  BY <1>1
<1>3. /\ x \div page \in Nat /\ x % page \in 0 .. page - 1
      /\ x = page * (x \div page) + (x % page)
  BY Z3
<1>4. (x \div page) * page = page * (x \div page) /\ (x \div page) * page \in Nat
  BY <1>3
<1> QED BY <1>2, <1>3, <1>4

(* An image has room for every segment. *)
LEMMA ImageBounds ==
  ASSUME NEW file, Loadable(file)
  PROVE  /\ MinVaddr(file) \in Nat /\ MaxVaddr(file) \in Nat
         /\ \A s \in Segments(file) : MinVaddr(file) <= s.vaddr /\ s.vaddr + s.memsz <= MaxVaddr(file)
         /\ ImageSize(file) \in Nat /\ MaxVaddr(file) - MinVaddr(file) <= ImageSize(file)
<1> DEFINE starts == {s.vaddr : s \in Segments(file)}
           ends == {s.vaddr + s.memsz : s \in Segments(file)}
<1>1. /\ Segments(file) # {} /\ MaxAddress \in Nat
      /\ \A s \in Segments(file) : /\ s.vaddr \in Nat /\ s.memsz \in Nat /\ 0 < s.memsz
                                   /\ s.vaddr + s.memsz <= MaxAddress
  BY LoaderAssumption DEF Loadable, IsElf, Segments
<1>2. /\ MinVaddr(file) \in starts /\ \A y \in starts : MinVaddr(file) <= y
      /\ MaxVaddr(file) \in ends /\ \A y \in ends : y <= MaxVaddr(file)
  <2>1. starts \subseteq 0 .. MaxAddress /\ starts # {} /\ ends \subseteq 0 .. MaxAddress /\ ends # {}
    BY <1>1
  <2> HIDE DEF starts, ends
  <2>2. /\ Min(starts) \in starts /\ \A y \in starts : Min(starts) <= y
        /\ Max(ends) \in ends /\ \A y \in ends : y <= Max(ends)
    BY <2>1, <1>1, Bounds
  <2> QED BY <2>2 DEF MinVaddr, MaxVaddr, starts, ends
<1>3. \A s \in Segments(file) : s.vaddr \in starts /\ s.vaddr + s.memsz \in ends
  OBVIOUS
<1>4. \A v \in starts \cup ends : v \in Nat
  BY <1>1
<1> HIDE DEF starts, ends
<1>5. /\ MinVaddr(file) \in Nat /\ MaxVaddr(file) \in Nat
      /\ \A s \in Segments(file) : MinVaddr(file) <= s.vaddr /\ s.vaddr + s.memsz <= MaxVaddr(file)
  BY <1>2, <1>3, <1>4
<1>6. PICK n \in Nat : n = MaxVaddr(file) - MinVaddr(file)
  <2>1. PICK s : s \in Segments(file)
    BY <1>1
  <2>2. MinVaddr(file) <= s.vaddr /\ s.vaddr + s.memsz <= MaxVaddr(file) /\ s.vaddr \in Nat /\ s.memsz \in Nat
    BY <1>1, <1>5, <2>1
  <2> QED BY <1>5, <2>2
<1>7. Page \in Nat \ {0}
  BY LoaderAssumption
<1>8. ImageSize(file) \in Nat /\ MaxVaddr(file) - MinVaddr(file) <= ImageSize(file)
  BY <1>6, <1>7, WholePages DEF ImageSize
<1> QED BY <1>5, <1>8

(* ... and its entry is inside. *)
LEMMA ImageHasEntry ==
  ASSUME NEW file, Loadable(file)
  PROVE  /\ ImageSize(file) \in Nat \ {0} /\ Len(Image(file)) = ImageSize(file)
         /\ Elf[file[1]].entry - MinVaddr(file) \in 0 .. ImageSize(file) - 1
<1> DEFINE h == Elf[file[1]]
<1>1. h.entry \in Nat /\ \A s \in Segments(file) : s.vaddr \in Nat /\ s.memsz \in Nat
  BY LoaderAssumption DEF Loadable, IsElf, Segments
<1>2. PICK s \in Segments(file) : In(h.entry, s)
  BY LoaderAssumption DEF Loadable, IsElf, Segments
<1>3. /\ MinVaddr(file) \in Nat /\ MaxVaddr(file) \in Nat
      /\ MinVaddr(file) <= s.vaddr /\ s.vaddr + s.memsz <= MaxVaddr(file)
      /\ ImageSize(file) \in Nat /\ MaxVaddr(file) - MinVaddr(file) <= ImageSize(file)
  BY ImageBounds
<1>4. MinVaddr(file) <= h.entry /\ h.entry < MaxVaddr(file)
  BY <1>1, <1>2, <1>3 DEF In
<1>5. Len(Image(file)) = ImageSize(file)
  <2> DEFINE f == Image(file)
             V == {f[n] : n \in 1 .. ImageSize(file)}
  <2>1. DOMAIN f = 1 .. ImageSize(file) /\ f = [n \in 1 .. ImageSize(file) |-> f[n]]
    BY DEF Image
  <2>2. f \in Seq(V)
    BY <1>3, <2>1
  <2> HIDE DEF f
  <2> QED BY <1>3, <2>1, <2>2 DEF f
<1> HIDE DEF h
<1> QED BY <1>1, <1>3, <1>4, <1>5 DEF h

(* What stands in an image at the places of a segment: its bytes in the file, and
   behind them zeros. *)
LEMMA ImageHolds ==
  ASSUME NEW file, Loadable(file), Complete(file), file \in Seq(D!Byte),
         NEW s \in Segments(file), NEW n \in 0 .. s.memsz - 1
  PROVE  LET byte == Image(file)[s.vaddr - MinVaddr(file) + n + 1]
         IN  /\ n < s.filesz => s.offset + n + 1 \in 1 .. Len(file) /\ byte = file[s.offset + n + 1]
             /\ ~(n < s.filesz) => byte = Zero
<1>1. /\ \A t \in Segments(file) : /\ t.offset \in Nat /\ t.vaddr \in Nat /\ t.filesz \in Nat /\ t.memsz \in Nat
                                   /\ t.filesz <= t.memsz
      /\ \A t \in Segments(file), u \in Segments(file) : t # u => ~In(t.vaddr, u)
  BY LoaderAssumption DEF Loadable, IsElf, Segments
<1>2. PICK low \in Nat, room \in Nat, sv \in Nat, top \in Nat :
             low = MinVaddr(file) /\ room = ImageSize(file) /\ sv = s.vaddr /\ top = MaxVaddr(file)
  BY <1>1, ImageBounds
<1>3. low <= sv /\ sv + s.memsz <= top /\ top - low <= room
  BY <1>2, ImageBounds
<1>4. n \in Nat /\ n < s.memsz
  BY <1>1
<1>5. PICK k \in 1 .. room, v \in Nat : k = sv - low + n + 1 /\ v = low + k - 1 /\ v = sv + n
  BY <1>1, <1>3, <1>4
<1> DEFINE from == {t \in Segments(file) : t.vaddr <= v /\ v < t.vaddr + t.filesz}
<1>6. Image(file)[k] = IF from = {} THEN Zero
                       ELSE LET t == CHOOSE t \in from : TRUE IN file[t.offset + (v - t.vaddr) + 1]
  <2> DEFINE cover(w) == {t \in Segments(file) : t.vaddr <= w /\ w < t.vaddr + t.filesz}
             byte(w) == IF cover(w) = {} THEN Zero
                        ELSE LET t == CHOOSE t \in cover(w) : TRUE IN file[t.offset + (w - t.vaddr) + 1]
  <2>1. Image(file) = [m \in 1 .. room |-> byte(low + m - 1)]
    BY <1>2 DEF Image
  <2>2. byte(v) = IF from = {} THEN Zero
                  ELSE LET t == CHOOSE t \in from : TRUE IN file[t.offset + (v - t.vaddr) + 1]
    OBVIOUS
  <2> HIDE DEF byte
  <2>3. Image(file)[k] = byte(v)
    BY <1>5, <2>1
  <2> QED BY <2>2, <2>3
<1>7. \A t \in from : t = s
  <2> SUFFICES ASSUME NEW t \in from, t # s PROVE FALSE
    OBVIOUS
  <2>1. /\ t \in Segments(file) /\ t.vaddr <= sv + n /\ sv + n < t.vaddr + t.filesz
        /\ ~In(t.vaddr, s) /\ ~In(s.vaddr, t)
    BY <1>1, <1>5
  <2> HIDE DEF from
  <2>2. PICK tv \in Nat : tv = t.vaddr
    BY <1>1, <2>1
  <2>3. tv <= sv + n /\ sv + n < tv + t.memsz /\ sv + n < sv + s.memsz
    BY <1>1, <1>4, <2>1, <2>2
  <2>4. ~(sv <= tv /\ tv < sv + s.memsz) /\ ~(tv <= sv /\ sv < tv + t.memsz)
    BY <1>2, <2>1, <2>2 DEF In
  <2>5. s.memsz \in Nat /\ t.memsz \in Nat
    BY <1>1, <2>1
  <2> QED BY <1>4, <2>3, <2>4, <2>5
<1>8. s \in from <=> n < s.filesz
  <2>1. s \in from <=> (sv <= sv + n /\ sv + n < sv + s.filesz)
    BY <1>2, <1>5
  <2> HIDE DEF from
  <2> QED BY <1>1, <1>4, <2>1
<1> HIDE DEF from
<1>9. CASE n < s.filesz
  <2>1. from = {s}
    BY <1>7, <1>8, <1>9
  <2>2. Image(file)[k] = file[s.offset + (v - sv) + 1]
    BY <1>2, <1>6, <2>1
  <2>3. v - sv = n
    BY <1>4, <1>5
  <2>4. s.offset + n + 1 \in 1 .. Len(file)
    <3>1. s.offset + s.filesz <= Len(file) /\ Len(file) \in Nat
      BY DEF Complete
    <3> QED BY <1>1, <1>4, <1>9, <3>1
  <2> QED BY <1>2, <1>5, <1>9, <2>2, <2>3, <2>4
<1>10. CASE ~(n < s.filesz)
  <2>1. from = {}
    BY <1>7, <1>8, <1>10
  <2> QED BY <1>2, <1>5, <1>6, <1>10, <2>1
<1> QED BY <1>9, <1>10

-----------------------------------------------------------------------------
(* Blocks.                                                                 *)

(* What one more block does to what is known of the others. *)
LEMMA OneMore ==
  ASSUME HeapInv, NEW owner \in Owner, NEW start \in Base .. Limit, NEW n \in Nat,
         Fits(start, n), Hand(owner, start, n), heap_ptr' = start + n
  PROVE  /\ heap_ptr' \in Base .. Limit /\ blocks' \in Seq(Block)
         /\ DOMAIN blocks \subseteq DOMAIN blocks' /\ \A i \in DOMAIN blocks : blocks'[i] = blocks[i]
         /\ \E i \in DOMAIN blocks' : blocks'[i] = [owner |-> owner, start |-> start, size |-> n]
         /\ \A i \in DOMAIN blocks' : \/ i \in DOMAIN blocks
                                      \/ blocks'[i] = [owner |-> owner, start |-> start, size |-> n]
<1> DEFINE b == [owner |-> owner, start |-> start, size |-> n]
<1>1. start \in Nat /\ heap_ptr' \in Base .. Limit
  BY HeapAssumption DEF Fits
<1>2. blocks' = Append(blocks, b) /\ b \in Block /\ blocks \in Seq(Block)
  BY <1>1 DEF Hand, Block, HeapInv, TypeOK
<1> HIDE DEF b
<1>3. /\ DOMAIN blocks = 1 .. Len(blocks) /\ DOMAIN blocks' = 1 .. Len(blocks) + 1 /\ Len(blocks) \in Nat
      /\ \A i \in 1 .. Len(blocks) : blocks'[i] = blocks[i]
      /\ blocks'[Len(blocks) + 1] = b /\ blocks' \in Seq(Block)
  BY <1>2
<1>4. Len(blocks) + 1 \in DOMAIN blocks'
  BY <1>3
<1>5. \A i \in DOMAIN blocks' : i \in DOMAIN blocks \/ i = Len(blocks) + 1
  BY <1>3
<1> QED BY <1>1, <1>3, <1>4, <1>5 DEF b

(* An allocation of a command: the block begins at heap_ptr, and nothing that was
   held is lost. *)
LEMMA CommandTakes ==
  ASSUME HeapInv, NEW n \in Nat \ {0}, Kmalloc(n), NEW p, p = heap_ptr
  PROVE  /\ HeapInv' /\ Holds(p, n)'
         /\ \A start, m : Holds(start, m) => Holds(start, m)' /\ start + m <= p
<1> DEFINE a == AlignUpSize(n)
           b == [owner |-> "shell", start |-> p, size |-> a]
<1>1. a \in Nat /\ n <= a
  BY DEF AlignUpSize, Align
<1>2. /\ enabled /\ Fits(p, a) /\ heap_ptr' = p + a /\ Hand("shell", p, a)
      /\ UNCHANGED <<enabled, pc, reg, size, raced>> /\ "shell" \in Owner
  BY DEF Kmalloc, ShellAlloc, Allocate, Owner
<1>3. p \in Base .. Limit /\ p \in Nat
  BY HeapAssumption DEF HeapInv, TypeOK
<1> HIDE DEF a
<1>4. /\ heap_ptr' \in Base .. Limit /\ blocks' \in Seq(Block)
      /\ DOMAIN blocks \subseteq DOMAIN blocks' /\ \A i \in DOMAIN blocks : blocks'[i] = blocks[i]
      /\ \E i \in DOMAIN blocks' : blocks'[i] = b
      /\ \A i \in DOMAIN blocks' : i \in DOMAIN blocks \/ blocks'[i] = b
  BY <1>1, <1>2, <1>3, OneMore
<1>5. TypeOK'
  BY <1>2, <1>4 DEF HeapInv, TypeOK
<1>6. b.owner = "shell" /\ b.start = p /\ b.size = a
  OBVIOUS
<1> HIDE DEF b
<1>7. \A i \in DOMAIN blocks' : Foreign(i)' => i \in DOMAIN blocks /\ Foreign(i) /\ End(i)' = End(i)
  BY <1>4, <1>6 DEF Foreign, End
<1>8. \A i \in DOMAIN blocks : End(i) \in Nat
  <2>1. \A i \in DOMAIN blocks : blocks[i] \in Block
    BY DEF HeapInv, TypeOK
  <2> QED BY <2>1 DEF Block, End
<1>9. p <= heap_ptr' /\ heap_ptr' \in Nat
  BY <1>1, <1>2, <1>3
<1>10. HeapInv'
  BY <1>2, <1>3, <1>5, <1>7, <1>8, <1>9 DEF HeapInv
<1>11. Holds(p, n)'
  <2>1. \E i \in DOMAIN blocks' : blocks'[i].start = p /\ blocks'[i].size >= n
    BY <1>1, <1>4, <1>6
  <2>2. \A i \in DOMAIN blocks' : Foreign(i)' => End(i)' <= p
    BY <1>7 DEF HeapInv
  <2>3. p + n <= heap_ptr'
    BY <1>1, <1>2, <1>3
  <2> QED BY <1>3, <2>1, <2>2, <2>3 DEF Holds
<1>12. ASSUME NEW start, NEW m, Holds(start, m) PROVE Holds(start, m)' /\ start + m <= p
  <2>1. \E i \in DOMAIN blocks' : blocks'[i].start = start /\ blocks'[i].size >= m
    BY <1>4, <1>12 DEF Holds
  <2>2. \A i \in DOMAIN blocks' : Foreign(i)' => End(i)' <= start
    BY <1>7, <1>12 DEF Holds
  <2>3. start \in Nat /\ m \in Nat /\ start + m <= p
    BY <1>12 DEF Holds
  <2>4. start + m <= heap_ptr'
    BY <1>3, <1>9, <2>3
  <2> QED BY <2>1, <2>2, <2>3, <2>4 DEF Holds
<1> QED BY <1>10, <1>11, <1>12

-----------------------------------------------------------------------------
(* The steps of the boot and of the main loop, while no command is under way. *)
LEMMA OthersStep ==
  ASSUME HeapInv, Others
  PROVE  HeapInv'
<1>1. /\ blocks \in Seq(Block) /\ heap_ptr \in Nat /\ reg \in Nat /\ size \in Nat
      /\ heap_ptr \in Base .. Limit /\ reg \in Base .. Limit
      /\ \A i \in DOMAIN blocks : blocks[i] \in Block /\ End(i) \in Nat
  <2>1. blocks \in Seq(Block) /\ heap_ptr \in Base .. Limit /\ reg \in Base .. Limit /\ size \in Nat
    BY DEF HeapInv, TypeOK
  <2>2. heap_ptr \in Nat /\ reg \in Nat
    BY <2>1, HeapAssumption
  <2>3. \A i \in DOMAIN blocks : blocks[i] \in Block
    BY <2>1
  <2>4. \A i \in DOMAIN blocks : End(i) \in Nat
    BY <2>3 DEF Block, End
  <2> QED BY <2>1, <2>2, <2>3, <2>4
<1>2. ASSUME NEW owner \in Owner, NEW start \in Base .. Limit, NEW n \in Nat,
             Fits(start, n), Hand(owner, start, n), heap_ptr' = start + n, pc' = "idle",
             UNCHANGED <<enabled, reg, size>>, raced' \in BOOLEAN,
             \A i \in DOMAIN blocks : Foreign(i) => End(i) <= start
      PROVE  HeapInv'
  <2> DEFINE b == [owner |-> owner, start |-> start, size |-> n]
  <2>1. /\ heap_ptr' \in Base .. Limit /\ blocks' \in Seq(Block)
        /\ \A i \in DOMAIN blocks : blocks'[i] = blocks[i]
        /\ \A i \in DOMAIN blocks' : i \in DOMAIN blocks \/ blocks'[i] = b
    BY <1>2, OneMore
  <2>2. TypeOK'
    BY <1>2, <2>1 DEF HeapInv, TypeOK
  <2>3. start \in Nat
    BY HeapAssumption
  <2>4. ASSUME NEW i \in DOMAIN blocks', Foreign(i)' PROVE End(i)' <= heap_ptr'
    <3>1. CASE i \in DOMAIN blocks
      <4>1. Foreign(i) /\ End(i)' = End(i)
        BY <2>1, <2>4, <3>1 DEF Foreign, End
      <4> QED BY <1>1, <1>2, <2>3, <3>1, <4>1
    <3>2. CASE blocks'[i] = b
      BY <1>2, <2>3, <3>2 DEF End
    <3> QED BY <2>1, <3>1, <3>2
  <2> QED BY <1>2, <2>2, <2>4 DEF HeapInv
<1>3. CASE \E n \in Request : BootAlloc(n)
  <2>1. PICK n \in Request : BootAlloc(n)
    BY <1>3
  <2>2. PICK a : a = AlignUpSize(n)
    OBVIOUS
  <2>3. a \in Nat
    BY <2>2, HeapAssumption DEF AlignUpSize, Align
  <2>4. /\ Fits(heap_ptr, a) /\ Hand("boot", heap_ptr, a) /\ heap_ptr' = heap_ptr + a /\ "boot" \in Owner
        /\ UNCHANGED <<enabled, reg, size, raced, pc>> /\ ~enabled
    BY <2>1, <2>2 DEF BootAlloc, Allocate, Owner
  <2>5. pc' = "idle" /\ raced' \in BOOLEAN
    BY <2>4 DEF HeapInv, TypeOK
  <2> QED BY <1>1, <1>2, <2>3, <2>4, <2>5 DEF HeapInv
<1>4. CASE MainStore
  <2>1. /\ Fits(reg, size) /\ Hand("main", reg, size) /\ heap_ptr' = reg + size /\ "main" \in Owner
        /\ UNCHANGED <<enabled, reg, size>> /\ pc = "loaded" /\ pc' = "idle" /\ raced' \in BOOLEAN
    BY <1>4 DEF MainStore, Owner, HeapInv, TypeOK
  <2> QED BY <1>1, <1>2, <2>1 DEF HeapInv
<1>5. CASE (\E n \in Request : MainLoad(n)) \/ Enable \/ MainFail
  <2>1. UNCHANGED <<blocks, heap_ptr, raced>>
    BY <1>5 DEF MainLoad, Enable, MainFail
  <2>2. \A n \in Request : AlignUpSize(n) \in Nat
    BY HeapAssumption DEF AlignUpSize, Align
  <2>3. /\ enabled' \in BOOLEAN /\ pc' \in {"idle", "loaded"} /\ reg' \in Base .. Limit /\ size' \in Nat
        /\ pc' = "loaded" => enabled' /\ ((pc = "loaded" /\ reg' = reg) \/ reg' = heap_ptr)
    BY <1>1, <1>5, <2>2 DEF MainLoad, Enable, MainFail, HeapInv, TypeOK
  <2>4. TypeOK'
    BY <2>1, <2>3 DEF HeapInv, TypeOK
  <2>5. \A i : End(i)' = End(i) /\ (Foreign(i)' <=> Foreign(i))
    BY <2>1 DEF End, Foreign
  <2> QED BY <2>1, <2>3, <2>4, <2>5 DEF HeapInv
<1> QED BY <1>3, <1>4, <1>5 DEF Others

-----------------------------------------------------------------------------
(* What is held stays held when the heap does not change. *)
LEMMA Still ==
  ASSUME UNCHANGED vars
  PROVE  /\ HeapInv => HeapInv'
         /\ \A start, m : Holds(start, m) => Holds(start, m)'
<1>1. \A i : End(i)' = End(i) /\ (Foreign(i)' <=> Foreign(i))
  BY DEF End, Foreign, vars
<1>2. HeapInv => HeapInv'
  BY <1>1 DEF HeapInv, TypeOK, vars
<1>3. \A start, m : Holds(start, m) => Holds(start, m)'
  BY <1>1 DEF Holds, vars
<1> QED BY <1>2, <1>3

(* The command gives up, or is not there: nothing is known of it afterwards. *)
LEMMA Idle ==
  ASSUME IInv, HeapInv', load' = NoLoad, load.pc # "wait", UNCHANGED proc
  PROVE  IInv'
BY DEF IInv, LoadInv, NoLoad

(* process_exec: the image. *)
LEMMA ExecStep ==
  ASSUME IInv, NEW file, Exec(file)
  PROVE  IInv'
<1> DEFINE n == ImageSize(file)
<1>1. /\ n \in Nat \ {0} /\ Len(Image(file)) = n
      /\ Elf[file[1]].entry - MinVaddr(file) \in 0 .. n - 1
  BY ImageHasEntry DEF Exec
<1>2. HeapInv /\ load.pc = "idle" /\ proc = NoProc /\ UNCHANGED proc
  BY DEF Exec, Quit, IInv, LoadInv
<1> HIDE DEF n
<1>3. CASE NoMemory(n) /\ Quit
  BY <1>2, <1>3, Still, Idle DEF NoMemory, Quit, NoLoad
<1>4. CASE Kmalloc(n)
  <2>1. PICK p : p = heap_ptr
    OBVIOUS
  <2>2. HeapInv' /\ Holds(p, n)' /\ p \in Nat
    BY <1>1, <1>2, <1>4, <2>1, CommandTakes DEF Holds
  <2>3. CASE load' = NoLoad
    BY <1>2, <2>2, <2>3, Idle DEF NoLoad
  <2>4. CASE load' = [pc |-> "process", file |-> file, base |-> heap_ptr, image |-> Image(file),
                      entry |-> heap_ptr + (Elf[file[1]].entry - MinVaddr(file)), stack |-> 0]
    <3>1. PICK d : d = Elf[file[1]].entry - MinVaddr(file)
      OBVIOUS
    <3>2. /\ load'.pc = "process" /\ load'.base = p /\ load'.image = Image(file)
          /\ load'.entry = p + d /\ DOMAIN load' = DOMAIN NoLoad
      BY <2>1, <2>4, <3>1 DEF NoLoad
    <3>3. HasImage(load)'
      BY <1>1, <2>2, <3>1, <3>2 DEF HasImage
    <3> QED BY <1>2, <2>2, <3>2, <3>3 DEF IInv, LoadInv
  <2> QED BY <2>3, <2>4 DEF Exec, Quit, n
<1> QED BY <1>3, <1>4 DEF Exec, n

(* process_create and vmm_create_address_space: the blocks of the process. *)
LEMMA CreatingStep ==
  ASSUME IInv, Creating
  PROVE  IInv'
<1>1. /\ HeapInv /\ proc = NoProc /\ load.pc \in {"process", "stack", "space", "table"}
      /\ HasImage(load) /\ (load.pc \in {"space", "table"} => HasStack(load))
      /\ DOMAIN load = DOMAIN NoLoad /\ {"pc", "stack"} \subseteq DOMAIN load
  BY DEF Creating, AllocProcess, AllocStack, AllocSpace, AllocTable, IInv, LoadInv, NoLoad
<1>2. \A m \in {ProcessSize, StackSize, SpaceSize, TableSize} : m \in Nat \ {0}
  BY LoaderAssumption
<1>3. ASSUME NEW m \in {ProcessSize, StackSize, SpaceSize, TableSize}, NoMemory(m) \/ Kmalloc(m)
      PROVE  HeapInv' /\ \A start, k : Holds(start, k) => Holds(start, k)'
  <2>1. m \in Nat \ {0}
    BY <1>2
  <2>2. CASE NoMemory(m)
    BY <1>1, <2>2, Still DEF NoMemory
  <2>3. CASE Kmalloc(m)
    <3>1. PICK p : p = heap_ptr
      OBVIOUS
    <3> QED BY <1>1, <2>1, <2>3, <3>1, CommandTakes
  <2> QED BY <1>3, <2>2, <2>3
<1>4. ASSUME NEW m \in {ProcessSize, StackSize, SpaceSize, TableSize}, NoMemory(m), Quit
      PROVE  IInv'
  BY <1>1, <1>3, <1>4, Idle DEF Quit
<1>5. ASSUME NEW m \in {ProcessSize, StackSize, SpaceSize, TableSize}, Kmalloc(m), NEW step, Goto(step),
             \/ load.pc = "process" /\ step = "stack"
             \/ load.pc = "space" /\ step = "table"
      PROVE  IInv'
  <2>1. /\ load'.pc = step /\ load'.base = load.base /\ load'.image = load.image
        /\ load'.entry = load.entry /\ load'.stack = load.stack
        /\ UNCHANGED proc /\ DOMAIN load' = DOMAIN load
    BY <1>1, <1>5 DEF Goto
  <2>2. HeapInv' /\ \A start, k : Holds(start, k) => Holds(start, k)'
    BY <1>3, <1>5
  <2>3. HasImage(load)'
    BY <1>1, <2>1, <2>2 DEF HasImage
  <2>4. load'.pc \in {"space", "table"} => HasStack(load)'
    BY <1>1, <1>5, <2>1, <2>2 DEF HasStack
  <2> QED BY <1>1, <1>5, <2>1, <2>2, <2>3, <2>4 DEF IInv, LoadInv, NoLoad
<1>6. ASSUME NEW m \in {SpaceSize, TableSize}, NoMemory(m) \/ Kmalloc(m),
             NEW space, Create(space), load.pc \in {"space", "table"}
      PROVE  IInv'
  <2>1. /\ proc'.base = load.base /\ proc'.image = load.image /\ proc'.entry = load.entry
        /\ proc'.stack = load.stack /\ load'.pc = "wait" /\ DOMAIN load' = DOMAIN NoLoad
    BY <1>6 DEF Create, NoLoad
  <2>2. HeapInv' /\ \A start, k : Holds(start, k) => Holds(start, k)'
    BY <1>3, <1>6
  <2>3. HasImage(proc)' /\ HasStack(proc)'
    BY <1>1, <1>6, <2>1, <2>2 DEF HasImage, HasStack
  <2> QED BY <2>1, <2>2, <2>3 DEF IInv, LoadInv
<1>7. CASE AllocProcess
  BY <1>4, <1>5, <1>7 DEF AllocProcess
<1>8. CASE AllocStack
  <2>1. CASE NoMemory(StackSize) /\ Quit
    BY <1>4, <2>1
  <2>2. CASE Kmalloc(StackSize) /\ load' = [load EXCEPT !.pc = "space", !.stack = heap_ptr] /\ UNCHANGED proc
    <3>1. PICK p : p = heap_ptr
      OBVIOUS
    <3>2. /\ load'.pc = "space" /\ load'.base = load.base /\ load'.image = load.image
          /\ load'.entry = load.entry /\ load'.stack = p /\ UNCHANGED proc /\ DOMAIN load' = DOMAIN load
      BY <1>1, <2>2, <3>1
    <3>3. /\ HeapInv' /\ Holds(p, StackSize)'
          /\ \A start, k : Holds(start, k) => Holds(start, k)' /\ start + k <= p
      BY <1>1, <1>2, <2>2, <3>1, CommandTakes
    <3>4. HasImage(load)' /\ HasStack(load)'
      BY <1>1, <3>2, <3>3 DEF HasImage, HasStack
    <3> QED BY <1>1, <3>2, <3>3, <3>4 DEF IInv, LoadInv
  <2> QED BY <1>8, <2>1, <2>2 DEF AllocStack
<1>9. CASE AllocSpace
  BY <1>4, <1>5, <1>6, <1>9 DEF AllocSpace
<1>10. CASE AllocTable
  BY <1>6, <1>10 DEF AllocTable
<1> QED BY <1>7, <1>8, <1>9, <1>10 DEF Creating

-----------------------------------------------------------------------------
(* The invariant holds in every state of every kernel, on every disk. *)
THEOREM Invariance == ProgramsSpec => []IInv
<1>1. ProgramsInit => IInv
  <2> SUFFICES ASSUME LoaderInit PROVE IInv
    BY DEF ProgramsInit
  <2>1. blocks \in Seq(Block) /\ DOMAIN blocks = {} /\ pc = "idle"
    BY DEF LoaderInit, Init
  <2>2. heap_ptr \in Base .. Limit /\ reg \in Base .. Limit /\ size \in Nat
    BY HeapAssumption DEF LoaderInit, Init
  <2>3. enabled \in BOOLEAN /\ raced \in BOOLEAN
    BY DEF LoaderInit, Init
  <2>4. load = NoLoad /\ load.pc = "idle" /\ proc = NoProc
    BY DEF LoaderInit, NoLoad
  <2> QED BY <2>1, <2>2, <2>3, <2>4 DEF IInv, HeapInv, TypeOK, LoadInv
<1>2. IInv /\ [ProgramsNext]_allVars => IInv'
  <2> SUFFICES ASSUME IInv, [ProgramsNext]_allVars PROVE IInv'
    OBVIOUS
  <2>1. ASSUME UNCHANGED loaderVars PROVE IInv'
    <3>1. UNCHANGED vars /\ UNCHANGED load /\ UNCHANGED proc
      BY <2>1 DEF loaderVars
    <3>2. HeapInv' /\ \A start, m : Holds(start, m) => Holds(start, m)'
      BY <3>1, Still DEF IInv
    <3> QED BY <3>1, <3>2 DEF IInv, LoadInv, HasImage, HasStack
  <2>2. CASE Run
    BY <2>2, ExecStep DEF Run
  <2>3. CASE Others
    <3>1. HeapInv' /\ load.pc = "idle" /\ UNCHANGED <<load, proc>>
      BY <2>3, OthersStep DEF IInv, Others
    <3> QED BY <3>1 DEF IInv, LoadInv
  <2>4. CASE Creating
    BY <2>4, CreatingStep
  <2> QED BY <2>1, <2>2, <2>3, <2>4 DEF ProgramsNext, Boot, AfterBoot, allVars
<1> QED BY <1>1, <1>2, PTL DEF ProgramsSpec

(* process.c:26, :95, heap.c:37: whatever allocation fails, a process that is made has
   an image, with its entry, and a stack, which overlap neither each other nor what the
   boot and the main loop were given. *)
THEOREM ProcessesWhole == ProgramsSpec => []WholeProcess
<1>1. IInv => WholeProcess
  <2> SUFFICES ASSUME IInv, proc # NoProc PROVE WholeProcess
    BY DEF WholeProcess
  <2> DEFINE n == Len(proc.image)
             image == Memory(proc.base, n)
             stack == Memory(proc.stack, StackSize)
  <2>1. /\ Holds(proc.base, n) /\ Holds(proc.stack, StackSize) /\ proc.base + n <= proc.stack
        /\ proc.base <= proc.entry /\ proc.entry < proc.base + n
    BY DEF IInv, LoadInv, HasImage, HasStack
  <2>2. /\ image.start = proc.base /\ image.size = n
        /\ stack.start = proc.stack /\ stack.size = StackSize
    BY DEF Memory
  <2> HIDE DEF n, image, stack
  <2>3. Disjoint(image, stack)
    BY <2>1, <2>2 DEF Disjoint
  <2>4. \A m \in {image, stack} : Holds(m.start, m.size)
    BY <2>1, <2>2
  <2>5. \A m \in {image, stack} :
           /\ \E i \in DOMAIN blocks : blocks[i].start = m.start /\ blocks[i].size >= m.size
           /\ \A i \in DOMAIN blocks : blocks[i].owner # "shell" => Disjoint(blocks[i], m)
    BY <2>4 DEF Holds, Foreign, End, Disjoint
  <2> QED BY <2>1, <2>3, <2>5 DEF WholeProcess, n, image, stack
<1> QED BY <1>1, Invariance, PTL

-----------------------------------------------------------------------------
(* The disk by itself: its clusters, its table, its directories, its sectors. *)
Cls == D!Clusters(disk)
ClsOrEnd == Cls \cup {D!EndOfChain}
Cb == D!ClusterBytes

(* The disk's library operators are those of the loader's modules. *)
LEMMA SameToSet == \A s : D!ToSet(s) = ToSet(s)
  BY DEF D!ToSet, ToSet

(* What the assumptions say of a disk. *)
LEMMA DiskFacts ==
  ASSUME disk \in Disks
  PROVE  /\ SectorBytes \in Nat \ {0} /\ MaxDepth \in Nat \ {0} /\ Radix \in Nat \ {0} /\ Heads \in Nat \ {0}
         /\ Cls \subseteq Nat \ {0, 1} /\ D!RootCluster(disk) \in DOMAIN disk.entries
         /\ disk.sectors_per_cluster \in Nat \ {0} /\ Cb \in Nat \ {0}
         /\ \A c \in Cls : disk.fat[c] \in ClsOrEnd
         /\ \E last \in Cls : \A c \in Cls : c <= last
         /\ DOMAIN disk.entries \subseteq Cls
         /\ \A c \in DOMAIN disk.entries : disk.fat[c] \in DOMAIN disk.entries \cup {D!EndOfChain}
         /\ \A c \in DOMAIN disk.entries : disk.entries[c] \in Seq(ToSet(disk.entries[c]))
         /\ \A c \in DOMAIN disk.entries : \A e \in ToSet(disk.entries[c]) :
              /\ e.kind \in D!Kind /\ e.size \in Nat
              /\ e.kind = "DIR" => e.first \in DOMAIN disk.entries \cup {D!EndOfChain}
              /\ e.kind = "FILE" /\ e.size > 0 => e.first \in Cls
         /\ {disk.reserved, disk.num_fats, disk.fat_size, disk.start} \subseteq Nat \ {0}
         /\ D!FatEntries # {} => \E i \in D!FatEntries : disk.table[i].start = disk.start
                                                      /\ \A j \in D!FatEntries : i <= j
<1>1. D!DiskAssumption /\ D!LayoutAssumption
  BY VolumeAssumption DEF D!LayoutAssumption
<1>2. /\ SectorBytes \in Nat \ {0} /\ MaxDepth \in Nat \ {0} /\ Radix \in Nat \ {0} /\ Heads \in Nat \ {0}
      /\ Cls \subseteq Nat \ {0, 1} /\ D!RootCluster(disk) \in DOMAIN disk.entries
      /\ disk.sectors_per_cluster \in Nat \ {0}
      /\ disk.fat \in [Cls -> ClsOrEnd]
      /\ \E last \in Cls : \A c \in Cls : c <= last
      /\ DOMAIN disk.entries \subseteq Cls
      /\ \A c \in DOMAIN disk.entries : disk.fat[c] \in DOMAIN disk.entries \cup {D!EndOfChain}
      /\ \A c \in DOMAIN disk.entries : \A e \in ToSet(disk.entries[c]) :
              /\ e.kind \in D!Kind /\ e.size \in Nat
              /\ e.kind = "DIR" => e.first \in DOMAIN disk.entries \cup {D!EndOfChain}
              /\ e.kind = "FILE" /\ e.size > 0 => e.first \in Cls
  <2>1. SectorBytes \in Nat \ {0} /\ MaxDepth \in Nat \ {0} /\ Radix \in Nat \ {0} /\ Heads \in Nat \ {0}
    BY <1>1 DEF D!DiskAssumption, D!LayoutAssumption
  <2>2. Cls \subseteq Nat \ {0, 1} /\ D!RootCluster(disk) \in DOMAIN disk.entries
    BY <1>1 DEF D!DiskAssumption, Cls, D!EndOfChain
  <2>3. disk.sectors_per_cluster \in Nat \ {0}
    BY <1>1 DEF D!DiskAssumption
  <2>4. disk.fat \in [Cls -> ClsOrEnd]
    BY <1>1 DEF D!DiskAssumption, Cls, ClsOrEnd
  <2>5. \E last \in Cls : \A c \in Cls : c <= last
    BY <1>1 DEF D!DiskAssumption, Cls
  <2>6. DOMAIN disk.entries \subseteq Cls
    BY <1>1 DEF D!DiskAssumption, Cls
  <2>7. \A c \in DOMAIN disk.entries : disk.fat[c] \in DOMAIN disk.entries \cup {D!EndOfChain}
    BY <1>1 DEF D!DiskAssumption
  <2>8. \A c \in DOMAIN disk.entries : \A e \in ToSet(disk.entries[c]) :
              /\ e.kind \in D!Kind /\ e.size \in Nat
              /\ e.kind = "DIR" => e.first \in DOMAIN disk.entries \cup {D!EndOfChain}
              /\ e.kind = "FILE" /\ e.size > 0 => e.first \in Cls
    <3>1. \A c \in DOMAIN disk.entries : \A e \in ToSet(disk.entries[c]) :
              /\ e.kind \in D!Kind /\ e.size \in Nat
              /\ e.kind = "DIR" => e.first \in DOMAIN disk.entries \cup {D!EndOfChain}
              /\ e.kind = "FILE" /\ e.size > 0 => e.first \in D!Clusters(disk)
      BY <1>1, SameToSet DEF D!DiskAssumption
    <3> QED BY <3>1 DEF Cls
  <2> QED BY <2>1, <2>2, <2>3, <2>4, <2>5, <2>6, <2>7, <2>8
<1>3. Cb \in Nat \ {0}
  BY <1>2 DEF Cb, D!ClusterBytes
<1>4. \A c \in Cls : disk.fat[c] \in ClsOrEnd
  BY <1>2
<1>5. {disk.reserved, disk.num_fats, disk.fat_size, disk.start} \subseteq Nat \ {0}
  BY <1>1 DEF D!LayoutAssumption
<1>6. D!FatEntries # {} => \E i \in D!FatEntries : disk.table[i].start = disk.start
                                                /\ \A j \in D!FatEntries : i <= j
  BY <1>1 DEF D!LayoutAssumption, D!FatEntries
<1>7. \A c \in DOMAIN disk.entries : disk.entries[c] \in Seq(ToSet(disk.entries[c]))
  <2>1. \A c \in DOMAIN disk.entries : disk.entries[c] \in Seq(D!ToSet(disk.entries[c]))
    BY <1>1 DEF D!DiskAssumption
  <2> QED BY <2>1, SameToSet
<1> QED BY <1>2, <1>3, <1>4, <1>5, <1>6, <1>7

(* The clusters of a chain from place m to place n, and the end from where it ends. *)
Next1(c) == IF c = D!EndOfChain THEN c ELSE disk.fat[c]
Linked(w, m, n, first) == \A i \in m .. n : w[i] = IF i = m THEN first ELSE Next1(w[i - 1])
Follows(w, m, n, first) == w \in [m .. n -> ClsOrEnd] /\ Linked(w, m, n, first)

(* There is a walk along the table from every cluster. *)
LEMMA FollowsExists ==
  ASSUME disk \in Disks, NEW m \in Int, NEW n \in Int, NEW first \in ClsOrEnd
  PROVE  \E w : Follows(w, m, n, first)
<1> DEFINE G == [x \in (m .. n) \X ClsOrEnd |-> Next1(x[2])]
<1>1. \A c \in ClsOrEnd : Next1(c) \in ClsOrEnd
  BY DiskFacts DEF Next1, ClsOrEnd
<1>2. \A i \in m .. n, c \in ClsOrEnd : G[<<i, c>>] = Next1(c)
  OBVIOUS
<1>3. G \in [(m .. n) \X ClsOrEnd -> ClsOrEnd]
  BY <1>1
<1> HIDE DEF G
<1>4. PICK w \in [m .. n -> ClsOrEnd] : Steps(w, m, n, first, G)
  BY <1>3, Iteration, Zenon
<1>5. \A i \in m .. n : w[i] = IF i = m THEN first ELSE Next1(w[i - 1])
  <2>1. \A i \in m .. n : i # m => i - 1 \in m .. n
    OBVIOUS
  <2> QED BY <1>2, <1>4, <2>1 DEF Steps
<1> QED BY <1>5 DEF Follows, Linked

(* ... and no other. *)
LEMMA LinkedUnique ==
  ASSUME NEW m \in Int, NEW n \in Int, NEW first, NEW w, NEW v,
         Linked(w, m, n, first), Linked(v, m, n, first)
  PROVE  \A i \in m .. n : w[i] = v[i]
<1> DEFINE P == {i \in m .. n : w[i] = v[i]}
<1>1. m <= n => m \in P
  BY DEF Linked
<1>2. ASSUME NEW i \in m .. n - 1, i \in P PROVE i + 1 \in P
  <2>1. PICK j \in m .. n : j = i + 1 /\ j # m /\ j - 1 = i
    OBVIOUS
  <2>2. w[j] = Next1(w[i]) /\ v[j] = Next1(v[i])
    BY <2>1 DEF Linked
  <2> QED BY <1>2, <2>1, <2>2
<1>3. m .. n \subseteq P
  <2> HIDE DEF P
  <2>1. \A i \in m .. n - 1 : i \in P => i + 1 \in P
    BY <1>2
  <2> QED BY <1>1, <2>1, Upwards, Zenon
<1> QED BY <1>3

(* Two of them agree, wherever they begin. *)
LEMMA FollowsAgree ==
  ASSUME disk \in Disks, NEW n \in Nat, NEW l \in Nat, NEW first, NEW w, NEW v,
         Follows(w, 1, n, first), Follows(v, 0, l, first)
  PROVE  \A i \in 1 .. n : i <= l + 1 => w[i] = v[i - 1]
<1> DEFINE P == {i \in 1 .. n : i <= l + 1 => w[i] = v[i - 1]}
<1>1. 1 <= n => 1 \in P
  BY DEF Follows, Linked
<1>2. ASSUME NEW i \in 1 .. n - 1, i \in P PROVE i + 1 \in P
  <2>1. PICK j \in 1 .. n : j = i + 1
    OBVIOUS
  <2>2. w[j] = Next1(w[i])
    <3>1. j # 1 /\ j - 1 = i
      BY <2>1
    <3> QED BY <3>1 DEF Follows, Linked
  <2>3. ASSUME j <= l + 1 PROVE w[j] = v[j - 1]
    <3>1. i \in 0 .. l /\ i # 0 /\ j - 1 = i /\ i <= l + 1
      BY <2>1, <2>3
    <3>2. v[i] = Next1(v[i - 1])
      BY <3>1 DEF Follows, Linked
    <3> QED BY <1>2, <2>2, <3>1, <3>2
  <2> QED BY <2>1, <2>3
<1>3. 1 .. n \subseteq P
  <2> HIDE DEF P
  <2>1. 1 \in Int /\ n \in Int /\ \A i \in 1 .. n - 1 : i \in P => i + 1 \in P
    BY <1>2
  <2> QED BY <1>1, <2>1, Upwards, Zenon
<1> QED BY <1>3

(* Once at its end a chain stays there. *)
LEMMA FollowsEnds ==
  ASSUME disk \in Disks, NEW n \in Nat, NEW first, NEW w, Follows(w, 1, n, first),
         NEW k \in 1 .. n, w[k] = D!EndOfChain
  PROVE  \A i \in k .. n : w[i] = D!EndOfChain
<1> DEFINE P == {i \in k .. n : w[i] = D!EndOfChain}
<1>1. k <= n => k \in P
  OBVIOUS
<1>2. ASSUME NEW i \in k .. n - 1, i \in P PROVE i + 1 \in P
  <2>1. PICK j \in 1 .. n : j = i + 1 /\ j # 1 /\ j - 1 = i
    OBVIOUS
  <2>2. w[j] = Next1(w[i])
    BY <2>1 DEF Follows, Linked
  <2> QED BY <1>2, <2>1, <2>2 DEF Next1
<1>3. k .. n \subseteq P
  <2> HIDE DEF P
  <2>1. k \in Int /\ n \in Int /\ \A i \in k .. n - 1 : i \in P => i + 1 \in P
    BY <1>2
  <2> QED BY <1>1, <2>1, Upwards, Zenon
<1> QED BY <1>3

(* What was read of the walk w is its first clusters, up to the end. *)
UpToEnd(chain, w, n) == /\ \A i \in 1 .. Len(chain) : chain[i] = w[i]
                        /\ \A i \in 1 .. n : i > Len(chain) => w[i] = D!EndOfChain

(* fat_read_file_clusters stops at the end of the chain, or after n clusters, and at no
   other place. *)
LEMMA ChainFollows ==
  ASSUME disk \in Disks, NEW n \in Nat, NEW first, n > 0 => first \in Cls
  PROVE  /\ D!Chain(first, n) \in Seq(Cls) /\ Len(D!Chain(first, n)) <= n
         /\ \A w : Follows(w, 1, n, first) => UpToEnd(D!Chain(first, n), w, n)
<1> DEFINE R(w) == w = [i \in 1 .. n |-> IF i = 1 THEN first
                                        ELSE IF w[i - 1] = D!EndOfChain THEN w[i - 1] ELSE disk.fat[w[i - 1]]]
           walk == CHOOSE w : R(w)
           Kept == {i \in 1 .. n : walk[i] # D!EndOfChain}
           q == [i \in Kept |-> walk[i]]
<1>1. D!Chain(first, n) = q
  BY DEF D!Chain
<1>2. Follows(walk, 1, n, first)
  <2>1. \E w : Follows(w, 1, n, first)
    <3>1. CASE n = 0
      <4>1. Follows([i \in {} |-> 0], 1, n, first)
        BY <3>1 DEF Follows, Linked
      <4> QED BY <4>1
    <3>2. CASE n > 0
      <4>1. 1 \in Int /\ n \in Int /\ first \in ClsOrEnd
        BY <3>2 DEF ClsOrEnd
      <4> QED BY <4>1, FollowsExists
    <3> QED BY <3>1, <3>2
  <2>2. ASSUME NEW w, Follows(w, 1, n, first) PROVE R(w)
    BY <2>2 DEF Follows, Linked, Next1
  <2>3. R(walk)
    <3> HIDE DEF R
    <3> QED BY <2>1, <2>2
  <2>4. ASSUME NEW w, Follows(w, 1, n, first) PROVE w = walk
    <3>1. \A i \in 1 .. n : walk[i] = IF i = 1 THEN first
                                     ELSE IF walk[i - 1] = D!EndOfChain THEN walk[i - 1] ELSE disk.fat[walk[i - 1]]
      BY <2>3
    <3> HIDE DEF walk
    <3>2. PICK g : g = [i \in 1 .. n |-> IF i = 1 THEN first
                                         ELSE IF walk[i - 1] = D!EndOfChain THEN walk[i - 1] ELSE disk.fat[walk[i - 1]]]
      OBVIOUS
    <3>3. walk = g /\ g = [i \in 1 .. n |-> g[i]]
      BY <2>3, <3>2
    <3>4. Linked(w, 1, n, first) /\ Linked(walk, 1, n, first) /\ 1 \in Int /\ n \in Int
      BY <2>4, <3>1 DEF Follows, Linked, Next1
    <3>5. \A i \in 1 .. n : w[i] = walk[i]
      BY <3>4, LinkedUnique
    <3> QED BY <2>4, <3>3, <3>5 DEF Follows
  <2> HIDE DEF walk
  <2> QED BY <2>1, <2>4
<1>3. \E k \in 0 .. n : Kept = 1 .. k
  <2> HIDE DEF walk
  <2>1. CASE Kept = 1 .. n
    BY <2>1
  <2>2. CASE Kept # 1 .. n
    <3> DEFINE Ends == {i \in 1 .. n : walk[i] = D!EndOfChain}
    <3>1. Ends # {} /\ Ends \subseteq 1 .. n
      BY <2>2
    <3>2. PICK m \in Ends : \A y \in Ends : m <= y
      <4> HIDE DEF Ends
      <4> QED BY <3>1, FirstIndex
    <3>3. \A i \in m .. n : walk[i] = D!EndOfChain
      <4>1. m \in 1 .. n /\ walk[m] = D!EndOfChain
        OBVIOUS
      <4> QED BY <1>2, <4>1, FollowsEnds
    <3>4. Kept = 1 .. m - 1 /\ m - 1 \in 0 .. n
      <4>1. \A i \in 1 .. n : i \in Kept <=> i < m
        <5>1. \A i \in 1 .. n : i \in Kept <=> i \notin Ends
          OBVIOUS
        <5>2. \A i \in m .. n : i \in 1 .. n => i \in Ends
          BY <3>3
        <5> HIDE DEF Kept, Ends
        <5>3. \A i \in 1 .. n : i < m => i \notin Ends
          BY <3>1, <3>2
        <5>4. \A i \in 1 .. n : ~(i < m) => i \in m .. n
          BY <3>1, <3>2
        <5> QED BY <5>1, <5>2, <5>3, <5>4
      <4>2. m \in 1 .. n /\ Kept \subseteq 1 .. n
        OBVIOUS
      <4> HIDE DEF Kept
      <4>3. \A i : i \in Kept <=> i \in 1 .. m - 1
        <5>1. \A i \in 1 .. m - 1 : i \in 1 .. n /\ i < m
          BY <4>2
        <5>2. \A i \in 1 .. n : i < m => i \in 1 .. m - 1
          BY <4>2
        <5> QED BY <4>1, <4>2, <5>1, <5>2
      <4>4. Kept = 1 .. m - 1
        BY <4>3, Zenon
      <4>5. m - 1 \in 0 .. n
        BY <4>2
      <4> QED BY <4>4, <4>5
    <3> QED BY <3>4
  <2> QED BY <2>1, <2>2
<1>4. PICK k \in 0 .. n : Kept = 1 .. k
  BY <1>3
<1>5. \A i \in 1 .. k : walk[i] \in Cls
  <2> HIDE DEF walk
  <2>1. \A i \in Kept : walk[i] \in Cls
    BY <1>2 DEF Follows, ClsOrEnd
  <2> QED BY <1>4, <2>1
<1>6. q \in Seq(Cls) /\ Len(q) = k /\ \A i \in 1 .. k : q[i] = walk[i]
  <2> HIDE DEF walk, Kept
  <2>1. q = [i \in 1 .. k |-> walk[i]]
    BY <1>4
  <2> HIDE DEF q
  <2> QED BY <1>5, <2>1
<1>7. ASSUME NEW w, Follows(w, 1, n, first) PROVE \A i \in 1 .. n : w[i] = walk[i]
  <2> HIDE DEF walk
  <2>1. Linked(w, 1, n, first) /\ Linked(walk, 1, n, first) /\ 1 \in Int /\ n \in Int
    BY <1>2, <1>7 DEF Follows
  <2> QED BY <2>1, LinkedUnique
<1>8. \A i \in 1 .. n : i > k => walk[i] = D!EndOfChain
  <2> HIDE DEF walk
  <2>1. \A i \in 1 .. n : i > k => i \notin Kept
    <3> HIDE DEF Kept
    <3> QED BY <1>4
  <2> QED BY <2>1
<1> HIDE DEF q, walk
<1>9. ASSUME NEW w, Follows(w, 1, n, first) PROVE UpToEnd(q, w, n)
  BY <1>4, <1>6, <1>7, <1>8, <1>9 DEF UpToEnd
<1> QED BY <1>1, <1>6, <1>9

(* What the disk says of a byte of a file, along its chain. *)
LEMMA OnDiskFollows ==
  ASSUME disk \in Disks, NEW e, e.size \in Nat, e.first \in Cls, NEW i \in 1 .. e.size,
         NEW v, Follows(v, 0, e.size, e.first), NEW k \in 0 .. e.size, k = (i - 1) \div Cb
  PROVE  D!OnDisk(e, i) = IF v[k] = D!EndOfChain THEN D!Stale ELSE <<v[k], (i - 1) % Cb>>
<1> DEFINE R(w) == w = [j \in 0 .. e.size |-> IF j = 0 THEN e.first
                                             ELSE IF w[j - 1] = D!EndOfChain THEN w[j - 1] ELSE disk.fat[w[j - 1]]]
           walk == CHOOSE w : R(w)
<1>1. D!OnDisk(e, i) = IF walk[k] = D!EndOfChain THEN D!Stale ELSE <<walk[k], (i - 1) % Cb>>
  BY DEF D!OnDisk, Cb
<1>2. R(v)
  BY DEF Follows, Linked, Next1
<1>3. R(walk)
  <2> HIDE DEF R
  <2> QED BY <1>2
<1>4. \A j \in 0 .. e.size : walk[j] = IF j = 0 THEN e.first
                                             ELSE IF walk[j - 1] = D!EndOfChain THEN walk[j - 1] ELSE disk.fat[walk[j - 1]]
  BY <1>3
<1> HIDE DEF walk
<1>5. Linked(v, 0, e.size, e.first) /\ Linked(walk, 0, e.size, e.first) /\ 0 \in Int /\ e.size \in Int
  BY <1>4 DEF Follows, Linked, Next1
<1>6. \A j \in 0 .. e.size : v[j] = walk[j]
  BY <1>5, LinkedUnique
<1> QED BY <1>1, <1>6

(* Quotients of places in a file. *)
LEMMA Quotient ==
  ASSUME NEW x \in Nat, NEW d \in Nat \ {0}
  PROVE  /\ x \div d \in Nat /\ x % d \in 0 .. d - 1 /\ x \div d <= x
         /\ x = d * (x \div d) + (x % d)
         /\ \A l \in Nat : x < d * l => x \div d < l
         /\ \A l \in Nat : d * l <= x => l <= x \div d
<1>1. x \div d \in Nat /\ x % d \in 0 .. d - 1 /\ x = d * (x \div d) + (x % d)
  BY Z3
<1>2. PICK q \in Nat, r \in 0 .. d - 1 : q = x \div d /\ r = x % d
  BY <1>1
<1>3. x = d * q + r
  BY <1>1, <1>2
<1>4. q <= x
  <2>1. PICK c \in Nat : c = d - 1
    OBVIOUS
  <2>2. d * q = q + c * q /\ c * q \in Nat
    BY <2>1
  <2> QED BY <1>3, <2>2
<1>5. ASSUME NEW l \in Nat, x < d * l PROVE q < l
  <2> SUFFICES ASSUME l <= q PROVE FALSE
    OBVIOUS
  <2>1. PICK c \in Nat : q = l + c
    OBVIOUS
  <2>2. d * q = d * l + d * c /\ d * c \in Nat /\ d * l \in Nat
    BY <2>1
  <2> QED BY <1>3, <1>5, <2>2
<1>6. ASSUME NEW l \in Nat, d * l <= x PROVE l <= q
  <2> SUFFICES ASSUME q < l PROVE FALSE
    OBVIOUS
  <2>1. PICK c \in Nat : l = q + 1 + c
    <3>1. l - q - 1 \in Nat /\ l = q + 1 + (l - q - 1)
      OBVIOUS
    <3> QED BY <3>1
  <2>2. d * l = d * q + d + d * c /\ d * c \in Nat /\ d * q \in Nat
    BY <2>1
  <2> QED BY <1>3, <1>6, <2>2
<1> QED BY <1>1, <1>2, <1>4, <1>5, <1>6

(* The clusters a file needs have room for its bytes; there is none when it is empty. *)
LEMMA NeededFacts ==
  ASSUME disk \in Disks, NEW bytes \in Nat
  PROVE  \E need \in Nat : need = D!ClustersNeeded(bytes) /\ (bytes = 0 => need = 0) /\ bytes <= Cb * need
<1>1. Cb \in Nat \ {0}
  BY DiskFacts DEF Cb, D!ClusterBytes
<1>2. PICK need \in Nat : need = D!ClustersNeeded(bytes)
  <2>1. bytes + Cb - 1 \in Nat
    BY <1>1
  <2>2. (bytes + Cb - 1) \div Cb \in Nat
    BY <1>1, <2>1, Quotient
  <2> QED BY <2>2 DEF D!ClustersNeeded, Cb
<1>3. bytes = 0 => need = 0
  <2>1. ASSUME bytes = 0 PROVE (bytes + Cb - 1) \div Cb = 0
    <3>1. PICK x \in Nat : x = bytes + Cb - 1
      BY <1>1
    <3>2. x < Cb * 1 /\ 1 \in Nat
      BY <1>1, <2>1, <3>1
    <3>3. x \div Cb \in Nat /\ x \div Cb < 1
      BY <1>1, <3>2, Quotient
    <3>4. x \div Cb = 0
      BY <3>3
    <3> QED BY <3>1, <3>4
  <2> QED BY <1>2, <2>1 DEF D!ClustersNeeded, Cb
<1>4. bytes <= Cb * need
  <2>1. PICK x \in Nat : x = bytes + Cb - 1
    BY <1>1
  <2>2. x % Cb \in 0 .. Cb - 1 /\ x = Cb * (x \div Cb) + (x % Cb)
    BY <1>1, Quotient
  <2>3. x \div Cb = need
    BY <1>2, <2>1 DEF D!ClustersNeeded, Cb
  <2>4. PICK m \in Nat : m = Cb * need
    BY <1>1
  <2>5. x = m + (x % Cb)
    BY <2>2, <2>3, <2>4
  <2> QED BY <1>1, <2>1, <2>2, <2>4, <2>5
<1> QED BY <1>2, <1>3, <1>4

(* fat_read_file_clusters: what came in with the first n sectors is what the disk has, and
   all of it when all sectors came in. *)
LEMMA ContentsOnDisk ==
  ASSUME disk \in Disks, NEW e, e.size \in Nat, e.size > 0 => e.first \in Cls,
         NEW chain, chain = D!Chain(e.first, D!ClustersNeeded(e.size)),
         NEW n \in Nat, n <= Len(chain) * disk.sectors_per_cluster
  PROVE  LET data == D!Contents(chain, n, e.size)
         IN  /\ data \in Seq(D!Byte) /\ Len(data) = e.size
             /\ \A i \in 1 .. e.size : data[i] \in {D!Stale, D!OnDisk(e, i)}
             /\ n = Len(chain) * disk.sectors_per_cluster =>
                  data = [i \in 1 .. e.size |-> D!OnDisk(e, i)]
<1> DEFINE data == D!Contents(chain, n, e.size)
           spc == disk.sectors_per_cluster
<1>1. spc \in Nat \ {0} /\ SectorBytes \in Nat \ {0} /\ Cb \in Nat \ {0} /\ Cb = spc * SectorBytes
      /\ Cls \subseteq Nat
  BY DiskFacts DEF Cb, D!ClusterBytes
<1>2. PICK need \in Nat : /\ need = D!ClustersNeeded(e.size) /\ (e.size = 0 => need = 0)
                         /\ e.size <= Cb * need
  BY NeededFacts
<1>3. /\ chain \in Seq(Cls)
      /\ \A w : Follows(w, 1, need, e.first) =>
           /\ \A i \in 1 .. Len(chain) : chain[i] = w[i]
           /\ \A i \in 1 .. need : i > Len(chain) => w[i] = D!EndOfChain
      /\ Len(chain) \in Nat /\ Len(chain) <= need
  <2>1. need > 0 => e.first \in Cls
    BY <1>2
  <2>2. /\ D!Chain(e.first, need) \in Seq(Cls) /\ Len(D!Chain(e.first, need)) <= need
        /\ \A w : Follows(w, 1, need, e.first) => UpToEnd(D!Chain(e.first, need), w, need)
    BY <2>1, ChainFollows
  <2>3. chain = D!Chain(e.first, need)
    BY <1>2
  <2> HIDE DEF data
  <2> QED BY <2>2, <2>3 DEF UpToEnd
<1>4. ASSUME NEW i \in 1 .. e.size
      PROVE  /\ i <= n * SectorBytes =>
                   /\ (i - 1) \div Cb + 1 \in 1 .. Len(chain)
                   /\ D!OnDisk(e, i) = <<chain[(i - 1) \div Cb + 1], (i - 1) % Cb>>
             /\ (i - 1) % Cb \in Nat
             /\ n = Len(chain) * spc /\ i > n * SectorBytes => D!OnDisk(e, i) = D!Stale
  <2>1. PICK x \in Nat : x = i - 1
    OBVIOUS
  <2>2. /\ x \div Cb \in Nat /\ x % Cb \in 0 .. Cb - 1 /\ x \div Cb <= x
        /\ \A l \in Nat : x < Cb * l => x \div Cb < l
        /\ \A l \in Nat : Cb * l <= x => l <= x \div Cb
    BY <1>1, Quotient
  <2>3. PICK k \in Nat : k = (i - 1) \div Cb
    BY <2>1, <2>2
  <2>4. k <= i - 1 /\ (i - 1) % Cb \in Nat
    <3>1. x % Cb \in Nat
      BY <1>1, <2>2
    <3> QED BY <2>1, <2>2, <2>3, <3>1
  <2>5. ASSUME i <= n * SectorBytes PROVE k < Len(chain)
    <3>1. PICK l \in Nat : l = Len(chain)
      BY <1>3
    <3>2. n * SectorBytes <= Cb * l
      <4>1. PICK c \in Nat : l * spc = n + c
        BY <1>1, <3>1
      <4>2. Cb * l = n * SectorBytes + c * SectorBytes /\ c * SectorBytes \in Nat
        <5>1. Cb * l = (l * spc) * SectorBytes
          BY <1>1
        <5>2. (n + c) * SectorBytes = n * SectorBytes + c * SectorBytes
          BY <1>1
        <5> QED BY <1>1, <4>1, <5>1, <5>2
      <4> QED BY <1>1, <4>2
    <3>3. i - 1 < Cb * l
      <4>1. n * SectorBytes \in Nat /\ Cb * l \in Nat
        BY <1>1
      <4> QED BY <2>5, <3>2, <4>1
    <3> QED BY <2>1, <2>2, <2>3, <3>1, <3>3
  <2>6. e.first \in Cls /\ k \in 0 .. e.size
    BY <2>4
  <2>7. PICK w, v : Follows(w, 1, need, e.first) /\ Follows(v, 0, e.size, e.first)
    <3>1. e.first \in ClsOrEnd /\ 1 \in Int /\ 0 \in Int /\ need \in Int /\ e.size \in Int
      BY <2>6 DEF ClsOrEnd
    <3> QED BY <3>1, FollowsExists
  <2>8. ASSUME i <= n * SectorBytes
        PROVE  k + 1 \in 1 .. Len(chain) /\ D!OnDisk(e, i) = <<chain[k + 1], (i - 1) % Cb>>
    <3>1. k + 1 \in 1 .. Len(chain) /\ k + 1 \in 1 .. need /\ k + 1 <= e.size + 1 /\ k + 1 - 1 = k
      BY <1>3, <2>5, <2>6, <2>8
    <3>2. chain[k + 1] = w[k + 1] /\ chain[k + 1] \in Cls
      BY <1>3, <2>7, <3>1
    <3>3. w[k + 1] = v[k]
      BY <2>7, <3>1, FollowsAgree
    <3>4. v[k] # D!EndOfChain
      BY <3>2, <3>3, DiskFacts DEF D!EndOfChain
    <3>5. D!OnDisk(e, i) = IF v[k] = D!EndOfChain THEN D!Stale ELSE <<v[k], (i - 1) % Cb>>
      BY <2>3, <2>6, <2>7, OnDiskFollows
    <3> QED BY <3>1, <3>2, <3>3, <3>4, <3>5
  <2>9. ASSUME n = Len(chain) * spc, i > n * SectorBytes PROVE D!OnDisk(e, i) = D!Stale
    <3>1. PICK l \in Nat : l = Len(chain)
      BY <1>3
    <3>2. n * SectorBytes = Cb * l
      <4>1. Cb * l = (l * spc) * SectorBytes
        BY <1>1
      <4> QED BY <2>9, <3>1, <4>1
    <3>3. Cb * l <= x /\ Cb * l \in Nat
      <4>1. PICK y \in Nat : y = n * SectorBytes
        BY <1>1
      <4>2. y <= x
        BY <2>1, <2>9, <4>1
      <4> QED BY <3>2, <4>1, <4>2
    <3>4. l <= k
      BY <2>1, <2>2, <2>3, <3>3
    <3>5. k < need
      <4>1. x < Cb * need
        <5>1. Cb * need \in Nat
          BY <1>1
        <5> QED BY <1>2, <2>1, <5>1
      <4> QED BY <2>1, <2>2, <2>3, <4>1
    <3>6. k + 1 \in 1 .. need /\ k + 1 > Len(chain) /\ k + 1 <= e.size + 1 /\ k + 1 - 1 = k
      BY <2>6, <3>1, <3>4, <3>5
    <3>7. w[k + 1] = D!EndOfChain
      BY <1>3, <2>7, <3>6
    <3>8. w[k + 1] = v[k]
      <4>1. PICK j \in 1 .. need : j = k + 1
        BY <3>6
      <4>2. w[j] = v[j - 1]
        <5>1. j <= e.size + 1
          BY <3>6, <4>1
        <5>2. \A m \in 1 .. need : m <= e.size + 1 => w[m] = v[m - 1]
          BY <2>7, FollowsAgree
        <5> QED BY <5>1, <5>2
      <4> QED BY <3>6, <4>1, <4>2
    <3>9. D!OnDisk(e, i) = IF v[k] = D!EndOfChain THEN D!Stale ELSE <<v[k], (i - 1) % Cb>>
      BY <2>3, <2>6, <2>7, OnDiskFollows
    <3> QED BY <3>7, <3>8, <3>9
  <2> QED BY <2>3, <2>4, <2>8, <2>9
<1>5. ASSUME NEW i \in 1 .. e.size
      PROVE  /\ data[i] \in {D!Stale, D!OnDisk(e, i)}
             /\ data[i] \in D!Byte
             /\ n = Len(chain) * spc => data[i] = D!OnDisk(e, i)
  <2>1. data[i] = IF i > n * SectorBytes THEN D!Stale ELSE <<chain[(i - 1) \div Cb + 1], (i - 1) % Cb>>
    BY DEF D!Contents, Cb
  <2>2. n * SectorBytes \in Nat
    BY <1>1
  <2>3. CASE i > n * SectorBytes
    BY <1>4, <2>1, <2>3 DEF D!Byte
  <2>4. CASE i <= n * SectorBytes
    <3>1. data[i] = <<chain[(i - 1) \div Cb + 1], (i - 1) % Cb>>
      BY <2>1, <2>2, <2>4
    <3>2. chain[(i - 1) \div Cb + 1] \in Nat
      <4>1. PICK j \in 1 .. Len(chain) : j = (i - 1) \div Cb + 1
        BY <1>4, <2>4
      <4>2. chain[j] \in Cls
        BY <1>3
      <4> QED BY <1>1, <4>1, <4>2
    <3> QED BY <1>4, <2>4, <3>1, <3>2 DEF D!Byte
  <2>5. i > n * SectorBytes \/ i <= n * SectorBytes
    BY <2>2
  <2> QED BY <2>3, <2>4, <2>5
<1>6. DOMAIN data = 1 .. e.size /\ data = [i \in 1 .. e.size |-> data[i]]
  BY DEF D!Contents
<1>7. data \in Seq(D!Byte) /\ Len(data) = e.size
  <2> HIDE DEF data
  <2>1. data \in [1 .. e.size -> D!Byte]
    BY <1>5, <1>6
  <2> QED BY <2>1
<1>8. ASSUME n = Len(chain) * spc PROVE data = [i \in 1 .. e.size |-> D!OnDisk(e, i)]
  <2>1. \A i \in 1 .. e.size : data[i] = D!OnDisk(e, i)
    BY <1>5, <1>8
  <2> HIDE DEF data
  <2> QED BY <1>6, <2>1
<1> QED BY <1>5, <1>7, <1>8

-----------------------------------------------------------------------------
(* The clusters of a directory: as many steps along the table as there are clusters
   reach all of them. *)
Ents == DOMAIN disk.entries
Grown(B) == B \cup {disk.fat[d] : d \in B \ {D!EndOfChain}}

(* A step along the table stays among the clusters. *)
LEMMA GrownIn ==
  ASSUME disk \in Disks, NEW B, B \subseteq ClsOrEnd
  PROVE  /\ Grown(B) \subseteq ClsOrEnd /\ B \subseteq Grown(B)
         /\ \A d \in B \ {D!EndOfChain} : disk.fat[d] \in Grown(B)
         /\ B \subseteq Ents \cup {D!EndOfChain} => Grown(B) \subseteq Ents \cup {D!EndOfChain}
<1>1. /\ \A c \in Cls : disk.fat[c] \in ClsOrEnd
      /\ \A c \in Ents : disk.fat[c] \in Ents \cup {D!EndOfChain}
  BY DiskFacts DEF Ents
<1>2. \A d \in B \ {D!EndOfChain} : d \in Cls
  BY DEF ClsOrEnd
<1> QED BY <1>1, <1>2 DEF Grown

LEMMA SameCardinality == \A S : D!Cardinality(S) = Cardinality(S)
  BY DEF D!Cardinality, Cardinality

(* What is reached from a directory's cluster contains that cluster and is closed under the
   table, is the least such set, and stays among the clusters with entries. *)
LEMMA ReachedClosed ==
  ASSUME disk \in Disks, NEW c \in ClsOrEnd
  PROVE  /\ D!Reached(c) \subseteq Cls
         /\ c \in Cls => c \in D!Reached(c)
         /\ \A d \in D!Reached(c) : disk.fat[d] \in D!Reached(c) \cup {D!EndOfChain}
         /\ c \in Ents => D!Reached(c) \subseteq Ents
         /\ \A S : c \in S /\ (\A x \in S : disk.fat[x] \in S \cup {D!EndOfChain}) => D!Reached(c) \subseteq S
<1> DEFINE N == Cardinality(Cls)
           R(f) == f = [i \in 0 .. N |-> IF i = 0 THEN {c}
                                         ELSE f[i - 1] \cup {disk.fat[d] : d \in f[i - 1] \ {D!EndOfChain}}]
           r == CHOOSE f : R(f)
<1>1. D!Reached(c) = r[N] \ {D!EndOfChain}
  BY SameCardinality DEF D!Reached, Cls
<1>2. IsFiniteSet(Cls) /\ N \in Nat /\ IsFiniteSet(ClsOrEnd) /\ Cardinality(ClsOrEnd) = N + 1
  <2>1. PICK last \in Nat : \A x \in Cls : x <= last /\ x \in Nat
    BY DiskFacts
  <2>2. Cls \subseteq 0 .. last
    BY <2>1
  <2>3. IsFiniteSet(0 .. last)
    BY FS_Interval
  <2>4. IsFiniteSet(Cls)
    BY <2>2, <2>3, FS_Subset
  <2>5. D!EndOfChain \notin Cls
    BY DiskFacts DEF D!EndOfChain
  <2> QED BY <2>4, <2>5, FS_CardinalityType, FS_AddElement DEF ClsOrEnd
<1> HIDE DEF N
<1>3. \E f : R(f)
  <2> DEFINE G == [x \in (0 .. N) \X SUBSET ClsOrEnd |-> Grown(x[2])]
  <2>1. G \in [(0 .. N) \X SUBSET ClsOrEnd -> SUBSET ClsOrEnd]
    BY GrownIn
  <2>2. \A i \in 0 .. N, B \in SUBSET ClsOrEnd : G[<<i, B>>] = Grown(B)
    OBVIOUS
  <2> HIDE DEF G
  <2>3. {c} \in SUBSET ClsOrEnd /\ 0 \in Int /\ N \in Int
    BY <1>2
  <2>4. PICK f \in [0 .. N -> SUBSET ClsOrEnd] : Steps(f, 0, N, {c}, G)
    BY <2>1, <2>3, Iteration, Zenon
  <2>5. \A i \in 0 .. N : i # 0 => i - 1 \in 0 .. N
    BY <1>2
  <2>6. \A i \in 0 .. N : f[i] = IF i = 0 THEN {c} ELSE Grown(f[i - 1])
    BY <2>2, <2>4, <2>5 DEF Steps
  <2>7. f = [i \in 0 .. N |-> f[i]]
    OBVIOUS
  <2>8. R(f)
    BY <2>6, <2>7 DEF Grown
  <2> QED BY <2>8
<1>4. R(r)
  <2> HIDE DEF R
  <2> QED BY <1>3
<1>5. \A i \in 0 .. N : r[i] = IF i = 0 THEN {c} ELSE Grown(r[i - 1])
  BY <1>4 DEF Grown
<1> HIDE DEF r
<1> DEFINE P == {i \in 0 .. N : /\ r[i] \subseteq ClsOrEnd /\ c \in r[i]
                                /\ c \in Ents => r[i] \subseteq Ents \cup {D!EndOfChain}
                                /\ Grown(r[i]) = r[i] \/ Cardinality(r[i]) >= i + 1}
<1>6. 0 \in P
  <2>1. Cardinality({c}) = 1
    BY FS_Singleton
  <2>2. r[0] = {c} /\ Cardinality({c}) = 1 /\ 0 \in 0 .. N
    BY <1>2, <1>5, <2>1
  <2>3. c \in {c} /\ {c} \subseteq ClsOrEnd /\ Cardinality({c}) >= 0 + 1
    BY <2>2
  <2> QED BY <2>2, <2>3
<1>7. ASSUME NEW i \in 0 .. N - 1, i \in P PROVE i + 1 \in P
  <2>1. PICK j \in 0 .. N : j = i + 1 /\ j # 0 /\ j - 1 = i
    BY <1>2
  <2>2. r[j] = Grown(r[i]) /\ r[i] \subseteq ClsOrEnd
    BY <1>5, <1>7, <2>1
  <2>3. /\ r[j] \subseteq ClsOrEnd /\ r[i] \subseteq r[j]
        /\ r[i] \subseteq Ents \cup {D!EndOfChain} => r[j] \subseteq Ents \cup {D!EndOfChain}
    BY <2>2, GrownIn
  <2>4. Grown(r[j]) = r[j] \/ Cardinality(r[j]) >= j + 1
    <3>1. CASE Grown(r[i]) = r[i]
      BY <2>2, <3>1
    <3>2. CASE r[i] # r[j] /\ Cardinality(r[i]) >= i + 1
      <4>1. IsFiniteSet(r[j])
        BY <1>2, <2>3, FS_Subset
      <4>2. /\ Cardinality(r[i]) \in Nat /\ Cardinality(r[j]) \in Nat
            /\ Cardinality(r[i]) <= Cardinality(r[j])
            /\ Cardinality(r[i]) # Cardinality(r[j])
        BY <2>3, <3>2, <4>1, FS_Subset, FS_CardinalityType
      <4> QED BY <2>1, <3>2, <4>2
    <3> QED BY <1>7, <2>2, <3>1, <3>2
  <2> QED BY <1>7, <2>1, <2>3, <2>4
<1>8. N \in P
  <2> HIDE DEF P
  <2>1. 0 \in Int /\ N \in Int /\ \A i \in 0 .. N - 1 : i \in P => i + 1 \in P
    BY <1>2, <1>7
  <2>2. 0 .. N \subseteq P
    BY <1>6, <2>1, Upwards, Zenon
  <2> QED BY <1>2, <2>2
<1>9. /\ r[N] \subseteq ClsOrEnd /\ c \in r[N]
      /\ c \in Ents => r[N] \subseteq Ents \cup {D!EndOfChain}
      /\ Grown(r[N]) = r[N] \/ Cardinality(r[N]) >= N + 1
  BY <1>8
<1>10. Grown(r[N]) = r[N]
  <2>1. CASE Cardinality(r[N]) >= N + 1
    <3>1. /\ Cardinality(r[N]) \in Nat /\ Cardinality(r[N]) <= N + 1
          /\ Cardinality(r[N]) = N + 1 => r[N] = ClsOrEnd
      BY <1>2, <1>9, FS_Subset, FS_CardinalityType
    <3>2. r[N] = ClsOrEnd
      BY <1>2, <2>1, <3>1
    <3> QED BY <3>2, GrownIn
  <2> QED BY <1>9, <2>1
<1>11. \A d \in r[N] \ {D!EndOfChain} : disk.fat[d] \in r[N]
  BY <1>9, <1>10, GrownIn
<1>12. D!Reached(c) \subseteq Cls
  BY <1>1, <1>9 DEF ClsOrEnd
<1>13. c \in Cls => c \in D!Reached(c)
  BY <1>1, <1>9, DiskFacts DEF D!EndOfChain
<1>14. ASSUME NEW S, c \in S, \A x \in S : disk.fat[x] \in S \cup {D!EndOfChain}
       PROVE  D!Reached(c) \subseteq S
  <2> DEFINE Q == {i \in 0 .. N : r[i] \subseteq S \cup {D!EndOfChain}}
  <2>1. 0 \in Q
    BY <1>2, <1>5, <1>14
  <2>2. ASSUME NEW i \in 0 .. N - 1, i \in Q PROVE i + 1 \in Q
    <3>1. PICK j \in 0 .. N : j = i + 1 /\ j # 0 /\ j - 1 = i
      BY <1>2
    <3>2. r[j] = Grown(r[i])
      BY <1>5, <3>1
    <3>3. Grown(r[i]) \subseteq S \cup {D!EndOfChain}
      <4>1. r[i] \subseteq S \cup {D!EndOfChain}
        BY <2>2
      <4>2. \A x \in r[i] \ {D!EndOfChain} : disk.fat[x] \in S \cup {D!EndOfChain}
        BY <1>14, <4>1
      <4> QED BY <4>1, <4>2 DEF Grown
    <3> QED BY <3>1, <3>2, <3>3
  <2> HIDE DEF Q
  <2>3. 0 \in Int /\ N \in Int /\ \A i \in 0 .. N - 1 : i \in Q => i + 1 \in Q
    BY <1>2, <2>2
  <2>4. 0 .. N \subseteq Q
    BY <2>1, <2>3, Upwards, Zenon
  <2>5. N \in Q
    BY <1>2, <2>4
  <2> QED BY <1>1, <2>5 DEF Q
<1> QED BY <1>1, <1>9, <1>11, <1>12, <1>13, <1>14

-----------------------------------------------------------------------------
(* The directories of a disk, with their paths, level by level. *)
Names == {e.name : e \in UNION {ToSet(disk.entries[c]) : c \in Ents}}
Places == Seq(Names) \X Ents
Below(d) == {<<Append(d[1], e.name), e.first>> :
               e \in {e \in D!Used(d[2]) : e.kind = "DIR" /\ e.first # D!EndOfChain}}
Deeper(L) == UNION {Below(d) : d \in L}

(* Entries in use are of the disk: they have names, sizes, and first clusters. *)
LEMMA UsedFacts ==
  ASSUME disk \in Disks, NEW c \in Ents
  PROVE  /\ \A d \in D!Reached(c) : \A e \in ToSet(disk.entries[d]) :
              e.kind \in {"FILE", "DIR"} => e \in D!Used(c)
         /\ \A e \in D!Used(c) :
              /\ e.name \in Names /\ e.size \in Nat /\ e.kind \in {"FILE", "DIR"}
              /\ e.kind = "DIR" => e.first \in Ents \cup {D!EndOfChain}
              /\ e.kind = "FILE" /\ e.size > 0 => e.first \in Cls
<1>1. c \in ClsOrEnd /\ D!Reached(c) \subseteq Ents
  BY DiskFacts, ReachedClosed DEF ClsOrEnd, Ents
<1>2. D!Used(c) = {e \in UNION {ToSet(disk.entries[d]) : d \in D!Reached(c)} : e.kind \in {"FILE", "DIR"}}
  BY SameToSet DEF D!Used, D!Entries
<1>3. \A e \in D!Used(c) : \E d \in Ents : e \in ToSet(disk.entries[d]) /\ e.kind \in {"FILE", "DIR"}
  BY <1>1, <1>2
<1>4. \A e \in D!Used(c) : e.name \in Names
  BY <1>3 DEF Names
<1>5. \A e \in D!Used(c) : /\ e.size \in Nat
                           /\ e.kind = "DIR" => e.first \in Ents \cup {D!EndOfChain}
                           /\ e.kind = "FILE" /\ e.size > 0 => e.first \in Cls
  BY <1>3, DiskFacts DEF Ents
<1> QED BY <1>2, <1>3, <1>4, <1>5

(* The directories one level below are places again. *)
LEMMA DeeperIn ==
  ASSUME disk \in Disks, NEW k \in Nat, NEW L, L \subseteq {d \in Places : Len(d[1]) = k}
  PROVE  Deeper(L) \subseteq {d \in Places : Len(d[1]) = k + 1}
<1> SUFFICES ASSUME NEW d \in L, NEW e \in D!Used(d[2]), e.kind = "DIR", e.first # D!EndOfChain
             PROVE  <<Append(d[1], e.name), e.first>> \in {x \in Places : Len(x[1]) = k + 1}
  BY DEF Deeper, Below
<1>1. d[1] \in Seq(Names) /\ d[2] \in Ents /\ Len(d[1]) = k
  BY DEF Places
<1>2. e.name \in Names /\ e.first \in Ents
  BY <1>1, UsedFacts
<1>3. PICK t : t = Append(d[1], e.name)
  OBVIOUS
<1>4. t \in Seq(Names) /\ Len(t) = k + 1
  BY <1>1, <1>2, <1>3
<1> QED BY <1>2, <1>3, <1>4 DEF Places

(* The root is a directory; a directory's subdirectory is one, unless it is too deep; and
   there is no other. *)
LEMMA DirsFacts ==
  ASSUME disk \in Disks
  PROVE  /\ <<D!Mount, D!RootCluster(disk)>> \in D!Dirs
         /\ \A d \in D!Dirs : d[1] \in Seq(Names) /\ d[2] \in Ents /\ Len(d[1]) \in 0 .. MaxDepth
         /\ \A d \in D!Dirs : d = <<D!Mount, D!RootCluster(disk)>> \/ \E above \in D!Dirs : d \in Below(above)
         /\ \A d \in D!Dirs : Len(d[1]) < MaxDepth =>
              \A e \in D!Used(d[2]) : e.kind = "DIR" /\ e.first # D!EndOfChain =>
                <<Append(d[1], e.name), e.first>> \in D!Dirs
<1> DEFINE top == {<<D!Mount, D!RootCluster(disk)>>}
           R(f) == f = [i \in 0 .. MaxDepth |-> IF i = 0 THEN top ELSE Deeper(f[i - 1])]
           l == CHOOSE f : R(f)
<1>1. D!Dirs = UNION {l[i] : i \in 0 .. MaxDepth}
  BY DEF D!Dirs, Deeper, Below
<1>2. MaxDepth \in Nat \ {0} /\ D!RootCluster(disk) \in Ents
  BY DiskFacts DEF Ents
<1>3. top \subseteq {d \in Places : Len(d[1]) = 0}
  <2>1. D!Mount \in Seq(Names) /\ Len(D!Mount) = 0
    BY DEF D!Mount
  <2>2. PICK d : d = <<D!Mount, D!RootCluster(disk)>>
    OBVIOUS
  <2>3. d[1] = D!Mount /\ d \in Places
    BY <1>2, <2>1, <2>2 DEF Places
  <2>4. top = {d}
    BY <2>2
  <2> HIDE DEF top
  <2> QED BY <2>1, <2>3, <2>4
<1>4. \E f : R(f)
  <2> DEFINE G == [x \in (0 .. MaxDepth) \X SUBSET Places |-> Deeper(x[2]) \cap Places]
  <2>1. G \in [(0 .. MaxDepth) \X SUBSET Places -> SUBSET Places]
    OBVIOUS
  <2>2. \A i \in 0 .. MaxDepth, B \in SUBSET Places : G[<<i, B>>] = Deeper(B) \cap Places
    OBVIOUS
  <2> HIDE DEF G
  <2>3. top \in SUBSET Places /\ 0 \in Int /\ MaxDepth \in Int
    BY <1>2, <1>3
  <2> HIDE DEF top
  <2>4. PICK f \in [0 .. MaxDepth -> SUBSET Places] : Steps(f, 0, MaxDepth, top, G)
    BY <2>1, <2>3, Iteration, Zenon
  <2>5. \A i \in 0 .. MaxDepth : i # 0 => i - 1 \in 0 .. MaxDepth
    BY <1>2
  <2>6. \A i \in 0 .. MaxDepth : f[i] = IF i = 0 THEN top ELSE Deeper(f[i - 1]) \cap Places
    BY <2>2, <2>4, <2>5 DEF Steps
  <2> DEFINE P == {i \in 0 .. MaxDepth : f[i] \subseteq {d \in Places : Len(d[1]) = i}}
  <2>7. 0 \in P
    BY <1>2, <1>3, <2>6
  <2>8. ASSUME NEW i \in 0 .. MaxDepth - 1, i \in P PROVE i + 1 \in P
    <3>1. PICK j \in 0 .. MaxDepth : j = i + 1 /\ j # 0 /\ j - 1 = i
      BY <1>2
    <3>2. f[j] = Deeper(f[i]) \cap Places
      BY <2>6, <3>1
    <3>3. Deeper(f[i]) \subseteq {d \in Places : Len(d[1]) = i + 1}
      <4>1. i \in Nat /\ f[i] \subseteq {d \in Places : Len(d[1]) = i}
        BY <2>8
      <4> QED BY <4>1, DeeperIn
    <3> QED BY <3>1, <3>2, <3>3
  <2>9. 0 .. MaxDepth \subseteq P
    <3> HIDE DEF P
    <3>1. 0 \in Int /\ MaxDepth \in Int /\ \A i \in 0 .. MaxDepth - 1 : i \in P => i + 1 \in P
      BY <1>2, <2>8
    <3> QED BY <2>7, <3>1, Upwards, Zenon
  <2>10. ASSUME NEW i \in 0 .. MaxDepth, i # 0 PROVE Deeper(f[i - 1]) \cap Places = Deeper(f[i - 1])
    <3>1. PICK j \in 0 .. MaxDepth : j = i - 1
      BY <2>5, <2>10
    <3>2. f[j] \subseteq {d \in Places : Len(d[1]) = j} /\ j \in Nat
      BY <2>9
    <3> QED BY <3>1, <3>2, DeeperIn
  <2>11. \A i \in 0 .. MaxDepth : f[i] = IF i = 0 THEN top ELSE Deeper(f[i - 1])
    BY <2>6, <2>10
  <2>12. f = [i \in 0 .. MaxDepth |-> f[i]]
    OBVIOUS
  <2>13. R(f)
    BY <2>11, <2>12
  <2> QED BY <2>13
<1>5. R(l)
  <2> HIDE DEF R
  <2> QED BY <1>4
<1>6. \A i \in 0 .. MaxDepth : l[i] = IF i = 0 THEN top ELSE Deeper(l[i - 1])
  BY <1>5
<1> HIDE DEF l
<1> DEFINE Q == {i \in 0 .. MaxDepth : l[i] \subseteq {d \in Places : Len(d[1]) = i}}
<1>7. 0 \in Q
  BY <1>2, <1>3, <1>6
<1>8. ASSUME NEW i \in 0 .. MaxDepth - 1, i \in Q PROVE i + 1 \in Q
  <2>1. PICK j \in 0 .. MaxDepth : j = i + 1 /\ j # 0 /\ j - 1 = i
    BY <1>2
  <2>2. l[j] = Deeper(l[i])
    BY <1>6, <2>1
  <2>3. i \in Nat /\ l[i] \subseteq {d \in Places : Len(d[1]) = i}
    BY <1>8
  <2> QED BY <2>1, <2>2, <2>3, DeeperIn
<1>9. 0 .. MaxDepth \subseteq Q
  <2> HIDE DEF Q
  <2>1. 0 \in Int /\ MaxDepth \in Int /\ \A i \in 0 .. MaxDepth - 1 : i \in Q => i + 1 \in Q
    BY <1>2, <1>8
  <2> QED BY <1>7, <2>1, Upwards, Zenon
<1>10. <<D!Mount, D!RootCluster(disk)>> \in D!Dirs
  BY <1>1, <1>2, <1>6
<1>11. \A d \in D!Dirs : d[1] \in Seq(Names) /\ d[2] \in Ents /\ Len(d[1]) \in 0 .. MaxDepth
  BY <1>1, <1>9 DEF Places
<1>12. ASSUME NEW d \in D!Dirs, Len(d[1]) < MaxDepth, NEW e \in D!Used(d[2]), e.kind = "DIR", e.first # D!EndOfChain
       PROVE  <<Append(d[1], e.name), e.first>> \in D!Dirs
  <2>1. PICK i \in 0 .. MaxDepth : d \in l[i]
    BY <1>1
  <2>2. Len(d[1]) = i
    BY <1>9, <2>1
  <2>3. PICK j \in 0 .. MaxDepth : j = i + 1 /\ j # 0 /\ j - 1 = i
    BY <1>2, <1>12, <2>2
  <2>4. l[j] = Deeper(l[i])
    BY <1>6, <2>3
  <2>5. <<Append(d[1], e.name), e.first>> \in Deeper(l[i])
    BY <1>12, <2>1 DEF Deeper, Below
  <2> QED BY <1>1, <2>4, <2>5
<1>13. ASSUME NEW d \in D!Dirs, d # <<D!Mount, D!RootCluster(disk)>>
       PROVE  \E above \in D!Dirs : d \in Below(above)
  <2>1. PICK i \in 0 .. MaxDepth : d \in l[i]
    BY <1>1
  <2>2. i # 0
    BY <1>6, <1>13, <2>1
  <2>3. PICK j \in 0 .. MaxDepth : j = i - 1
    BY <1>2, <2>2
  <2>4. d \in Deeper(l[j])
    BY <1>6, <2>1, <2>2, <2>3
  <2> QED BY <1>1, <2>4 DEF Deeper
<1> HIDE DEF R, top, Q
<1> QED BY <1>10, <1>11, <1>12, <1>13

-----------------------------------------------------------------------------
(* The drive's registers and the sectors of a partition. *)

(* A number below R * R * R * H is the value of its digits. *)
LEMMA Digits ==
  ASSUME NEW R \in Nat \ {0}, NEW H \in Nat \ {0}, NEW x \in Nat, x < R * R * R * H
  PROVE  LET r == x % R
             s == (x \div R) % R
             t == (x \div (R * R)) % R
             v == (x \div (R * R * R)) % H
         IN  /\ r + R * (s + R * (t + R * v)) = x
             /\ r \in 0 .. R - 1 /\ s \in 0 .. R - 1 /\ t \in 0 .. R - 1 /\ v \in 0 .. H - 1
<1> DEFINE q == x \div R
           u == q \div R
           v == u \div R
           r == x % R
           s == q % R
           t == u % R
<1>1. \A a \in Nat, b \in Nat \ {0}, c \in Nat \ {0} : (a \div b) \div c = a \div (b * c)
  BY Z3
<1>2. R * R \in Nat \ {0} /\ \A a \in Nat, b \in Nat : a * b \in Nat
  OBVIOUS
<1>3. u = x \div (R * R) /\ v = x \div (R * R * R)
  <2>1. u = x \div (R * R)
    BY <1>1
  <2>2. (x \div (R * R)) \div R = x \div ((R * R) * R)
    BY <1>1, <1>2
  <2> QED BY <2>1, <2>2
<1>4. q \in Nat /\ r \in 0 .. R - 1 /\ x = R * q + r
  BY Quotient
<1> HIDE DEF q, r
<1>5. u \in Nat /\ s \in 0 .. R - 1 /\ q = R * u + s
  BY <1>4, Quotient
<1> HIDE DEF u, s
<1>6. v \in Nat /\ t \in 0 .. R - 1 /\ u = R * v + t
  BY <1>5, Quotient
<1> HIDE DEF v, t
<1>7. v < H
  <2> SUFFICES ASSUME H <= v PROVE FALSE
    BY <1>6
  <2>1. PICK c \in Nat : v = H + c
    BY <1>6
  <2>2. PICK w \in Nat : w = R * R * R
    BY <1>2
  <2>3. PICK y \in Nat : y = R * (R * t) + R * s + r
    <3>1. t \in Nat /\ s \in Nat /\ r \in Nat
      BY <1>4, <1>5, <1>6
    <3>2. R * t \in Nat /\ R * s \in Nat
      BY <1>2, <3>1
    <3>3. R * (R * t) \in Nat
      BY <1>2, <3>2
    <3> QED BY <3>1, <3>2, <3>3
  <2>4. x = w * v + y
    <3>1. x = R * (R * (R * v + t) + s) + r
      BY <1>4, <1>5, <1>6
    <3> QED BY <1>4, <1>5, <1>6, <2>2, <2>3, <3>1
  <2>5. w * v = w * H + w * c /\ w * c \in Nat /\ w * H \in Nat
    BY <1>2, <2>1
  <2>6. x < w * H
    BY <2>2
  <2> QED BY <2>4, <2>5, <2>6
<1>8. v % H = v /\ v \in 0 .. H - 1
  BY <1>6, <1>7
<1>9. r + R * (s + R * (t + R * v)) = x
  BY <1>4, <1>5, <1>6
<1>10. x % R = r /\ (x \div R) % R = s /\ (x \div (R * R)) % R = t /\ (x \div (R * R * R)) % H = v
  BY <1>3, <1>8 DEF r, s, t, q
<1> QED BY <1>4, <1>5, <1>6, <1>8, <1>9, <1>10

(* ata_read_sector puts a sector's number into the registers digit by digit. *)
LEMMA AddressOfRegisters ==
  ASSUME disk \in Disks, NEW lba \in Nat, lba < Radix * Radix * Radix * Heads
  PROVE  /\ D!Address(D!Registers(lba)) = lba
         /\ D!Registers(lba).lba0 \in 0 .. Radix - 1 /\ D!Registers(lba).lba1 \in 0 .. Radix - 1
         /\ D!Registers(lba).lba2 \in 0 .. Radix - 1 /\ D!Registers(lba).head \in 0 .. Heads - 1
<1>1. Radix \in Nat \ {0} /\ Heads \in Nat \ {0}
  BY DiskFacts
<1> DEFINE r == lba % Radix
           s == (lba \div Radix) % Radix
           t == (lba \div (Radix * Radix)) % Radix
           v == (lba \div (Radix * Radix * Radix)) % Heads
<1>2. /\ r + Radix * (s + Radix * (t + Radix * v)) = lba
      /\ r \in 0 .. Radix - 1 /\ s \in 0 .. Radix - 1 /\ t \in 0 .. Radix - 1 /\ v \in 0 .. Heads - 1
  BY <1>1, Digits, Zenon
<1>3. D!Registers(lba) = [lba0 |-> r, lba1 |-> s, lba2 |-> t, head |-> v]
  BY DEF D!Registers
<1> HIDE DEF r, s, t, v
<1> QED BY <1>2, <1>3 DEF D!Address
LEMMA SameFlattenSeq == \A q : D!FlattenSeq(q) = FlattenSeq(q)
  BY DEF D!FlattenSeq, FlattenSeq

Tag == {"boot record", "reserved", "table", "cluster", "elsewhere"} \X Nat \X Nat

(* Sectors by what they hold. *)
LEMMA TagsIn ==
  ASSUME NEW k \in Nat, NEW s \in Nat
  PROVE  <<"reserved", k, s>> \in Tag /\ <<"table", k, s>> \in Tag /\ <<"cluster", k, s>> \in Tag
BY DEF Tag

(* A function on 1 .. n is a sequence; what two sequences are one behind the other. *)
LEMMA AsSequence ==
  ASSUME NEW T, NEW n \in Nat, NEW f \in [1 .. n -> T]
  PROVE  f \in Seq(T) /\ Len(f) = n
OBVIOUS

(* Lists of the same length, one after the other. *)
LEMMA Joined ==
  ASSUME NEW T, NEW a \in Seq(T), NEW b \in Seq(T), NEW t, t = a \o b
  PROVE  /\ t \in Seq(T) /\ Len(t) = Len(a) + Len(b)
         /\ \A i \in 1 .. Len(a) : t[i] = a[i]
         /\ \A i \in 1 .. Len(b) : t[Len(a) + i] = b[i]
OBVIOUS

(* mbr.c takes the first partition of a FAT type, which is the one of the disk. *)
LEMMA PartitionLbaFacts ==
  ASSUME disk \in Disks, D!FatEntries # {}
  PROVE  D!PartitionLba = disk.start /\ disk.start \in Nat \ {0}
<1>1. PICK i \in D!FatEntries : disk.table[i].start = disk.start /\ \A j \in D!FatEntries : i <= j
  BY DiskFacts
<1>2. D!FatEntries \subseteq 1 .. 4
  BY VolumeAssumption DEF D!LayoutAssumption, D!FatEntries, D!Fats
<1>3. D!Min(D!FatEntries) \in D!FatEntries /\ \A j \in D!FatEntries : D!Min(D!FatEntries) <= j
  BY <1>1 DEF D!Min
<1>4. PICK m \in 1 .. 4 : m = D!Min(D!FatEntries) /\ m <= i /\ i <= m
  BY <1>1, <1>2, <1>3
<1>5. i \in 1 .. 4
  BY <1>2
<1>6. D!Min(D!FatEntries) = i
  BY <1>4, <1>5
<1>7. disk.start \in Nat \ {0}
  BY DiskFacts
<1> QED BY <1>1, <1>6, <1>7 DEF D!PartitionLba

(* The sectors behind the partition's first: reserved ones, the tables, the clusters. *)
LEMMA PartitionFacts ==
  ASSUME disk \in Disks
  PROVE  LET fats == disk.reserved + disk.num_fats * disk.fat_size
         IN  /\ 1 \in DOMAIN D!Partition /\ D!Partition[1] \in Tag
             /\ \A s \in 1 .. disk.fat_size :
                  disk.reserved + s \in DOMAIN D!Partition /\ D!Partition[disk.reserved + s] = D!TableTags(1)[s]
             /\ \A c \in Cls : \A s \in 1 .. disk.sectors_per_cluster :
                  /\ fats + (c - 2) * disk.sectors_per_cluster + s \in DOMAIN D!Partition
                  /\ D!Partition[fats + (c - 2) * disk.sectors_per_cluster + s] = D!ClusterTags(c)[s]
             /\ \A i \in DOMAIN D!Partition : i > 0
<1> DEFINE spc == disk.sectors_per_cluster
           width == disk.fat_size
           top == D!Max(Cls)
           rs == [s \in 1 .. disk.reserved |-> <<"reserved", 0, s>>]
           ts == [k \in 1 .. disk.num_fats |-> D!TableTags(k)]
           cs == [k \in 1 .. top - 1 |-> D!ClusterTags(k + 1)]
           A == rs
           B == FlattenSeq(ts)
           C == FlattenSeq(cs)
<1>1. /\ spc \in Nat \ {0} /\ width \in Nat \ {0} /\ disk.reserved \in Nat \ {0} /\ disk.num_fats \in Nat \ {0}
      /\ Cls \subseteq Nat \ {0, 1}
  BY DiskFacts
<1>2. top \in Cls /\ \A c \in Cls : c <= top
  <2>1. PICK last \in Cls : \A c \in Cls : c <= last
    BY DiskFacts
  <2>2. \A c \in Cls : last >= c
    BY <1>1, <2>1
  <2>3. top \in Cls /\ \A c \in Cls : top >= c
    BY <2>2 DEF D!Max
  <2> QED BY <1>1, <2>3
<1>3. D!Partition = (A \o B) \o C
  BY SameFlattenSeq DEF D!Partition, Cls
<1> HIDE DEF top
<1>4. A \in Seq(Tag) /\ Len(A) = disk.reserved /\ A[1] \in Tag
  <2>1. \A s \in 1 .. disk.reserved : <<"reserved", 0, s>> \in Tag
    <3>1. 0 \in Nat /\ \A s \in 1 .. disk.reserved : s \in Nat
      BY <1>1
    <3> QED BY <3>1, TagsIn, Zenon
  <2>2. A \in [1 .. disk.reserved -> Tag]
    BY <2>1
  <2> HIDE DEF A, rs
  <2> QED BY <1>1, <2>2
<1>5. B \in Seq(Tag) /\ Len(B) = disk.num_fats * width /\ \A s \in 1 .. width : B[s] = D!TableTags(1)[s]
  <2>1. ASSUME NEW k \in Nat PROVE D!TableTags(k) \in Seq(Tag) /\ Len(D!TableTags(k)) = width
    <3>1. \A s \in 1 .. width : <<"table", k, s>> \in Tag
      <4>1. \A s \in 1 .. width : s \in Nat
        BY <1>1
      <4> QED BY <4>1, TagsIn, Zenon
    <3>2. D!TableTags(k) \in [1 .. width -> Tag]
      BY <3>1 DEF D!TableTags
    <3> QED BY <1>1, <3>2
  <2>2. ts \in [1 .. disk.num_fats -> Seq(Tag)] /\ \A k \in 1 .. disk.num_fats : ts[k] = D!TableTags(k)
    BY <2>1
  <2> HIDE DEF ts
  <2>3. ts \in Seq(Seq(Tag)) /\ Len(ts) = disk.num_fats /\ \A k \in 1 .. disk.num_fats : Len(ts[k]) = width
    <3>1. ts \in Seq(Seq(Tag)) /\ Len(ts) = disk.num_fats
      BY <1>1, <2>2, AsSequence
    <3>2. \A k \in 1 .. disk.num_fats : k \in Nat
      OBVIOUS
    <3> QED BY <2>1, <2>2, <3>1, <3>2
  <2>4. /\ B \in Seq(Tag) /\ Len(B) = disk.num_fats * width
        /\ \A k \in 1 .. disk.num_fats : \A s \in 1 .. width : B[(k - 1) * width + s] = ts[k][s]
    <3>1. PICK n \in Nat : n = disk.num_fats
      BY <1>1
    <3>2. ts \in Seq(Seq(Tag)) /\ Len(ts) = n /\ \A k \in 1 .. n : Len(ts[k]) = width
      BY <2>3, <3>1
    <3>3. /\ B \in Seq(Tag) /\ Len(B) = n * width
          /\ \A k \in 1 .. n : \A s \in 1 .. width : B[(k - 1) * width + s] = ts[k][s]
      <4>1. PICK w \in Nat \ {0} : w = width
        BY <1>1
      <4>2. ts \in Seq(Seq(Tag)) /\ Len(ts) = n /\ \A k \in 1 .. n : Len(ts[k]) = w
        BY <3>2, <4>1
      <4>3. /\ B \in Seq(Tag) /\ Len(B) = n * w
            /\ \A k \in 1 .. n : \A s \in 1 .. w : B[(k - 1) * w + s] = ts[k][s]
        BY <4>2, EqualPieces
      <4> HIDE DEF B
      <4> QED BY <4>1, <4>3
    <3> QED BY <3>1, <3>3
  <2> HIDE DEF B
  <2>5. 1 \in 1 .. disk.num_fats /\ \A s \in 1 .. width : (1 - 1) * width + s = s
    BY <1>1
  <2> QED BY <2>2, <2>4, <2>5
<1>6. /\ C \in Seq(Tag) /\ Len(C) = (top - 1) * spc
      /\ \A c \in Cls : \A s \in 1 .. spc : C[(c - 2) * spc + s] = D!ClusterTags(c)[s]
  <2>1. ASSUME NEW k \in Nat PROVE D!ClusterTags(k) \in Seq(Tag) /\ Len(D!ClusterTags(k)) = spc
    <3>1. \A s \in 1 .. spc : <<"cluster", k, s>> \in Tag
      <4>1. \A s \in 1 .. spc : s \in Nat
        BY <1>1
      <4> QED BY <4>1, TagsIn, Zenon
    <3>2. D!ClusterTags(k) \in [1 .. spc -> Tag]
      BY <3>1 DEF D!ClusterTags
    <3> QED BY <1>1, <3>2
  <2>2. PICK n \in Nat : n = top - 1
    BY <1>1, <1>2
  <2>3. cs \in [1 .. n -> Seq(Tag)] /\ \A k \in 1 .. n : cs[k] = D!ClusterTags(k + 1)
    BY <2>1, <2>2
  <2> HIDE DEF cs
  <2>4. cs \in Seq(Seq(Tag)) /\ Len(cs) = n /\ \A k \in 1 .. n : Len(cs[k]) = spc
    <3>1. cs \in Seq(Seq(Tag)) /\ Len(cs) = n
      BY <2>3, AsSequence
    <3>2. \A k \in 1 .. n : k + 1 \in Nat
      OBVIOUS
    <3> QED BY <2>1, <2>3, <3>1, <3>2
  <2>5. /\ C \in Seq(Tag) /\ Len(C) = n * spc
        /\ \A k \in 1 .. n : \A s \in 1 .. spc : C[(k - 1) * spc + s] = cs[k][s]
    <3>1. PICK w \in Nat \ {0} : w = spc
      BY <1>1
    <3>2. \A k \in 1 .. n : Len(cs[k]) = w
      BY <2>4, <3>1
    <3>3. /\ C \in Seq(Tag) /\ Len(C) = n * w
          /\ \A k \in 1 .. n : \A s \in 1 .. w : C[(k - 1) * w + s] = cs[k][s]
      BY <2>4, <3>2, EqualPieces
    <3> HIDE DEF C
    <3> QED BY <3>1, <3>3
  <2> HIDE DEF C
  <2>6. ASSUME NEW c \in Cls, NEW s \in 1 .. spc PROVE C[(c - 2) * spc + s] = D!ClusterTags(c)[s]
    <3>1. PICK k \in 1 .. n : k = c - 1
      BY <1>1, <1>2, <2>2
    <3>2. c \in Nat /\ k - 1 = c - 2 /\ k + 1 = c
      BY <1>1, <3>1
    <3> QED BY <2>3, <2>5, <3>2
  <2> QED BY <2>2, <2>5, <2>6
<1> HIDE DEF A, B, C
<1> DEFINE fats == disk.reserved + disk.num_fats * width
<1>7. PICK b \in Nat, e \in Nat : b = disk.num_fats * width /\ e = (top - 1) * spc
  <2>1. \A x \in Nat, y \in Nat : x * y \in Nat
    OBVIOUS
  <2>2. top - 1 \in Nat
    BY <1>1, <1>2
  <2> QED BY <1>1, <2>1, <2>2
<1>8. /\ DOMAIN D!Partition = 1 .. disk.reserved + b + e
      /\ D!Partition[1] = A[1]
      /\ \A j \in 1 .. b : D!Partition[disk.reserved + j] = B[j]
      /\ \A j \in 1 .. e : D!Partition[disk.reserved + b + j] = C[j]
  <2>1. PICK t, u : t = A \o B /\ u = t \o C
    OBVIOUS
  <2>2. /\ t \in Seq(Tag) /\ Len(t) = disk.reserved + b /\ t[1] = A[1]
        /\ \A j \in 1 .. b : t[disk.reserved + j] = B[j]
    <3>1. 1 \in 1 .. Len(A)
      BY <1>1, <1>4
    <3>2. /\ t \in Seq(Tag) /\ Len(t) = Len(A) + Len(B)
          /\ \A i \in 1 .. Len(A) : t[i] = A[i]
          /\ \A i \in 1 .. Len(B) : t[Len(A) + i] = B[i]
      <4>1. A \in Seq(Tag) /\ B \in Seq(Tag)
        BY <1>4, <1>5
      <4> QED BY <2>1, <4>1, Joined
    <3> QED BY <1>4, <1>5, <1>7, <3>1, <3>2
  <2>3. /\ u \in Seq(Tag) /\ Len(u) = disk.reserved + b + e
        /\ \A j \in 1 .. disk.reserved + b : u[j] = t[j]
        /\ \A j \in 1 .. e : u[disk.reserved + b + j] = C[j]
    <3>1. /\ u \in Seq(Tag) /\ Len(u) = Len(t) + Len(C)
          /\ \A i \in 1 .. Len(t) : u[i] = t[i]
          /\ \A i \in 1 .. Len(C) : u[Len(t) + i] = C[i]
      <4>1. t \in Seq(Tag) /\ C \in Seq(Tag)
        BY <1>6, <2>2
      <4> QED BY <2>1, <4>1, Joined
    <3> QED BY <1>6, <1>7, <2>2, <3>1
  <2>4. 1 \in 1 .. disk.reserved + b /\ \A j \in 1 .. b : disk.reserved + j \in 1 .. disk.reserved + b
    BY <1>1, <1>7
  <2>5. D!Partition = u
    BY <1>3, <2>1
  <2>6. DOMAIN u = 1 .. disk.reserved + b + e
    BY <2>3
  <2> QED BY <2>2, <2>3, <2>4, <2>5, <2>6
<1>9. ASSUME NEW s \in 1 .. width
      PROVE  disk.reserved + s \in DOMAIN D!Partition /\ D!Partition[disk.reserved + s] = D!TableTags(1)[s]
  <2>1. width <= b
    <3>1. PICK m \in Nat : disk.num_fats = m + 1
      BY <1>1
    <3>2. b = m * width + width /\ m * width \in Nat
      BY <1>1, <1>7, <3>1
    <3> QED BY <1>1, <3>2
  <2>2. s \in 1 .. b /\ disk.reserved + s \in 1 .. disk.reserved + b + e
    BY <1>1, <1>7, <2>1
  <2> QED BY <1>5, <1>8, <2>2
<1>10. ASSUME NEW c \in Cls, NEW s \in 1 .. spc
       PROVE  /\ fats + (c - 2) * spc + s \in DOMAIN D!Partition
              /\ D!Partition[fats + (c - 2) * spc + s] = D!ClusterTags(c)[s]
  <2>1. PICK k \in Nat, l \in Nat : k = c - 2 /\ top - 1 = k + 1 + l
    BY <1>1, <1>2
  <2>2. k * spc \in Nat /\ l * spc \in Nat /\ e = k * spc + spc + l * spc
    BY <1>1, <1>7, <2>1
  <2>3. PICK j \in 1 .. e : j = (c - 2) * spc + s
    BY <1>1, <1>7, <2>1, <2>2
  <2>4. fats + (c - 2) * spc + s = disk.reserved + b + j
    BY <1>1, <1>7, <2>1, <2>2, <2>3
  <2>5. disk.reserved + b + j \in 1 .. disk.reserved + b + e
    BY <1>1, <1>7
  <2> QED BY <1>6, <1>8, <2>3, <2>4, <2>5
<1>11. 1 \in DOMAIN D!Partition /\ D!Partition[1] \in Tag /\ \A i \in DOMAIN D!Partition : i > 0
  BY <1>1, <1>4, <1>7, <1>8
<1> QED BY <1>9, <1>10, <1>11

(* first_sector_of_cluster and the sums of fat_load_fat: a sector is the one that was
   meant. *)
LEMMA SectorsMeant ==
  ASSUME disk \in Disks, D!FatEntries # {}
  PROVE  /\ D!PartitionLba \in Nat /\ D!SectorAt(D!PartitionLba) = D!Partition[1]
         /\ \A s \in 1 .. disk.fat_size :
              /\ D!PartitionLba + disk.reserved + s - 1 \in Nat
              /\ D!SectorAt(D!PartitionLba + disk.reserved + s - 1) = D!TableTags(1)[s]
         /\ \A c \in Cls : \A s \in 1 .. disk.sectors_per_cluster :
              /\ D!FirstSector(c) + s - 1 \in Nat
              /\ D!SectorAt(D!FirstSector(c) + s - 1) = D!ClusterTags(c)[s]
<1>1. PICK start \in Nat \ {0} : start = disk.start /\ start = D!PartitionLba
  BY PartitionLbaFacts
<1>2. ASSUME NEW i \in DOMAIN D!Partition, NEW lba \in Nat, i \in Nat \ {0}, lba = start + i - 1
      PROVE  D!SectorAt(lba) = D!Partition[i]
  <2>1. lba # 0 /\ lba - disk.start + 1 = i
    BY <1>1, <1>2
  <2> QED BY <2>1 DEF D!SectorAt
<1>3. /\ disk.reserved \in Nat \ {0} /\ disk.fat_size \in Nat \ {0} /\ disk.num_fats \in Nat \ {0}
      /\ disk.sectors_per_cluster \in Nat \ {0} /\ Cls \subseteq Nat \ {0, 1}
  BY DiskFacts
<1>4. PICK f \in Nat : f = disk.num_fats * disk.fat_size
  <2>1. \A a \in Nat, b \in Nat : a * b \in Nat
    OBVIOUS
  <2> QED BY <1>3, <2>1
<1>5. D!PartitionLba \in Nat /\ D!SectorAt(D!PartitionLba) = D!Partition[1]
  <2>1. 1 \in DOMAIN D!Partition
    BY PartitionFacts
  <2>2. start \in Nat /\ 1 \in Nat \ {0} /\ start = start + 1 - 1
    OBVIOUS
  <2> QED BY <1>1, <1>2, <2>1, <2>2
<1>6. ASSUME NEW s \in 1 .. disk.fat_size
      PROVE  /\ D!PartitionLba + disk.reserved + s - 1 \in Nat
             /\ D!SectorAt(D!PartitionLba + disk.reserved + s - 1) = D!TableTags(1)[s]
  <2>1. PICK i \in Nat \ {0} : i = disk.reserved + s
    BY <1>3
  <2>2. i \in DOMAIN D!Partition /\ D!Partition[i] = D!TableTags(1)[s]
    BY <2>1, PartitionFacts
  <2>3. PICK lba \in Nat : lba = start + i - 1
    OBVIOUS
  <2>4. lba = D!PartitionLba + disk.reserved + s - 1
    BY <1>1, <1>3, <2>1, <2>3
  <2> QED BY <1>2, <2>2, <2>3, <2>4
<1>7. ASSUME NEW c \in Cls, NEW s \in 1 .. disk.sectors_per_cluster
      PROVE  /\ D!FirstSector(c) + s - 1 \in Nat
             /\ D!SectorAt(D!FirstSector(c) + s - 1) = D!ClusterTags(c)[s]
  <2>1. PICK k \in Nat : k = (c - 2) * disk.sectors_per_cluster
    <3>1. c - 2 \in Nat /\ disk.sectors_per_cluster \in Nat
      BY <1>3
    <3>2. \A a \in Nat, b \in Nat : a * b \in Nat
      OBVIOUS
    <3> QED BY <3>1, <3>2
  <2>2. PICK i \in Nat \ {0} : i = disk.reserved + f + k + s
    BY <1>3
  <2>3. i \in DOMAIN D!Partition /\ D!Partition[i] = D!ClusterTags(c)[s]
    <3>1. i = disk.reserved + disk.num_fats * disk.fat_size + (c - 2) * disk.sectors_per_cluster + s
      BY <1>4, <2>1, <2>2
    <3> QED BY <3>1, PartitionFacts
  <2>4. PICK lba \in Nat : lba = start + i - 1
    OBVIOUS
  <2>5. D!FirstSector(c) = start + disk.reserved + f + k
    BY <1>1, <1>4, <2>1 DEF D!FirstSector
  <2>6. lba = D!FirstSector(c) + s - 1
    BY <1>3, <2>2, <2>4, <2>5
  <2> QED BY <1>2, <2>3, <2>4, <2>6
<1> QED BY <1>5, <1>6, <1>7

(* What a read is to bring: sector by sector what is meant. *)
Meant(todo, want) ==
  /\ todo \in Seq(Nat) /\ want \in Seq(Tag) /\ Len(todo) = Len(want)
  /\ \A i \in 1 .. Len(todo) : D!SectorAt(todo[i]) = want[i]

(* first_sector_of_cluster: the sectors of a cluster hold the cluster. *)
LEMMA ClusterMeant ==
  ASSUME disk \in Disks, D!FatEntries # {}, NEW c \in Cls
  PROVE  /\ Meant(D!Sectors(c), D!ClusterTags(c))
         /\ Len(D!Sectors(c)) = disk.sectors_per_cluster
<1>1. disk.sectors_per_cluster \in Nat \ {0} /\ c \in Nat
  BY DiskFacts
<1>2. \A s \in 1 .. disk.sectors_per_cluster : <<"cluster", c, s>> \in Tag
  <2>1. \A s \in 1 .. disk.sectors_per_cluster : s \in Nat
    BY <1>1
  <2> QED BY <1>1, <2>1, TagsIn, Zenon
<1>3. PICK t, w : t = D!Sectors(c) /\ w = D!ClusterTags(c)
  OBVIOUS
<1>4. /\ t \in [1 .. disk.sectors_per_cluster -> Nat]
      /\ \A s \in 1 .. disk.sectors_per_cluster : D!SectorAt(t[s]) = w[s]
  <2>1. \A s \in 1 .. disk.sectors_per_cluster :
          D!FirstSector(c) + s - 1 \in Nat /\ D!SectorAt(D!FirstSector(c) + s - 1) = w[s]
    BY <1>3, SectorsMeant
  <2>2. t = [s \in 1 .. disk.sectors_per_cluster |-> D!FirstSector(c) + s - 1]
    BY <1>3 DEF D!Sectors
  <2> QED BY <2>1, <2>2
<1>5. w \in [1 .. disk.sectors_per_cluster -> Tag]
  BY <1>2, <1>3 DEF D!ClusterTags
<1>6. t \in Seq(Nat) /\ Len(t) = disk.sectors_per_cluster
  BY <1>1, <1>4, AsSequence
<1>7. w \in Seq(Tag) /\ Len(w) = disk.sectors_per_cluster
  BY <1>1, <1>5, AsSequence
<1> QED BY <1>3, <1>4, <1>6, <1>7 DEF Meant

(* fat_load_fat: its sectors hold the first copy of the table. *)
LEMMA TableMeant ==
  ASSUME disk \in Disks, D!FatEntries # {}
  PROVE  Meant([s \in 1 .. disk.fat_size |-> D!PartitionLba + disk.reserved + s - 1], D!TableTags(1))
<1>1. disk.fat_size \in Nat \ {0}
  BY DiskFacts
<1>2. \A s \in 1 .. disk.fat_size : <<"table", 1, s>> \in Tag
  <2>1. 1 \in Nat /\ \A s \in 1 .. disk.fat_size : s \in Nat
    BY <1>1
  <2> QED BY <2>1, TagsIn, Zenon
<1>3. PICK t, w : /\ t = [s \in 1 .. disk.fat_size |-> D!PartitionLba + disk.reserved + s - 1]
                  /\ w = D!TableTags(1)
  OBVIOUS
<1>4. /\ t \in [1 .. disk.fat_size -> Nat]
      /\ \A s \in 1 .. disk.fat_size : D!SectorAt(t[s]) = w[s]
  BY <1>3, SectorsMeant
<1>5. w \in [1 .. disk.fat_size -> Tag]
  BY <1>2, <1>3 DEF D!TableTags
<1>6. t \in Seq(Nat) /\ Len(t) = disk.fat_size
  BY <1>1, <1>4, AsSequence
<1>7. w \in Seq(Tag) /\ Len(w) = disk.fat_size
  BY <1>1, <1>5, AsSequence
<1>8. Meant(t, w)
  BY <1>4, <1>6, <1>7 DEF Meant
<1> QED BY <1>3, <1>8

(* fat_read_file_clusters: the sectors of a chain hold its clusters, in order. *)
LEMMA ChainMeant ==
  ASSUME disk \in Disks, D!FatEntries # {}, NEW chain \in Seq(Cls)
  PROVE  LET todo == D!FlattenSeq([i \in DOMAIN chain |-> D!Sectors(chain[i])])
             want == D!FlattenSeq([i \in DOMAIN chain |-> D!ClusterTags(chain[i])])
         IN  Meant(todo, want) /\ Len(want) = Len(chain) * disk.sectors_per_cluster
<1>1. PICK n \in Nat, w \in Nat \ {0} : n = Len(chain) /\ w = disk.sectors_per_cluster
  BY DiskFacts
<1>2. DOMAIN chain = 1 .. n /\ \A i \in 1 .. n : chain[i] \in Cls
  BY <1>1
<1>3. PICK p, q : /\ p = [i \in DOMAIN chain |-> D!Sectors(chain[i])]
                  /\ q = [i \in DOMAIN chain |-> D!ClusterTags(chain[i])]
  OBVIOUS
<1>4. \A i \in 1 .. n : /\ p[i] \in Seq(Nat) /\ q[i] \in Seq(Tag) /\ Len(p[i]) = w /\ Len(q[i]) = w
                        /\ \A s \in 1 .. w : D!SectorAt(p[i][s]) = q[i][s]
  <2> TAKE i \in 1 .. n
  <2>1. Meant(D!Sectors(chain[i]), D!ClusterTags(chain[i])) /\ Len(D!Sectors(chain[i])) = w
    BY <1>1, <1>2, ClusterMeant
  <2>2. p[i] = D!Sectors(chain[i]) /\ q[i] = D!ClusterTags(chain[i])
    BY <1>2, <1>3
  <2> QED BY <2>1, <2>2 DEF Meant
<1>5. p \in [1 .. n -> Seq(Nat)] /\ q \in [1 .. n -> Seq(Tag)]
  BY <1>2, <1>3, <1>4
<1>6. p \in Seq(Seq(Nat)) /\ Len(p) = n /\ \A i \in 1 .. n : Len(p[i]) = w
  BY <1>4, <1>5, AsSequence
<1>7. q \in Seq(Seq(Tag)) /\ Len(q) = n /\ \A i \in 1 .. n : Len(q[i]) = w
  BY <1>4, <1>5, AsSequence
<1>8. /\ FlattenSeq(p) \in Seq(Nat) /\ Len(FlattenSeq(p)) = n * w
      /\ \A i \in 1 .. n : \A j \in 1 .. w : FlattenSeq(p)[(i - 1) * w + j] = p[i][j]
  BY <1>6, EqualPieces
<1>9. /\ FlattenSeq(q) \in Seq(Tag) /\ Len(FlattenSeq(q)) = n * w
      /\ \A i \in 1 .. n : \A j \in 1 .. w : FlattenSeq(q)[(i - 1) * w + j] = q[i][j]
  BY <1>7, EqualPieces
<1>10. PICK t, u : t = FlattenSeq(p) /\ u = FlattenSeq(q)
  OBVIOUS
<1>11. ASSUME NEW m \in 1 .. n * w PROVE D!SectorAt(t[m]) = u[m]
  <2>1. PICK x \in Nat : x = m - 1
    OBVIOUS
  <2>2. /\ x \div w \in Nat /\ x % w \in 0 .. w - 1 /\ x = w * (x \div w) + (x % w)
        /\ \A l \in Nat : x < w * l => x \div w < l
    BY Quotient
  <2>3. PICK k \in Nat, r \in 0 .. w - 1 : k = x \div w /\ r = x % w
    BY <2>2
  <2>4. n * w = w * n /\ n * w \in Nat
    OBVIOUS
  <2>5. x < w * n
    BY <2>1, <2>4
  <2>6. k < n
    BY <2>2, <2>3, <2>5
  <2>7. k + 1 \in 1 .. n /\ r + 1 \in 1 .. w
    BY <2>3, <2>6
  <2>8. PICK i \in 1 .. n, j \in 1 .. w : i = k + 1 /\ j = r + 1
    BY <2>7
  <2>9. m = (i - 1) * w + j
    <3>1. x = w * k + r
      BY <2>2, <2>3
    <3>2. w * k = (i - 1) * w /\ w * k \in Nat
      BY <2>3, <2>8
    <3> QED BY <2>1, <2>3, <2>8, <3>1, <3>2
  <2>10. t[m] = p[i][j] /\ u[m] = q[i][j]
    BY <1>8, <1>9, <1>10, <2>9
  <2> QED BY <1>4, <2>10
<1>12. Meant(t, u) /\ Len(u) = n * w
  BY <1>8, <1>9, <1>10, <1>11 DEF Meant
<1> QED BY <1>1, <1>3, <1>10, <1>12, SameFlattenSeq

-----------------------------------------------------------------------------
(* The invariant of the mount.  A frame stands in a directory of the disk, as deep as
   its path is long, at a cluster of its chain; a node is that of an entry. *)
FrameSet == [cluster : Nat, path : Seq(Names), loaded : BOOLEAN, index : Nat \ {0}]
Placed(f, k) == /\ f \in FrameSet /\ Len(f.path) = k - 1
                /\ \E d \in D!Dirs : f.path = d[1] /\ f.cluster \in D!Reached(d[2])
Stacked(fs) == fs \in Seq(FrameSet) /\ \A i \in 1 .. Len(fs) : Placed(fs[i], i)

Bytewise(data, e) == /\ Len(data) = e.size
                     /\ \A i \in 1 .. e.size : data[i] \in {D!OnDisk(e, i), D!Stale}
EntryOf(n, d, e) == /\ n.path = Append(d[1], e.name) /\ n.kind = e.kind
                    /\ n.kind = "FILE" /\ n.data # << >> => Bytewise(n.data, e)
Copied(n) == \E d \in D!Dirs : \E e \in D!Used(d[2]) : EntryOf(n, d, e)
OfDisk(data) == \E d \in D!Dirs : \E e \in D!Used(d[2]) : e.kind = "FILE" /\ Bytewise(data, e)
MountNode == D!Node(D!Mount, "DIR", << >>)
Mirrored(nodes) == \A n \in nodes : /\ n.kind \in {"FILE", "DIR"} /\ n.data \in Seq(D!Byte)
                                    /\ n = MountNode \/ Copied(n)
                                    /\ \A m \in nodes : m.path = n.path => m = n

Stages == {"identify", "selftest", "mbr", "boot sector", "fat", "walk", "load", "file", "end"}
MountInv ==
  /\ disk \in Disks /\ at \in Stages /\ trouble \in BOOLEAN
  /\ phase \in {"start", "walk", "done", "failed", "overflow"}
  /\ at \in {"boot sector", "fat", "walk", "load", "file"} => D!FatEntries # {}
  /\ Stacked(frames) /\ Len(frames) <= MaxDepth
  /\ phase = "walk" => frames # << >>
  /\ Mirrored(found)

(* What is still to be read is what is still meant, and what came in was.  The address
   in the registers is the next sector's while the drive is at it. *)
JobInv ==
  /\ job \in [todo : Seq(Nat), got : Seq(Tag), want : Seq(Tag), ok : BOOLEAN]
  /\ Len(job.got) + Len(job.todo) = Len(job.want)
  /\ \A i \in 1 .. Len(job.got) : job.got[i] = job.want[i]
  /\ \A i \in 1 .. Len(job.todo) : D!SectorAt(job.todo[i]) = job.want[Len(job.got) + i]
DriverInv ==
  /\ drv \in {"idle", "first", "identify", "poll", "transfer"} /\ drive \in D!DriveState
  /\ regs.lba0 \in 0 .. Radix - 1 /\ regs.lba1 \in 0 .. Radix - 1 /\ regs.lba2 \in 0 .. Radix - 1
  /\ regs.head \in 0 .. Heads - 1
  /\ drv \in {"poll", "transfer"} => job.todo # << >> /\ D!Address(regs) = Head(job.todo)
(* The sectors of a file are all meant; nothing is being read while the walk goes on. *)
FileInv == /\ at = "file" => Len(job.want) = D!FileSectors
           /\ at = "walk" => drv = "idle" /\ job.todo = << >>

DiskInv == MountInv /\ JobInv /\ DriverInv /\ FileInv

-----------------------------------------------------------------------------
(* Nothing that is said of a disk changes with the rest of the state. *)
LEMMA SameDisk ==
  ASSUME disk' = disk
  PROVE  /\ (D!FatEntries # {})' <=> (D!FatEntries # {})
         /\ \A lba : D!SectorAt(lba)' = D!SectorAt(lba)
         /\ \A f, k : Placed(f, k)' <=> Placed(f, k)
         /\ \A n : Copied(n)' <=> Copied(n)
         /\ \A data : OfDisk(data)' <=> OfDisk(data)
         /\ \A fs : Stacked(fs)' <=> Stacked(fs)
         /\ \A nodes : Mirrored(nodes)' <=> Mirrored(nodes)
         /\ \A t, w : Meant(t, w)' <=> Meant(t, w)
<1>1. \A c : D!Reached(c)' = D!Reached(c)
  BY DEF D!Reached, D!Clusters
<1>2. \A c : D!Used(c)' = D!Used(c)
  BY <1>1 DEF D!Used, D!Entries
<1>3. D!Dirs' = D!Dirs
  BY DEF D!Dirs, D!Used, D!Entries, D!Reached, D!Clusters, D!RootCluster
<1>4. Names' = Names
  BY DEF Names, Ents
<1>5. \A e, i : D!OnDisk(e, i)' = D!OnDisk(e, i)
  BY DEF D!OnDisk, D!ClusterBytes
<1>6. D!Partition' = D!Partition
  BY DEF D!Partition, D!TableTags, D!ClusterTags, D!Clusters
<1>7. \A lba : D!SectorAt(lba)' = D!SectorAt(lba)
  BY <1>6 DEF D!SectorAt
<1>8. (D!FatEntries # {})' <=> (D!FatEntries # {})
  BY DEF D!FatEntries, D!Fats
<1>9. FrameSet' = FrameSet
  BY <1>4 DEF FrameSet
<1>10. \A f, k : Placed(f, k)' <=> Placed(f, k)
  BY <1>1, <1>3, <1>9 DEF Placed
<1>11. \A n : Copied(n)' <=> Copied(n)
  BY <1>2, <1>3, <1>5 DEF Copied, EntryOf, Bytewise
<1>12. \A fs : Stacked(fs)' <=> Stacked(fs)
  BY <1>9, <1>10 DEF Stacked
<1>13. \A nodes : Mirrored(nodes)' <=> Mirrored(nodes)
  BY <1>11 DEF Mirrored
<1>14. \A t, w : Meant(t, w)' <=> Meant(t, w)
  BY <1>7 DEF Meant
<1>15. \A data : OfDisk(data)' <=> OfDisk(data)
  BY <1>2, <1>3, <1>5 DEF OfDisk, Bytewise
<1> QED BY <1>7, <1>8, <1>10, <1>11, <1>12, <1>13, <1>14, <1>15

(* Frames come and go at the end. *)
LEMMA Pop ==
  ASSUME NEW fs, Stacked(fs), fs # << >>
  PROVE  /\ Stacked(D!Front(fs)) /\ Len(D!Front(fs)) = Len(fs) - 1
         /\ Len(fs) \in Nat \ {0} /\ Placed(D!Last(fs), Len(fs))
<1>1. fs \in Seq(FrameSet) /\ Len(fs) \in Nat \ {0}
  BY DEF Stacked
<1>2. PICK t : t = D!Front(fs)
  OBVIOUS
<1>3. t \in Seq(FrameSet) /\ Len(t) = Len(fs) - 1 /\ \A i \in 1 .. Len(fs) - 1 : t[i] = fs[i]
  <2>1. PICK n \in Nat : n = Len(fs) - 1
    BY <1>1
  <2>2. t = SubSeq(fs, 1, n)
    BY <1>2, <2>1 DEF D!Front
  <2>3. t \in Seq(FrameSet) /\ Len(t) = n /\ \A i \in 1 .. n : t[i] = fs[i]
    <3>1. 1 \in Int /\ n \in Int /\ \A i \in 1 .. n : fs[i] \in FrameSet
      BY <1>1, <2>1
    <3>2. /\ t \in Seq(FrameSet) /\ Len(t) = IF 1 <= n THEN n - 1 + 1 ELSE 0
          /\ \A i \in 1 .. n - 1 + 1 : t[i] = fs[1 + i - 1]
      BY <2>2, <3>1, SubSeqProperties
    <3>3. \A i \in 1 .. n : i \in 1 .. n - 1 + 1 /\ 1 + i - 1 = i
      OBVIOUS
    <3> QED BY <3>2, <3>3
  <2> QED BY <2>1, <2>3
<1>4. Placed(D!Last(fs), Len(fs))
  BY <1>1 DEF Stacked, D!Last
<1>5. Stacked(t)
  BY <1>1, <1>3 DEF Stacked
<1> QED BY <1>1, <1>2, <1>3, <1>4, <1>5

(* ... one is put on top, *)
LEMMA Push ==
  ASSUME NEW fs, Stacked(fs), NEW f, Placed(f, Len(fs) + 1)
  PROVE  Stacked(Append(fs, f)) /\ Len(Append(fs, f)) = Len(fs) + 1 /\ Append(fs, f) # << >>
<1>1. fs \in Seq(FrameSet) /\ Len(fs) \in Nat /\ f \in FrameSet
  BY DEF Stacked, Placed
<1>2. PICK t : t = Append(fs, f)
  OBVIOUS
<1>3. /\ t \in Seq(FrameSet) /\ Len(t) = Len(fs) + 1 /\ t[Len(fs) + 1] = f
      /\ \A i \in 1 .. Len(fs) : t[i] = fs[i]
  BY <1>1, <1>2
<1>4. ASSUME NEW i \in 1 .. Len(t) PROVE Placed(t[i], i)
  <2>1. CASE i \in 1 .. Len(fs)
    BY <1>3, <2>1 DEF Stacked
  <2>2. CASE i = Len(fs) + 1
    BY <1>3, <2>2
  <2> QED BY <1>1, <1>3, <2>1, <2>2
<1>5. t # << >>
  BY <1>1, <1>3
<1> QED BY <1>2, <1>3, <1>4, <1>5 DEF Stacked

(* The innermost frame may be replaced by one at its place. *)
LEMMA Replace ==
  ASSUME MountInv, frames # << >>, NEW f, Placed(f, Len(frames))
  PROVE  Stacked(D!SetTop(f)) /\ Len(D!SetTop(f)) = Len(frames) /\ D!SetTop(f) # << >>
<1>1. /\ Stacked(D!Front(frames)) /\ Len(D!Front(frames)) = Len(frames) - 1 /\ Len(frames) \in Nat \ {0}
  BY Pop DEF MountInv
<1>2. PICK fs : fs = D!Front(frames)
  OBVIOUS
<1>3. Len(fs) + 1 = Len(frames)
  BY <1>1, <1>2
<1>4. Stacked(Append(fs, f)) /\ Len(Append(fs, f)) = Len(fs) + 1 /\ Append(fs, f) # << >>
  BY <1>1, <1>2, <1>3, Push
<1> QED BY <1>2, <1>3, <1>4 DEF D!SetTop

(* The directory of the innermost frame, and the entry it is at. *)
LEMMA TopFacts ==
  ASSUME MountInv, phase = "walk"
  PROVE  /\ Placed(D!Top, Len(frames)) /\ Len(frames) \in Nat \ {0} /\ D!Top \in FrameSet
         /\ D!Top.cluster \in Ents /\ D!Top.cluster \in Cls
         /\ disk.fat[D!Top.cluster] # D!EndOfChain =>
              /\ disk.fat[D!Top.cluster] \in Nat
              /\ \E d \in D!Dirs : D!Top.path = d[1] /\ disk.fat[D!Top.cluster] \in D!Reached(d[2])
<1>1. Placed(D!Top, Len(frames)) /\ Len(frames) \in Nat \ {0}
  BY Pop DEF MountInv, D!Top
<1>2. D!Top \in FrameSet
  BY <1>1 DEF Placed
<1>3. PICK d \in D!Dirs : D!Top.path = d[1] /\ D!Top.cluster \in D!Reached(d[2])
  BY <1>1 DEF Placed
<1>4. d[2] \in Ents /\ d[2] \in ClsOrEnd
  BY DirsFacts, DiskFacts DEF MountInv, Ents, ClsOrEnd
<1>5. D!Reached(d[2]) \subseteq Ents /\ \A c \in D!Reached(d[2]) : disk.fat[c] \in D!Reached(d[2]) \cup {D!EndOfChain}
  BY <1>4, ReachedClosed DEF MountInv
<1>6. Ents \subseteq Cls /\ Cls \subseteq Nat
  BY DiskFacts DEF MountInv, Ents
<1> QED BY <1>1, <1>2, <1>3, <1>5, <1>6

(* ... which is an entry in use, whose path is that of its directory and its name. *)
LEMMA EntryFacts ==
  ASSUME MountInv, D!AtEntry
  PROVE  /\ D!Entry.kind \in D!Kind
         /\ D!Entry.kind \in {"FILE", "DIR"} =>
              \E d \in D!Dirs : /\ D!Entry \in D!Used(d[2]) /\ D!EntryPath = Append(d[1], D!Entry.name)
                                /\ Len(d[1]) = Len(frames) - 1
                                /\ D!EntryPath \in Seq(Names) /\ Len(D!EntryPath) = Len(frames)
<1>1. phase = "walk" /\ disk \in Disks
  BY DEF D!AtEntry, MountInv
<1>2. Placed(D!Top, Len(frames)) /\ Len(frames) \in Nat \ {0} /\ D!Top.cluster \in Ents
  BY <1>1, TopFacts
<1>3. D!Entry \in ToSet(disk.entries[D!Top.cluster])
  BY DEF D!AtEntry, D!Entry, ToSet
<1>4. D!Entry.kind \in D!Kind
  BY <1>1, <1>2, <1>3, DiskFacts DEF Ents
<1>5. PICK d \in D!Dirs : D!Top.path = d[1] /\ D!Top.cluster \in D!Reached(d[2]) /\ Len(D!Top.path) = Len(frames) - 1
  BY <1>2 DEF Placed
<1>6. d[1] \in Seq(Names) /\ d[2] \in Ents
  BY <1>1, DirsFacts
<1>7. ASSUME D!Entry.kind \in {"FILE", "DIR"}
      PROVE  /\ D!Entry \in D!Used(d[2]) /\ D!EntryPath = Append(d[1], D!Entry.name)
             /\ D!EntryPath \in Seq(Names) /\ Len(D!EntryPath) = Len(frames)
  <2>1. D!Entry \in D!Used(d[2])
    BY <1>1, <1>3, <1>5, <1>6, <1>7, UsedFacts
  <2>2. D!Entry.name \in Names
    BY <1>1, <1>6, <2>1, UsedFacts
  <2>3. PICK p, x : p = d[1] /\ x = D!Entry.name
    OBVIOUS
  <2>4. p \in Seq(Names) /\ x \in Names /\ Len(p) = Len(frames) - 1
    BY <1>5, <1>6, <2>2, <2>3
  <2>5. Append(p, x) \in Seq(Names) /\ Len(Append(p, x)) = Len(frames)
    BY <1>2, <2>4
  <2> QED BY <1>5, <2>1, <2>3, <2>5 DEF D!EntryPath
<1> QED BY <1>4, <1>5, <1>7

-----------------------------------------------------------------------------
(* The steps of the walk.                                                  *)
Kept == /\ UNCHANGED disk /\ trouble' \in BOOLEAN
        /\ phase' \in {"start", "walk", "done", "failed", "overflow"}
        /\ Stacked(frames') /\ Len(frames') <= MaxDepth /\ (phase' = "walk" => frames' # << >>)
        /\ Mirrored(found')

(* A node of its own path more. *)
LEMMA OneMoreNode ==
  ASSUME NEW nodes, Mirrored(nodes), NEW n,
         n.kind \in {"FILE", "DIR"}, n.data \in Seq(D!Byte), n = MountNode \/ Copied(n),
         \A m \in nodes : m.path # n.path
  PROVE  Mirrored(nodes \cup {n})
BY DEF Mirrored

(* vfs_create makes the mount point or a directory of the disk. *)
LEMMA MakeDirKeeps ==
  ASSUME MountInv, NEW path, path = D!Mount \/ Copied(D!Node(path, "DIR", << >>)), D!MakeDir(path)
  PROVE  Mirrored(found') /\ trouble' \in BOOLEAN
<1>1. Mirrored(found) /\ trouble \in BOOLEAN
  BY DEF MountInv
<1>2. PICK n : n = D!Node(path, "DIR", << >>)
  OBVIOUS
<1>3. n.path = path /\ n.kind = "DIR" /\ n.data = << >> /\ (n = MountNode \/ Copied(n))
  BY <1>2 DEF D!Node, MountNode
<1>4. CASE UNCHANGED found
  BY <1>1, <1>4 DEF D!MakeDir
<1>5. CASE /\ \A m \in found : m.path # path
           /\ found' = found \cup {n}
  <2>1. n.data \in Seq(D!Byte) /\ n.kind \in {"FILE", "DIR"}
    BY <1>3
  <2>2. \A m \in found : m.path # n.path
    BY <1>3, <1>5
  <2>3. Mirrored(found \cup {n})
    <3>1. PICK nodes : nodes = found
      OBVIOUS
    <3>2. Mirrored(nodes) /\ \A m \in nodes : m.path # n.path
      BY <1>1, <2>2, <3>1
    <3>3. CASE n = MountNode
      <4>1. Mirrored(nodes \cup {n})
        BY <2>1, <3>2, <3>3, OneMoreNode
      <4> QED BY <3>1, <4>1
    <3>4. CASE Copied(n)
      <4>1. Mirrored(nodes \cup {n})
        BY <2>1, <3>2, <3>4, OneMoreNode
      <4> QED BY <3>1, <4>1
    <3> QED BY <1>3, <3>3, <3>4
  <2> QED BY <1>1, <1>5, <2>3 DEF D!MakeDir
<1>6. (UNCHANGED found) \/ ((\A m \in found : m.path # path) /\ found' = found \cup {n})
  BY <1>2 DEF D!MakeDir
<1> QED BY <1>1, <1>4, <1>5, <1>6 DEF D!MakeDir

(* vfs_write_file puts one file in the place of another. *)
LEMMA WriteFileKeeps ==
  ASSUME MountInv, NEW path, NEW data \in Seq(D!Byte), Copied(D!Node(path, "FILE", data))
  PROVE  Mirrored(D!WriteFile(path, data))
<1>1. PICK n : n = D!Node(path, "FILE", data)
  OBVIOUS
<1>2. n.path = path /\ n.kind = "FILE" /\ n.data = data /\ Copied(n)
  BY <1>1 DEF D!Node
<1>3. PICK kept : kept = {m \in found : m.path # path \/ m.kind = "DIR"}
  OBVIOUS
<1>4. Mirrored(kept)
  BY <1>3 DEF MountInv, Mirrored
<1>5. CASE D!IsDir(path)
  BY <1>3, <1>4, <1>5 DEF D!WriteFile
<1>6. CASE ~D!IsDir(path)
  <2>1. \A m \in kept : m.path # n.path
    BY <1>2, <1>3, <1>6 DEF D!IsDir
  <2>2. Mirrored(kept \cup {n})
    BY <1>2, <1>4, <2>1, OneMoreNode
  <2>3. D!WriteFile(path, data) = kept \/ D!WriteFile(path, data) = kept \cup {n}
    BY <1>1, <1>3 DEF D!WriteFile
  <2> QED BY <1>4, <2>2, <2>3
<1> QED BY <1>5, <1>6

(* A frame that looks at another entry of its cluster, or has it read. *)
LEMMA SamePlace ==
  ASSUME MountInv, phase = "walk", NEW loaded \in BOOLEAN, NEW index \in Nat \ {0},
         NEW f, f = [D!Top EXCEPT !.loaded = loaded, !.index = index]
  PROVE  Placed(f, Len(frames))
<1>1. Placed(D!Top, Len(frames)) /\ D!Top \in FrameSet
  BY TopFacts
<1>2. f \in FrameSet /\ f.path = D!Top.path /\ f.cluster = D!Top.cluster
  BY <1>1 DEF FrameSet
<1> QED BY <1>1, <1>2 DEF Placed

(* ... it advances to the next entry, *)
LEMMA AdvancedKeeps ==
  ASSUME MountInv, D!AtEntry
  PROVE  Stacked(D!Advanced) /\ Len(D!Advanced) = Len(frames) /\ D!Advanced # << >>
<1>1. phase = "walk" /\ frames # << >>
  BY DEF D!AtEntry, MountInv
<1>2. PICK f : f = [D!Top EXCEPT !.index = @ + 1]
  OBVIOUS
<1>3. D!Top \in FrameSet
  BY <1>1, TopFacts
<1>4. PICK index \in Nat \ {0} : index = D!Top.index + 1
  BY <1>3 DEF FrameSet
<1>5. D!Top.loaded \in BOOLEAN /\ f = [D!Top EXCEPT !.loaded = D!Top.loaded, !.index = index]
  BY <1>2, <1>3, <1>4 DEF FrameSet
<1>6. Placed(f, Len(frames))
  BY <1>1, <1>5, SamePlace
<1> QED BY <1>1, <1>2, <1>6, Replace DEF D!Advanced

(* ... it returns. *)
LEMMA ReturnKeeps ==
  ASSUME MountInv, phase = "walk", NEW ok, D!Return(ok)
  PROVE  /\ Stacked(frames') /\ Len(frames') <= MaxDepth /\ (phase' = "walk" => frames' # << >>)
         /\ phase' \in {"start", "walk", "done", "failed", "overflow"}
<1>1. /\ Stacked(frames) /\ frames # << >> /\ Len(frames) <= MaxDepth /\ disk \in Disks
  BY DEF MountInv
<1>2. /\ Stacked(D!Front(frames)) /\ Len(D!Front(frames)) = Len(frames) - 1 /\ Len(frames) \in Nat \ {0}
  BY <1>1, Pop
<1>3. MaxDepth \in Nat
  BY <1>1, DiskFacts
<1>4. frames' = D!Front(frames) /\ phase' = IF Len(frames) > 1 THEN phase ELSE IF ok THEN "done" ELSE "failed"
  BY DEF D!Return
<1>5. phase' = "walk" => Len(frames') # 0
  BY <1>2, <1>4
<1>6. Len(<< >>) = 0
  OBVIOUS
<1> QED BY <1>1, <1>2, <1>3, <1>4, <1>5, <1>6

(* fat32_mount_partition begins the walk at the root, or fails. *)
LEMMA BeginKeeps ==
  ASSUME MountInv, D!Begin \/ D!BeginFails
  PROVE  Kept
<1>1. CASE D!BeginFails
  BY <1>1 DEF D!BeginFails, MountInv, Kept
<1>2. CASE D!Begin
  <2>1. Mirrored(found') /\ trouble' \in BOOLEAN
    BY <1>2, MakeDirKeeps DEF D!Begin
  <2>2. PICK f : f = D!Frame(D!RootCluster(disk), D!Mount)
    OBVIOUS
  <2>3. /\ D!RootCluster(disk) \in Ents /\ D!RootCluster(disk) \in Cls /\ Cls \subseteq Nat /\ MaxDepth \in Nat \ {0}
    BY DiskFacts DEF MountInv, Ents
  <2>4. <<D!Mount, D!RootCluster(disk)>> \in D!Dirs
    BY DirsFacts DEF MountInv
  <2>5. D!RootCluster(disk) \in D!Reached(D!RootCluster(disk))
    BY <2>3, ReachedClosed DEF MountInv, ClsOrEnd
  <2>6. f \in FrameSet /\ f.path = D!Mount /\ f.cluster = D!RootCluster(disk) /\ Len(f.path) = 0
    <3>1. D!Mount \in Seq(Names) /\ Len(D!Mount) = 0
      BY DEF D!Mount
    <3>2. D!RootCluster(disk) \in Nat
      BY <2>3
    <3> QED BY <2>2, <3>1, <3>2 DEF FrameSet, D!Frame
  <2>7. Placed(f, 1)
    <3>1. PICK d : d = <<D!Mount, D!RootCluster(disk)>>
      OBVIOUS
    <3>2. d \in D!Dirs /\ d[1] = D!Mount /\ d[2] = D!RootCluster(disk)
      BY <2>4, <3>1
    <3> QED BY <2>5, <2>6, <3>2 DEF Placed
  <2>8. Stacked(<<f>>) /\ Len(<<f>>) = 1 /\ <<f>> # << >>
    <3>1. <<f>> \in Seq(FrameSet) /\ Len(<<f>>) = 1 /\ <<f>>[1] = f /\ 1 .. 1 = {1}
      BY <2>6
    <3> QED BY <2>7, <3>1 DEF Stacked
  <2> QED BY <1>2, <2>1, <2>2, <2>3, <2>8 DEF D!Begin, Kept
<1> QED BY <1>1, <1>2

(* A cluster of a directory is read, or is not. *)
LEMMA LoadKeeps ==
  ASSUME MountInv, D!LoadCluster \/ D!LoadFails
  PROVE  Kept
<1>1. phase = "walk" /\ frames # << >> /\ disk \in Disks /\ MaxDepth \in Nat
  BY DiskFacts DEF MountInv, D!LoadCluster, D!LoadFails
<1>2. CASE D!LoadCluster
  <2>1. PICK f : f = [D!Top EXCEPT !.loaded = TRUE, !.index = 1]
    OBVIOUS
  <2>2. Placed(f, Len(frames))
    <3>1. TRUE \in BOOLEAN /\ 1 \in Nat \ {0}
      OBVIOUS
    <3> QED BY <1>1, <2>1, <3>1, SamePlace, Zenon
  <2>3. Stacked(frames') /\ Len(frames') = Len(frames) /\ frames' # << >>
    BY <1>1, <1>2, <2>1, <2>2, Replace DEF D!LoadCluster
  <2> QED BY <1>2, <2>3 DEF D!LoadCluster, MountInv, Kept
<1>3. CASE D!LoadFails
  <2>1. D!Return(FALSE)
    BY <1>3 DEF D!LoadFails
  <2> QED BY <1>1, <1>3, <2>1, ReturnKeeps DEF D!LoadFails, MountInv, Kept
<1> QED BY <1>2, <1>3

(* An entry is passed over, or a file comes to no more than an empty node. *)
LEMMA SkipKeeps ==
  ASSUME MountInv, D!SkipEntry \/ D!SkipFile
  PROVE  Kept
<1>1. D!AtEntry /\ frames' = D!Advanced /\ UNCHANGED <<disk, phase>>
  BY DEF D!SkipEntry, D!SkipFile
<1>2. Stacked(frames') /\ Len(frames') = Len(frames) /\ frames' # << >>
  BY <1>1, AdvancedKeeps
<1>3. CASE D!SkipEntry
  BY <1>1, <1>2, <1>3 DEF D!SkipEntry, MountInv, Kept
<1>4. CASE D!SkipFile
  <2>1. D!Entry.kind = "FILE" /\ trouble' = TRUE
    BY <1>4 DEF D!SkipFile
  <2>2. PICK d \in D!Dirs : D!Entry \in D!Used(d[2]) /\ D!EntryPath = Append(d[1], D!Entry.name)
    BY <1>1, <2>1, EntryFacts
  <2>3. PICK n : n = D!Node(D!EntryPath, "FILE", << >>)
    OBVIOUS
  <2>4. n.path = D!EntryPath /\ n.kind = "FILE" /\ n.data = << >>
    BY <2>3 DEF D!Node
  <2>5. Copied(n)
    BY <2>1, <2>2, <2>4 DEF Copied, EntryOf
  <2>6. Mirrored(found')
    <3>1. Mirrored(found)
      BY DEF MountInv
    <3>2. CASE UNCHANGED found
      BY <3>1, <3>2
    <3>3. CASE (\A m \in found : m.path # D!EntryPath) /\ found' = found \cup {n}
      <4>1. n.data \in Seq(D!Byte) /\ n.kind \in {"FILE", "DIR"}
        BY <2>4
      <4>2. \A m \in found : m.path # n.path
        BY <2>4, <3>3
      <4>3. Mirrored(found \cup {n})
        <5>1. PICK nodes : nodes = found
          OBVIOUS
        <5>2. Mirrored(nodes) /\ \A m \in nodes : m.path # n.path
          BY <3>1, <4>2, <5>1
        <5>3. Mirrored(nodes \cup {n})
          BY <2>5, <4>1, <5>2, OneMoreNode
        <5> QED BY <5>1, <5>3
      <4> QED BY <3>3, <4>3
    <3> QED BY <1>4, <2>3, <3>2, <3>3 DEF D!SkipFile
  <2> QED BY <1>1, <1>2, <2>1, <2>6 DEF MountInv, Kept
<1> QED BY <1>3, <1>4

(* A directory is made, and entered one frame deeper where it has clusters. *)
LEMMA EnterKeeps ==
  ASSUME MountInv, D!EnterDir
  PROVE  Kept
<1>1. D!AtEntry /\ phase = "walk" /\ D!Entry.kind = "DIR" /\ D!MakeDir(D!EntryPath) /\ disk \in Disks /\ UNCHANGED disk
  BY DEF D!EnterDir, D!AtEntry, MountInv
<1>2. PICK d \in D!Dirs : /\ D!Entry \in D!Used(d[2]) /\ D!EntryPath = Append(d[1], D!Entry.name)
                          /\ Len(d[1]) = Len(frames) - 1
                          /\ D!EntryPath \in Seq(Names) /\ Len(D!EntryPath) = Len(frames)
  BY <1>1, EntryFacts
<1>3. Mirrored(found') /\ trouble' \in BOOLEAN
  <2>1. PICK n : n = D!Node(D!EntryPath, "DIR", << >>)
    OBVIOUS
  <2>2. n.path = D!EntryPath /\ n.kind = "DIR"
    BY <2>1 DEF D!Node
  <2>3. Copied(n)
    BY <1>1, <1>2, <2>2 DEF Copied, EntryOf
  <2> QED BY <1>1, <2>1, <2>3, MakeDirKeeps
<1>4. Stacked(D!Advanced) /\ Len(D!Advanced) = Len(frames) /\ D!Advanced # << >>
  BY <1>1, AdvancedKeeps
<1>5. MaxDepth \in Nat \ {0} /\ Len(frames) \in Nat \ {0} /\ Len(frames) <= MaxDepth /\ Stacked(frames) /\ frames # << >>
  BY <1>1, DiskFacts, TopFacts DEF MountInv
<1>6. CASE frames' = D!Advanced /\ UNCHANGED phase
  BY <1>1, <1>3, <1>4, <1>5, <1>6 DEF MountInv, Kept
<1>7. CASE phase' = "overflow" /\ UNCHANGED frames
  BY <1>1, <1>3, <1>5, <1>7 DEF MountInv, Kept
<1>8. CASE /\ D!Entry.first # D!EndOfChain /\ Len(frames) # MaxDepth
           /\ frames' = Append(D!Advanced, D!Frame(D!Entry.first, D!EntryPath)) /\ UNCHANGED phase
  <2>1. PICK f, fs : f = D!Frame(D!Entry.first, D!EntryPath) /\ fs = D!Advanced
    OBVIOUS
  <2>2. d[2] \in Ents
    BY <1>1, DirsFacts
  <2>3. D!Entry.first \in Ents
    BY <1>1, <1>2, <1>8, <2>2, UsedFacts
  <2>4. Ents \subseteq Cls /\ Cls \subseteq Nat
    BY <1>1, DiskFacts DEF Ents
  <2>5. D!Entry.first \in D!Reached(D!Entry.first)
    BY <1>1, <2>3, <2>4, ReachedClosed DEF ClsOrEnd
  <2>6. PICK x : x = <<D!EntryPath, D!Entry.first>>
    OBVIOUS
  <2>7. x \in D!Dirs
    <3>1. Len(d[1]) < MaxDepth
      BY <1>2, <1>5
    <3>2. <<Append(d[1], D!Entry.name), D!Entry.first>> \in D!Dirs
      BY <1>1, <1>2, <1>8, <3>1, DirsFacts
    <3> QED BY <1>2, <2>6, <3>2
  <2>8. f \in FrameSet /\ f.path = D!EntryPath /\ f.cluster = D!Entry.first
    <3>1. D!Entry.first \in Nat
      BY <2>3, <2>4
    <3> QED BY <1>2, <2>1, <3>1 DEF D!Frame, FrameSet
  <2>9. Placed(f, Len(fs) + 1)
    <3>1. Len(f.path) = Len(fs) + 1 - 1
      BY <1>2, <1>4, <1>5, <2>1, <2>8
    <3>2. x[1] = D!EntryPath /\ x[2] = D!Entry.first
      BY <2>6
    <3> QED BY <2>5, <2>7, <2>8, <3>1, <3>2 DEF Placed
  <2>10. Stacked(frames') /\ Len(frames') = Len(frames) + 1 /\ frames' # << >>
    <3>1. Stacked(fs) /\ Len(fs) = Len(frames)
      BY <1>4, <2>1
    <3> QED BY <1>8, <2>1, <2>9, <3>1, Push
  <2>11. Len(frames') <= MaxDepth
    BY <1>5, <1>8, <2>10
  <2> QED BY <1>1, <1>3, <1>8, <2>10, <2>11 DEF MountInv, Kept
<1> QED BY <1>6, <1>7, <1>8 DEF D!EnterDir

(* The walk of a directory goes on in its chain's next cluster, or returns. *)
LEMMA NextClusterKeeps ==
  ASSUME MountInv, D!NextCluster
  PROVE  Kept
<1>1. phase = "walk" /\ disk \in Disks /\ UNCHANGED <<disk, found, trouble>> /\ frames # << >>
  BY DEF D!NextCluster, MountInv
<1>2. CASE D!Return(TRUE)
  BY <1>1, <1>2, ReturnKeeps DEF MountInv, Kept
<1>3. CASE /\ disk.fat[D!Top.cluster] # D!EndOfChain /\ UNCHANGED phase
           /\ frames' = D!SetTop(D!Frame(disk.fat[D!Top.cluster], D!Top.path))
  <2>1. PICK f : f = D!Frame(disk.fat[D!Top.cluster], D!Top.path)
    OBVIOUS
  <2>2. /\ Placed(D!Top, Len(frames)) /\ D!Top \in FrameSet /\ disk.fat[D!Top.cluster] \in Nat
        /\ \E d \in D!Dirs : D!Top.path = d[1] /\ disk.fat[D!Top.cluster] \in D!Reached(d[2])
    BY <1>1, <1>3, TopFacts
  <2>3. f \in FrameSet /\ f.path = D!Top.path /\ f.cluster = disk.fat[D!Top.cluster]
    BY <2>1, <2>2 DEF D!Frame, FrameSet
  <2>4. Placed(f, Len(frames))
    BY <2>2, <2>3 DEF Placed
  <2>5. Stacked(frames') /\ Len(frames') = Len(frames) /\ frames' # << >>
    BY <1>1, <1>3, <2>1, <2>4, Replace
  <2> QED BY <1>1, <1>3, <2>5 DEF MountInv, Kept
<1> QED BY <1>2, <1>3 DEF D!NextCluster

(* A file is written with the sectors that came in. *)
LEMMA CopyKeeps ==
  ASSUME MountInv, NEW n \in Nat, D!CopyFile(n), n <= D!FileSectors
  PROVE  Kept
<1>1. /\ D!AtEntry /\ D!Entry.kind = "FILE" /\ frames' = D!Advanced /\ disk \in Disks /\ UNCHANGED <<disk, phase>>
      /\ found' = D!WriteFile(D!EntryPath, D!Contents(D!FileChain, n, D!Entry.size))
      /\ trouble' \in BOOLEAN
  BY DEF D!CopyFile, MountInv
<1>2. Stacked(frames') /\ Len(frames') = Len(frames) /\ frames' # << >>
  BY <1>1, AdvancedKeeps
<1>3. PICK d \in D!Dirs : D!Entry \in D!Used(d[2]) /\ D!EntryPath = Append(d[1], D!Entry.name)
  BY <1>1, EntryFacts
<1>4. D!Entry.size \in Nat /\ (D!Entry.size > 0 => D!Entry.first \in Cls)
  BY <1>1, <1>3, DirsFacts, UsedFacts
<1>5. PICK data : data = D!Contents(D!FileChain, n, D!Entry.size)
  OBVIOUS
<1>6. data \in Seq(D!Byte) /\ Bytewise(data, D!Entry)
  <2>1. PICK e, chain : e = D!Entry /\ chain = D!FileChain
    OBVIOUS
  <2>2. chain = D!Chain(e.first, D!ClustersNeeded(e.size)) /\ n <= Len(chain) * disk.sectors_per_cluster
    BY <2>1 DEF D!FileChain, D!FileSectors
  <2>3. /\ D!Contents(chain, n, e.size) \in Seq(D!Byte) /\ Len(D!Contents(chain, n, e.size)) = e.size
        /\ \A i \in 1 .. e.size : D!Contents(chain, n, e.size)[i] \in {D!Stale, D!OnDisk(e, i)}
    BY <1>1, <1>4, <2>1, <2>2, ContentsOnDisk
  <2>4. data = D!Contents(chain, n, e.size)
    BY <1>5, <2>1
  <2> QED BY <2>1, <2>3, <2>4 DEF Bytewise
<1>7. PICK m : m = D!Node(D!EntryPath, "FILE", data)
  OBVIOUS
<1>8. m.path = D!EntryPath /\ m.kind = "FILE" /\ m.data = data
  BY <1>7 DEF D!Node
<1>9. Copied(m)
  BY <1>1, <1>3, <1>6, <1>8 DEF Copied, EntryOf
<1>10. Mirrored(found')
  BY <1>1, <1>5, <1>6, <1>7, <1>9, WriteFileKeeps
<1> QED BY <1>1, <1>2, <1>10 DEF MountInv, Kept

-----------------------------------------------------------------------------
(* The steps of the mount and of the driver.                               *)
Afterwards == {"boot sector", "fat", "walk", "load", "file"}

(* The disk's invariant holds after a step when its parts do. *)
LEMMA Concluded ==
  ASSUME DiskInv, Kept, at' \in Stages, at' \in Afterwards => D!FatEntries # {},
         JobInv', DriverInv', FileInv'
  PROVE  DiskInv'
<1>1. disk' = disk /\ disk \in Disks
  BY DEF Kept, DiskInv, MountInv
<1>2. Stacked(frames)'
  <2>1. PICK fs : fs = frames'
    OBVIOUS
  <2>2. Stacked(fs)
    BY <2>1 DEF Kept
  <2>3. Stacked(fs)'
    BY <1>1, <2>2, SameDisk
  <2> QED BY <2>1, <2>3 DEF Stacked
<1>3. Mirrored(found)'
  <2>1. PICK nodes : nodes = found'
    OBVIOUS
  <2>2. Mirrored(nodes)
    BY <2>1 DEF Kept
  <2>3. Mirrored(nodes)'
    BY <1>1, <2>2, SameDisk
  <2> QED BY <2>1, <2>3 DEF Mirrored
<1>4. (D!FatEntries # {})' <=> (D!FatEntries # {})
  BY <1>1, SameDisk
<1>5. MountInv'
  BY <1>1, <1>2, <1>3, <1>4 DEF Kept, MountInv, Afterwards
<1> QED BY <1>5 DEF DiskInv

(* A step that the walk has no part in. *)
LEMMA Unmoved ==
  ASSUME MountInv, UNCHANGED <<disk, phase, frames, found, trouble>>
  PROVE  Kept /\ D!FileSectors' = D!FileSectors
<1>1. Kept
  BY DEF MountInv, Kept
<1>2. D!FileSectors' = D!FileSectors
  BY DEF D!FileSectors, D!FileChain, D!Chain, D!Entry, D!Top, D!Last, D!ClustersNeeded, D!ClusterBytes
<1> QED BY <1>1, <1>2

(* ... and one that the reads have no part in. *)
LEMMA SameJob ==
  ASSUME JobInv, UNCHANGED <<disk, job>>
  PROVE  JobInv'
<1>1. \A lba : D!SectorAt(lba)' = D!SectorAt(lba)
  BY SameDisk
<1> QED BY <1>1 DEF JobInv

(* A job begins: nothing of it has come in. *)
LEMMA Started ==
  ASSUME UNCHANGED disk, NEW todo, NEW want, Meant(todo, want), D!Start(todo, want)
  PROVE  JobInv' /\ job'.want = want
<1>1. job' = [todo |-> todo, got |-> << >>, want |-> want, ok |-> TRUE]
  BY DEF D!Start
<1>2. /\ job'.todo = todo /\ job'.got = << >> /\ job'.want = want /\ job'.ok = TRUE
      /\ Len(job'.got) = 0 /\ 1 .. Len(job'.got) = {}
  BY <1>1
<1>3. /\ todo \in Seq(Nat) /\ want \in Seq(Tag) /\ Len(todo) = Len(want) /\ Len(todo) \in Nat
      /\ \A i \in 1 .. Len(todo) : D!SectorAt(todo[i]) = want[i] /\ 0 + i = i
  BY DEF Meant
<1>4. \A lba : D!SectorAt(lba)' = D!SectorAt(lba)
  BY SameDisk
<1>5. job' \in [todo : Seq(Nat), got : Seq(Tag), want : Seq(Tag), ok : BOOLEAN]
  BY <1>1, <1>3
<1>6. PICK none : none = << >> /\ Len(none) = 0
  OBVIOUS
<1>7. /\ job'.got = none /\ Len(none) + Len(todo) = Len(want)
      /\ \A i \in 1 .. Len(none) : none[i] = want[i]
      /\ \A i \in 1 .. Len(todo) : D!SectorAt(todo[i]) = want[Len(none) + i]
  BY <1>2, <1>3, <1>6
<1> QED BY <1>2, <1>4, <1>5, <1>7 DEF JobInv

(* The first reads hold what they mean: the boot record, the partition's boot sector. *)
LEMMA FirstReads ==
  ASSUME disk \in Disks
  PROVE  /\ Meant(<< >>, << >>) /\ Meant(<<0>>, <<D!BootRecord>>)
         /\ D!FatEntries # {} => Meant(<<D!PartitionLba>>, <<D!Partition[1]>>)
<1>1. Meant(<< >>, << >>)
  BY DEF Meant
<1>2. \A lba \in Nat, tag \in Tag : D!SectorAt(lba) = tag => Meant(<<lba>>, <<tag>>)
  BY DEF Meant
<1>3. D!BootRecord \in Tag /\ D!SectorAt(0) = D!BootRecord
  <2>1. D!BootRecord \in Tag
    BY DEF D!BootRecord, Tag
  <2>2. \A i \in DOMAIN D!Partition : i > 0
    BY PartitionFacts
  <2>3. 0 - disk.start + 1 \notin DOMAIN D!Partition
    BY <2>2, DiskFacts
  <2> QED BY <2>1, <2>3 DEF D!SectorAt
<1>4. D!Partition[1] \in Tag
  BY PartitionFacts
<1>5. D!FatEntries # {} => D!PartitionLba \in Nat /\ D!SectorAt(D!PartitionLba) = D!Partition[1]
  BY SectorsMeant
<1> QED BY <1>1, <1>2, <1>3, <1>4, <1>5

(* A drive that is not being read from. *)
LEMMA Resting ==
  ASSUME DriverInv, UNCHANGED regs, drive' \in D!DriveState, drv' \in {"idle", "first", "identify"}
  PROVE  DriverInv'
BY DEF DriverInv

(* Another job begins, or none. *)
LEMMA NewJob ==
  ASSUME DiskInv, UNCHANGED <<disk, phase, frames, found, trouble, regs>>, drv' = "idle", drive' \in D!DriveState,
         NEW todo, NEW want, Meant(todo, want), D!Start(todo, want),
         at' \in Stages \ {"walk"}, at' \in Afterwards => D!FatEntries # {},
         at' = "file" => Len(want) = D!FileSectors
  PROVE  DiskInv'
<1>1. JobInv' /\ job'.want = want
  BY Started
<1>2. Kept /\ D!FileSectors' = D!FileSectors
  BY Unmoved DEF DiskInv
<1>3. FileInv'
  BY <1>1, <1>2 DEF FileInv
<1>4. DriverInv'
  BY Resting DEF DiskInv
<1> QED BY <1>1, <1>2, <1>3, <1>4, Concluded

(* What was read is used up. *)
LEMMA NoMoreJob ==
  ASSUME DiskInv, Kept, drv = "idle", D!Consumed,
         at' \in Stages \ {"file"}, at' \in Afterwards => D!FatEntries # {}
  PROVE  DiskInv'
<1>1. D!Start(<< >>, << >>) /\ UNCHANGED <<disk, drv, regs, drive>>
  BY DEF D!Consumed, D!NoJob, D!Start, Kept
<1>2. Meant(<< >>, << >>)
  BY FirstReads DEF DiskInv, MountInv
<1>3. JobInv'
  BY <1>1, <1>2, Started
<1>4. DriverInv'
  BY <1>1, Resting DEF DiskInv, DriverInv
<1>5. FileInv'
  BY <1>1 DEF FileInv, D!Start
<1> QED BY <1>3, <1>4, <1>5, Concluded

(* What the mount does not move of. *)
LEMMA Meanwhile ==
  ASSUME DiskInv, UNCHANGED <<disk, phase, frames, found, trouble, at>>, JobInv', DriverInv', job'.want = job.want,
         at = "walk" => UNCHANGED <<drv, job>>
  PROVE  DiskInv'
<1>1. Kept /\ D!FileSectors' = D!FileSectors
  BY Unmoved DEF DiskInv
<1>2. FileInv'
  BY <1>1 DEF FileInv, DiskInv
<1>3. at' \in Stages /\ (at' \in Afterwards => D!FatEntries # {})
  BY DEF DiskInv, MountInv, Afterwards
<1> QED BY <1>1, <1>2, <1>3, Concluded

(* The mount fails before its walk. *)
LEMMA FailedAtOnce ==
  ASSUME DiskInv, D!Stop, JobInv', DriverInv'
  PROVE  DiskInv'
<1>1. at' = "end" /\ Kept
  BY BeginKeeps DEF D!Stop, DiskInv
<1>2. at' \in Stages /\ at' \notin Afterwards /\ at' \notin {"file", "walk"}
  BY <1>1 DEF Stages, Afterwards
<1>3. FileInv'
  BY <1>2 DEF FileInv
<1> QED BY <1>1, <1>2, <1>3, Concluded

(* ata_init *)
LEMMA IdentifyStep ==
  ASSUME DiskInv, D!Identify \/ D!FirstStatus \/ D!Identified
  PROVE  DiskInv'
<1>1. \A s \in {"absent", "floating", "idle", "busy", "data", "error"} : s \in D!DriveState
  BY DEF D!DriveState
<1>2. MountInv /\ JobInv /\ DriverInv /\ drive \in D!DriveState /\ disk \in Disks
  BY DEF DiskInv, DriverInv, MountInv
<1>3. ASSUME D!Stop, UNCHANGED <<regs, job>>, drv' = "idle" , drive' \in D!DriveState
      PROVE  DiskInv'
  <2>1. UNCHANGED disk
    BY <1>3 DEF D!Stop, D!BeginFails
  <2>2. JobInv' /\ DriverInv'
    BY <1>2, <1>3, <2>1, SameJob, Resting
  <2> QED BY <1>3, <2>2, FailedAtOnce
<1>4. ASSUME at = "identify", UNCHANGED <<disk, phase, frames, found, trouble, at, regs, job>>,
             drv' \in {"first", "identify"}, drive' \in D!DriveState
      PROVE  DiskInv'
  <2>1. JobInv' /\ DriverInv' /\ job'.want = job.want
    BY <1>2, <1>4, SameJob, Resting
  <2> QED BY <1>4, <2>1, Meanwhile
<1>5. ASSUME D!Register PROVE DiskInv'
  <2>1. /\ UNCHANGED <<disk, phase, frames, found, trouble, regs>> /\ drv' = "idle" /\ drive' \in D!DriveState
        /\ D!Start(<<0>>, <<D!BootRecord>>) /\ at' = "selftest"
    BY <1>1, <1>2, <1>5 DEF D!Register, D!fatVars
  <2>2. at' \in Stages /\ at' \notin Afterwards /\ at' \notin {"file", "walk"}
    BY <2>1 DEF Stages, Afterwards
  <2>3. Meant(<<0>>, <<D!BootRecord>>)
    BY <1>2, FirstReads
  <2> QED BY <2>1, <2>2, <2>3, NewJob
<1>6. CASE D!Identify
  <2>1. CASE drive = "absent"
    BY <1>2, <1>3, <1>6, <2>1 DEF D!Identify, D!ataVars
  <2>2. CASE drive # "absent"
    BY <1>1, <1>2, <1>4, <1>6, <2>2 DEF D!Identify, D!Command, D!fatVars
  <2> QED BY <2>1, <2>2
<1>7. CASE D!FirstStatus
  BY <1>2, <1>4, <1>5, <1>7 DEF D!FirstStatus, D!fatVars
<1>8. CASE D!Identified
  BY <1>2, <1>3, <1>5, <1>8 DEF D!Identified
<1> QED BY <1>6, <1>7, <1>8

(* ata_read_sector *)
LEMMA IssueStep ==
  ASSUME DiskInv, D!Issue
  PROVE  DiskInv'
<1>1. /\ JobInv /\ DriverInv /\ disk \in Disks /\ drv = "idle" /\ job.todo # << >>
      /\ UNCHANGED <<disk, phase, frames, found, trouble, at>> /\ at # "walk"
  BY DEF DiskInv, MountInv, FileInv, D!Issue, D!fatVars
<1>2. CASE job' = [job EXCEPT !.ok = FALSE] /\ UNCHANGED <<drv, regs, drive>>
  <2>1. \A lba : D!SectorAt(lba)' = D!SectorAt(lba)
    BY <1>1, SameDisk
  <2>2. /\ job'.todo = job.todo /\ job'.got = job.got /\ job'.want = job.want
        /\ job' \in [todo : Seq(Nat), got : Seq(Tag), want : Seq(Tag), ok : BOOLEAN]
    BY <1>1, <1>2 DEF JobInv
  <2>3. JobInv'
    BY <1>1, <2>1, <2>2 DEF JobInv
  <2>4. DriverInv'
    BY <1>1, <1>2 DEF DriverInv
  <2> QED BY <1>1, <2>2, <2>3, <2>4, Meanwhile
<1>3. CASE /\ ~(Head(job.todo) >= Radix * Radix * Radix * Heads)
           /\ drv' = "poll" /\ regs' = D!Registers(Head(job.todo)) /\ D!Command /\ UNCHANGED job
  <2>1. PICK lba \in Nat : lba = Head(job.todo)
    BY <1>1 DEF JobInv
  <2>2. Radix * Radix * Radix * Heads \in Nat
    <3>1. Radix \in Nat /\ Heads \in Nat
      BY <1>1, DiskFacts
    <3>2. \A a \in Nat, b \in Nat : a * b \in Nat
      OBVIOUS
    <3>3. Radix * Radix \in Nat
      BY <3>1, <3>2
    <3>4. Radix * Radix * Radix \in Nat
      BY <3>1, <3>2, <3>3
    <3> QED BY <3>1, <3>2, <3>4
  <2>3. lba < Radix * Radix * Radix * Heads
    BY <1>3, <2>1, <2>2
  <2>4. PICK r : r = D!Registers(lba)
    OBVIOUS
  <2>5. /\ D!Address(r) = lba
        /\ r.lba0 \in 0 .. Radix - 1 /\ r.lba1 \in 0 .. Radix - 1
        /\ r.lba2 \in 0 .. Radix - 1 /\ r.head \in 0 .. Heads - 1
    BY <1>1, <2>3, <2>4, AddressOfRegisters
  <2>6. regs' = r
    BY <1>3, <2>1, <2>4
  <2>7. drive' \in D!DriveState
    BY <1>1, <1>3 DEF D!Command, DriverInv, D!DriveState
  <2>8. D!Address(regs)' = D!Address(r)
    BY <2>6 DEF D!Address
  <2>9. DriverInv'
    BY <1>1, <1>3, <2>1, <2>5, <2>6, <2>7, <2>8 DEF DriverInv
  <2>10. JobInv' /\ job'.want = job.want
    BY <1>1, <1>3, SameJob
  <2> QED BY <1>1, <2>9, <2>10, Meanwhile
<1> QED BY <1>2, <1>3 DEF D!Issue

(* ata_poll_status, and the drive's answer. *)
LEMMA PollStep ==
  ASSUME DiskInv, D!PollError \/ D!PollReady \/ D!Answer
  PROVE  DiskInv'
<1>1. /\ JobInv /\ DriverInv /\ disk \in Disks /\ UNCHANGED <<disk, phase, frames, found, trouble, at, regs>>
      /\ at = "walk" => UNCHANGED <<drv, job>>
  BY DEF DiskInv, MountInv, FileInv, D!PollError, D!PollReady, D!Answer, D!fatVars
<1>2. drive' \in D!DriveState
  BY <1>1 DEF DriverInv, D!PollError, D!PollReady, D!Answer, D!DriveState
<1>3. CASE D!PollError
  <2>1. \A lba : D!SectorAt(lba)' = D!SectorAt(lba)
    BY <1>1, SameDisk
  <2>2. /\ job'.todo = job.todo /\ job'.got = job.got /\ job'.want = job.want
        /\ job' \in [todo : Seq(Nat), got : Seq(Tag), want : Seq(Tag), ok : BOOLEAN]
    BY <1>1, <1>3 DEF JobInv, D!PollError
  <2>3. JobInv'
    BY <1>1, <2>1, <2>2 DEF JobInv
  <2>4. DriverInv'
    BY <1>1, <1>2, <1>3, Resting DEF D!PollError
  <2> QED BY <1>1, <2>2, <2>3, <2>4, Meanwhile
<1>4. CASE D!PollReady \/ D!Answer
  <2>1. UNCHANGED job /\ (drv' = drv \/ (drv = "poll" /\ drv' = "transfer"))
    BY <1>4 DEF D!PollReady, D!Answer
  <2>2. JobInv' /\ job'.want = job.want
    BY <1>1, <2>1, SameJob
  <2>3. D!Address(regs)' = D!Address(regs)
    BY <1>1 DEF D!Address
  <2>4. DriverInv'
    BY <1>1, <1>2, <2>1, <2>3 DEF DriverInv
  <2> QED BY <1>1, <2>2, <2>4, Meanwhile
<1> QED BY <1>3, <1>4

(* The sector whose address the registers hold comes in. *)
LEMMA TransferStep ==
  ASSUME DiskInv, D!Transfer
  PROVE  DiskInv'
<1>1. /\ JobInv /\ DriverInv /\ disk \in Disks /\ drv = "transfer"
      /\ UNCHANGED <<disk, phase, frames, found, trouble, at, regs>> /\ drv' = "idle" /\ drive' = "idle"
      /\ at # "walk"
      /\ job' = [job EXCEPT !.todo = Tail(@), !.got = Append(@, D!SectorAt(D!Address(regs)))]
  BY DEF DiskInv, MountInv, FileInv, D!Transfer, D!fatVars
<1>2. PICK todo, got, want : todo = job.todo /\ got = job.got /\ want = job.want
  OBVIOUS
<1>3. /\ todo \in Seq(Nat) /\ got \in Seq(Tag) /\ want \in Seq(Tag) /\ Len(got) + Len(todo) = Len(want)
      /\ \A i \in 1 .. Len(got) : got[i] = want[i]
      /\ \A i \in 1 .. Len(todo) : D!SectorAt(todo[i]) = want[Len(got) + i]
      /\ todo # << >> /\ D!Address(regs) = Head(todo)
  BY <1>1, <1>2 DEF JobInv, DriverInv
<1>4. /\ Len(todo) \in Nat \ {0} /\ Len(got) \in Nat /\ Head(todo) = todo[1] /\ Tail(todo) \in Seq(Nat)
      /\ Len(Tail(todo)) = Len(todo) - 1 /\ \A i \in 1 .. Len(todo) - 1 : Tail(todo)[i] = todo[i + 1]
  BY <1>3
<1>5. PICK x, rest : x = want[Len(got) + 1] /\ rest = Tail(todo)
  OBVIOUS
<1>6. x \in Tag /\ D!SectorAt(D!Address(regs)) = x
  <2>1. 1 \in 1 .. Len(todo) /\ Len(got) + 1 \in 1 .. Len(want)
    BY <1>3, <1>4
  <2> QED BY <1>3, <1>4, <1>5, <2>1
<1>7. PICK more : more = Append(got, x)
  OBVIOUS
<1>8. /\ more \in Seq(Tag) /\ Len(more) = Len(got) + 1 /\ more[Len(got) + 1] = x
      /\ \A i \in 1 .. Len(got) : more[i] = got[i]
  BY <1>3, <1>4, <1>6, <1>7
<1>9. /\ job'.todo = rest /\ job'.got = more /\ job'.want = want
      /\ job' \in [todo : Seq(Nat), got : Seq(Tag), want : Seq(Tag), ok : BOOLEAN]
  <2>1. job \in [todo : Seq(Nat), got : Seq(Tag), want : Seq(Tag), ok : BOOLEAN]
    BY <1>1 DEF JobInv
  <2>2. job' = [job EXCEPT !.todo = rest, !.got = more]
    BY <1>1, <1>2, <1>5, <1>6, <1>7
  <2> QED BY <1>2, <1>4, <1>5, <1>8, <2>1, <2>2
<1>10. Len(more) + Len(rest) = Len(want)
  BY <1>3, <1>4, <1>5, <1>8
<1>11. \A i \in 1 .. Len(more) : more[i] = want[i]
  <2> TAKE i \in 1 .. Len(more)
  <2>1. CASE i \in 1 .. Len(got)
    BY <1>3, <1>8, <2>1
  <2>2. CASE i = Len(got) + 1
    BY <1>5, <1>8, <2>2
  <2> QED BY <1>4, <1>8, <2>1, <2>2
<1>12. \A i \in 1 .. Len(rest) : D!SectorAt(rest[i]) = want[Len(more) + i]
  <2> TAKE i \in 1 .. Len(rest)
  <2>1. PICK j \in 1 .. Len(todo) : j = i + 1 /\ rest[i] = todo[j]
    BY <1>4, <1>5
  <2>2. Len(more) + i = Len(got) + j
    BY <1>4, <1>8, <2>1
  <2> QED BY <1>3, <2>1, <2>2
<1>13. JobInv'
  <2>1. \A lba : D!SectorAt(lba)' = D!SectorAt(lba)
    BY <1>1, SameDisk
  <2> QED BY <1>9, <1>10, <1>11, <1>12, <2>1 DEF JobInv
<1>14. DriverInv'
  <2>1. drive' \in D!DriveState
    BY <1>1 DEF D!DriveState
  <2> QED BY <1>1, <2>1, Resting
<1> QED BY <1>1, <1>2, <1>9, <1>13, <1>14, Meanwhile

(* fat_read_file_clusters reads no cluster of an empty file, and of another it starts at
   its first one. *)
LEMMA FileChainFacts ==
  ASSUME MountInv, D!AtEntry, D!Entry.kind = "FILE"
  PROVE  D!FileChain \in Seq(Cls) /\ D!FileSectors \in Nat
<1>1. disk \in Disks
  BY DEF MountInv
<1>2. PICK d \in D!Dirs : D!Entry \in D!Used(d[2])
  BY EntryFacts
<1>3. D!Entry.size \in Nat /\ (D!Entry.size > 0 => D!Entry.first \in Cls)
  BY <1>1, <1>2, DirsFacts, UsedFacts
<1>4. PICK need \in Nat : /\ need = D!ClustersNeeded(D!Entry.size)
                          /\ D!Entry.size = 0 => need = 0
  BY <1>1, <1>3, NeededFacts
<1>5. D!FileChain \in Seq(Cls)
  BY <1>1, <1>3, <1>4, ChainFollows DEF D!FileChain
<1>6. PICK n \in Nat, w \in Nat : n = Len(D!FileChain) /\ w = disk.sectors_per_cluster
  BY <1>1, <1>5, DiskFacts
<1>7. n \in Nat /\ n * w \in Nat
  BY <1>5, <1>6
<1> QED BY <1>5, <1>6, <1>7 DEF D!FileSectors

(* A read is over: the driver is idle. *)
LEMMA MountingStep ==
  ASSUME DiskInv, D!Mounting
  PROVE  DiskInv'
<1>1. /\ MountInv /\ JobInv /\ DriverInv /\ FileInv /\ disk \in Disks /\ drive \in D!DriveState
  BY DEF DiskInv, DriverInv, MountInv
<1>2. ASSUME NEW todo, NEW want, Meant(todo, want), D!Start(todo, want), drv = "idle",
             UNCHANGED <<disk, phase, frames, found, trouble, drv, regs, drive>>,
             at' \in Stages \ {"walk"}, at' \in Afterwards => D!FatEntries # {},
             at' = "file" => Len(want) = D!FileSectors
      PROVE  DiskInv'
  BY <1>1, <1>2, NewJob
<1>3. CASE D!Selftested
  <2>1. Meant(<<0>>, <<D!BootRecord>>)
    BY <1>1, FirstReads
  <2>2. at' = "mbr" /\ "mbr" \in Stages \ {"walk"} /\ "mbr" \notin Afterwards /\ "mbr" # "file"
    BY <1>3 DEF D!Selftested, Stages, Afterwards
  <2> QED BY <1>2, <1>3, <2>1, <2>2 DEF D!Selftested, D!Finished, D!fatVars
<1>4. ASSUME drv = "idle", D!Stop, D!Consumed PROVE DiskInv'
  <2>1. Kept
    BY <1>1, <1>4, BeginKeeps DEF D!Stop
  <2>2. at' = "end" /\ "end" \in Stages \ {"file"} /\ "end" \notin Afterwards
    BY <1>4 DEF D!Stop, Stages, Afterwards
  <2> QED BY <1>4, <2>1, <2>2, NoMoreJob
<1>5. CASE D!FindPartition
  <2>1. CASE D!FatEntries # {} /\ ~(D!Stop /\ D!Consumed)
    <3>1. Meant(<<D!PartitionLba>>, <<D!Partition[1]>>)
      BY <1>1, <2>1, FirstReads
    <3>2. at' = "boot sector" /\ "boot sector" \in Stages \ {"walk"} /\ "boot sector" # "file"
      BY <1>5, <2>1 DEF D!FindPartition, Stages
    <3> QED BY <1>2, <1>5, <2>1, <3>1, <3>2 DEF D!FindPartition, D!Finished, D!fatVars
  <2>2. CASE ~(D!FatEntries # {} /\ ~(D!Stop /\ D!Consumed))
    BY <1>4, <1>5, <2>2 DEF D!FindPartition, D!Finished
  <2> QED BY <2>1, <2>2
<1>6. CASE D!LoadTable
  <2>1. D!FatEntries # {} /\ at' = "fat" /\ "fat" \in Stages \ {"walk"} /\ "fat" # "file"
    BY <1>1, <1>6 DEF D!LoadTable, MountInv, Stages
  <2>2. Meant([s \in 1 .. disk.fat_size |-> D!PartitionLba + disk.reserved + s - 1], D!TableTags(1))
    BY <1>1, <2>1, TableMeant
  <2>3. UNCHANGED <<disk, phase, frames, found, trouble, drv, regs, drive>> /\ drv = "idle"
        /\ D!Start([s \in 1 .. disk.fat_size |-> D!PartitionLba + disk.reserved + s - 1], D!TableTags(1))
    BY <1>6 DEF D!LoadTable, D!Finished, D!fatVars
  <2> QED BY <1>2, <2>1, <2>2, <2>3
<1>7. CASE D!NoTable
  BY <1>4, <1>7 DEF D!NoTable, D!Finished
<1>8. ASSUME drv = "idle", at' = "walk", at \in Afterwards, Kept, D!Consumed
      PROVE  DiskInv'
  <2>1. D!FatEntries # {} /\ at' \in Stages \ {"file"}
    BY <1>1, <1>8 DEF MountInv, Afterwards, Stages
  <2> QED BY <1>8, <2>1, NoMoreJob
<1>9. CASE D!BeginWalk
  <2>1. drv = "idle" /\ at \in Afterwards /\ D!Consumed /\ (D!Stop \/ (at' = "walk" /\ D!Begin))
    BY <1>9 DEF D!BeginWalk, D!Finished, Afterwards
  <2> QED BY <1>1, <1>4, <1>8, <2>1, BeginKeeps
<1>10. CASE D!ReadDirectory
  <2>1. /\ phase = "walk" /\ at = "walk" /\ at' = "load"
        /\ UNCHANGED <<disk, phase, frames, found, trouble, drv, regs, drive>>
        /\ D!Start(D!Sectors(D!Top.cluster), D!ClusterTags(D!Top.cluster))
    BY <1>10 DEF D!ReadDirectory, D!fatVars
  <2>2. D!FatEntries # {} /\ drv = "idle" /\ D!Top.cluster \in Cls
    BY <1>1, <2>1, TopFacts DEF MountInv, FileInv
  <2>3. Meant(D!Sectors(D!Top.cluster), D!ClusterTags(D!Top.cluster))
    BY <1>1, <2>2, ClusterMeant
  <2>4. at' \in Stages \ {"walk"} /\ at' # "file"
    BY <2>1 DEF Stages
  <2> QED BY <1>2, <2>1, <2>2, <2>3, <2>4
<1>11. CASE D!DirectoryRead
  <2>1. drv = "idle" /\ at \in Afterwards /\ at' = "walk" /\ D!Consumed /\ (D!LoadCluster \/ D!LoadFails)
    BY <1>11 DEF D!DirectoryRead, D!Finished, Afterwards
  <2> QED BY <1>1, <1>8, <2>1, LoadKeeps
<1>12. CASE D!ReadFile
  <2> DEFINE todo == D!FlattenSeq([i \in DOMAIN D!FileChain |-> D!Sectors(D!FileChain[i])])
             want == D!FlattenSeq([i \in DOMAIN D!FileChain |-> D!ClusterTags(D!FileChain[i])])
  <2>1. /\ D!AtEntry /\ D!Entry.kind = "FILE" /\ at = "walk" /\ at' = "file"
        /\ UNCHANGED <<disk, phase, frames, found, trouble, drv, regs, drive>>
        /\ D!Start(todo, want)
    BY <1>12 DEF D!ReadFile, D!fatVars
  <2>2. D!FatEntries # {} /\ drv = "idle"
    BY <1>1, <2>1 DEF MountInv, FileInv
  <2>3. PICK chain \in Seq(Cls) : chain = D!FileChain
    BY <1>1, <2>1, FileChainFacts
  <2>4. Meant(todo, want) /\ Len(want) = D!FileSectors
    BY <1>1, <2>2, <2>3, ChainMeant DEF D!FileSectors
  <2>5. at' \in Stages \ {"walk"}
    BY <2>1 DEF Stages
  <2> HIDE DEF todo, want
  <2> QED BY <1>2, <2>1, <2>2, <2>4, <2>5
<1>13. CASE D!FileRead
  <2>1. drv = "idle" /\ at \in Afterwards /\ at = "file" /\ at' = "walk" /\ D!Consumed /\ D!CopyFile(Len(job.got))
    BY <1>13 DEF D!FileRead, D!Finished, Afterwards
  <2>2. Len(job.got) \in Nat /\ Len(job.got) <= D!FileSectors
    <3>1. Len(job.want) = D!FileSectors
      BY <1>1, <2>1 DEF FileInv
    <3>2. Len(job.got) \in Nat /\ Len(job.todo) \in Nat /\ Len(job.got) + Len(job.todo) = Len(job.want)
      BY <1>1 DEF JobInv
    <3>3. PICK k \in Nat, l \in Nat : k = Len(job.got) /\ l = Len(job.todo)
      BY <3>2
    <3>4. PICK m : m = D!FileSectors
      OBVIOUS
    <3>5. m = k + l
      BY <3>1, <3>2, <3>3, <3>4
    <3>6. k <= m
      BY <3>5
    <3> QED BY <3>3, <3>4, <3>6
  <2>3. PICK n \in Nat : n = Len(job.got)
    BY <2>2
  <2>4. Kept
    BY <1>1, <2>1, <2>2, <2>3, CopyKeeps
  <2> QED BY <1>8, <2>1, <2>4
<1>14. CASE D!WalkOn
  <2>1. /\ at = "walk" /\ at' = "walk" /\ UNCHANGED <<drv, regs, drive, job>>
        /\ D!SkipEntry \/ D!EnterDir \/ D!SkipFile \/ D!NextCluster \/ D!LoadFails
    BY <1>14 DEF D!WalkOn, D!ataVars
  <2>2. Kept
    BY <1>1, <2>1, SkipKeeps, EnterKeeps, NextClusterKeeps, LoadKeeps
  <2>3. JobInv'
    BY <1>1, <2>1, <2>2, SameJob DEF Kept
  <2>4. DriverInv'
    <3>1. D!Address(regs)' = D!Address(regs)
      BY <2>1 DEF D!Address
    <3> QED BY <1>1, <2>1, <3>1 DEF DriverInv
  <2>5. FileInv'
    BY <1>1, <2>1 DEF FileInv
  <2>6. at' \in Stages /\ D!FatEntries # {}
    BY <1>1, <2>1 DEF MountInv, Stages
  <2> QED BY <2>2, <2>3, <2>4, <2>5, <2>6, Concluded
<1> QED
  BY <1>3, <1>5, <1>6, <1>7, <1>9, <1>10, <1>11, <1>12, <1>13, <1>14 DEF D!Mounting

(* A disk that is not mounted yet. *)
LEMMA DiskInitially == D!DiskInit => DiskInv
<1> SUFFICES ASSUME D!DiskInit PROVE DiskInv
  OBVIOUS
<1>1. /\ disk \in Disks /\ phase = "start" /\ frames = << >> /\ found = {} /\ trouble = FALSE
      /\ at = "identify" /\ drv = "idle" /\ drive \in {"absent", "floating", "idle"}
      /\ regs = [lba0 |-> 0, lba1 |-> 0, lba2 |-> 0, head |-> 0]
      /\ job = [todo |-> << >>, got |-> << >>, want |-> << >>, ok |-> TRUE]
  BY DEF D!DiskInit, D!Init, D!NoJob
<1>2. MaxDepth \in Nat \ {0} /\ Radix \in Nat \ {0} /\ Heads \in Nat \ {0}
  BY <1>1, DiskFacts
<1>3. MountInv
  <2>1. Stacked(<< >>) /\ Len(<< >>) = 0
    BY DEF Stacked
  <2>2. Mirrored({})
    BY DEF Mirrored
  <2>3. Stacked(frames) /\ Mirrored(found) /\ Len(frames) <= MaxDepth
    BY <1>1, <1>2, <2>1, <2>2
  <2>4. at \in Stages /\ at \notin {"boot sector", "fat", "walk", "load", "file"}
    BY <1>1 DEF Stages
  <2> QED BY <1>1, <2>3, <2>4 DEF MountInv
<1>4. JobInv
  <2>1. Meant(<< >>, << >>)
    BY <1>1, FirstReads
  <2>2. job \in [todo : Seq(Nat), got : Seq(Tag), want : Seq(Tag), ok : BOOLEAN]
    BY <1>1
  <2> QED BY <1>1, <2>2 DEF JobInv
<1>5. DriverInv /\ FileInv
  BY <1>1, <1>2 DEF DriverInv, FileInv, D!DriveState
<1> QED BY <1>3, <1>4, <1>5 DEF DiskInv

(* What runs beside the boot leaves the disk's state alone. *)
LEMMA DiskStays ==
  ASSUME DiskInv, UNCHANGED bootVars
  PROVE  DiskInv'
<1>1. UNCHANGED <<disk, phase, frames, found, trouble, at, drv, regs, drive, job>>
  BY DEF bootVars
<1>2. JobInv' /\ DriverInv'
  <2>1. D!Address(regs)' = D!Address(regs)
    BY <1>1 DEF D!Address
  <2> QED BY <1>1, <2>1, SameJob DEF DiskInv, DriverInv
<1> QED BY <1>1, <1>2, Meanwhile

(* Every step of the system keeps the disk's invariant. *)
LEMMA DiskInductive == DiskInv /\ [ProgramsNext]_allVars => DiskInv'
<1> SUFFICES ASSUME DiskInv, [ProgramsNext]_allVars PROVE DiskInv'
  OBVIOUS
<1>1. CASE D!DiskNext
  <2>1. CASE D!Driver
    BY <2>1, IdentifyStep, IssueStep, PollStep, TransferStep DEF D!Driver
  <2>2. CASE D!Mounting
    BY <2>2, MountingStep
  <2>3. CASE D!Answer
    BY <2>3, PollStep
  <2> QED BY <1>1, <2>1, <2>2, <2>3 DEF D!DiskNext
<1>2. CASE UNCHANGED bootVars
  BY <1>2, DiskStays
<1> QED BY <1>1, <1>2 DEF ProgramsNext, Boot, Run, AfterBoot, allVars

(* The disk's invariant holds in every state. *)
THEOREM DiskInvariance == ProgramsSpec => []DiskInv
<1>1. ProgramsInit => DiskInv
  BY DiskInitially DEF ProgramsInit
<1> QED BY <1>1, DiskInductive, PTL DEF ProgramsSpec

(* What is read is what was meant: the job's sectors came in in order, each from where it is. *)
THEOREM SectorsRight == ProgramsSpec => []RightSectors
<1>1. DiskInv => RightSectors
  <2> SUFFICES ASSUME DiskInv PROVE D!IsPrefix(job.got, job.want)
    BY DEF RightSectors, D!RightSectors
  <2>1. PICK got, want : got = job.got /\ want = job.want
    OBVIOUS
  <2>2. /\ got \in Seq(Tag) /\ want \in Seq(Tag) /\ Len(got) <= Len(want)
        /\ \A i \in 1 .. Len(got) : got[i] = want[i]
    <3>1. Len(job.got) \in Nat /\ Len(job.todo) \in Nat
      BY DEF DiskInv, JobInv
    <3> QED BY <2>1, <3>1 DEF DiskInv, JobInv
  <2>3. PICK n \in Nat : n = Len(got)
    BY <2>2
  <2>4. ASSUME NEW s \in Seq(Tag), n <= Len(s)
        PROVE  /\ SubSeq(s, 1, n) \in Seq(Tag) /\ Len(SubSeq(s, 1, n)) = n
               /\ \A i \in 1 .. n : SubSeq(s, 1, n)[i] = s[i]
    <3>1. PICK t : t = SubSeq(s, 1, n)
      OBVIOUS
    <3>2. 1 \in Int /\ n \in Int /\ \A i \in 1 .. n : s[i] \in Tag
      BY <2>4
    <3>3. /\ t \in Seq(Tag) /\ Len(t) = IF 1 <= n THEN n - 1 + 1 ELSE 0
          /\ \A i \in 1 .. n - 1 + 1 : t[i] = s[1 + i - 1]
      BY <3>1, <3>2, SubSeqProperties
    <3>4. \A i \in 1 .. n : i \in 1 .. n - 1 + 1 /\ 1 + i - 1 = i
      OBVIOUS
    <3> QED BY <3>1, <3>3, <3>4
  <2>5. PICK s, t : s = SubSeq(got, 1, n) /\ t = SubSeq(want, 1, n)
    OBVIOUS
  <2>6. /\ s \in Seq(Tag) /\ t \in Seq(Tag) /\ Len(s) = n /\ Len(t) = n
        /\ \A i \in 1 .. n : s[i] = got[i] /\ t[i] = want[i]
    BY <2>2, <2>3, <2>4, <2>5
  <2>7. s = t
    BY <2>2, <2>3, <2>6
  <2> QED BY <2>1, <2>2, <2>3, <2>5, <2>7 DEF D!IsPrefix
<1> QED BY <1>1, DiskInvariance, PTL

-----------------------------------------------------------------------------
(* Where a program comes from: a loaded image is that of a file that the disk has. *)
FromFile(p) == /\ Loadable(p.file) /\ Complete(p.file) /\ p.file \in Seq(D!Byte) /\ OfDisk(p.file)
               /\ p.image = Image(p.file)
               /\ p.entry = p.base + (Elf[p.file[1]].entry - MinVaddr(p.file))

SourceInv == /\ load.pc \in {"idle", "process", "stack", "space", "table", "wait"}
             /\ load.base \in 0 .. Limit /\ load.stack \in 0 .. Limit /\ load.entry \in Nat
             /\ proc.space \in 0 .. Limit
             /\ load.pc = "wait" => proc # NoProc
             /\ load.pc \in {"process", "stack", "space", "table"} => FromFile(load)
             /\ proc # NoProc => FromFile(proc)

ProgramInv == IInv /\ DiskInv /\ SourceInv

(* The mount only reads. *)
LEMMA DiskUnchanged == D!DiskNext => UNCHANGED disk
<1>1. D!BeginFails \/ D!Begin \/ D!LoadCluster \/ D!LoadFails => UNCHANGED disk
  BY DEF D!BeginFails, D!Begin, D!LoadCluster, D!LoadFails
<1>2. D!SkipEntry \/ D!EnterDir \/ D!SkipFile \/ D!NextCluster => UNCHANGED disk
  BY DEF D!SkipEntry, D!EnterDir, D!SkipFile, D!NextCluster
<1>3. \A n : D!CopyFile(n) => UNCHANGED disk
  BY DEF D!CopyFile
<1>4. D!Driver \/ D!Answer => UNCHANGED disk
  BY <1>1 DEF D!Driver, D!Answer, D!Identify, D!FirstStatus, D!Identified, D!Register, D!Stop, D!Issue,
              D!PollError, D!PollReady, D!Transfer, D!fatVars
<1>5. D!Selftested \/ D!FindPartition \/ D!LoadTable \/ D!NoTable \/ D!BeginWalk => UNCHANGED disk
  BY <1>1 DEF D!Selftested, D!FindPartition, D!LoadTable, D!NoTable, D!BeginWalk, D!Stop, D!fatVars
<1>6. D!ReadDirectory \/ D!DirectoryRead \/ D!ReadFile \/ D!FileRead \/ D!WalkOn => UNCHANGED disk
  BY <1>1, <1>2, <1>3 DEF D!ReadDirectory, D!DirectoryRead, D!ReadFile, D!FileRead, D!WalkOn, D!fatVars
<1> QED BY <1>4, <1>5, <1>6 DEF D!DiskNext, D!Mounting

(* A node's file is on the disk, unless it is empty. *)
LEMMA FileOfDisk ==
  ASSUME DiskInv, NEW n \in found, n.kind = "FILE", n.data # << >>
  PROVE  n.data \in Seq(D!Byte) /\ OfDisk(n.data)
<1>1. n.data \in Seq(D!Byte) /\ (n = MountNode \/ Copied(n))
  BY DEF DiskInv, MountInv, Mirrored
<1>2. n # MountNode
  BY DEF MountNode, D!Node
<1>3. PICK d \in D!Dirs : \E e \in D!Used(d[2]) : EntryOf(n, d, e)
  BY <1>1, <1>2 DEF Copied
<1>4. PICK e \in D!Used(d[2]) : EntryOf(n, d, e)
  BY <1>3
<1>5. e.kind = "FILE" /\ Bytewise(n.data, e)
  BY <1>4 DEF EntryOf
<1> QED BY <1>1, <1>5 DEF OfDisk

(* A command gives up. *)
LEMMA NothingLoaded ==
  ASSUME SourceInv, UNCHANGED <<disk, proc>>, load' = NoLoad, load.pc # "wait"
  PROVE  SourceInv'
<1>1. /\ load'.pc = "idle" /\ load'.base = 0 /\ load'.stack = 0 /\ load'.entry = 0
  BY DEF NoLoad
<1>2. \A data : OfDisk(data)' <=> OfDisk(data)
  BY SameDisk
<1>3. 0 \in 0 .. Limit
  BY HeapAssumption
<1>4. FromFile(proc) => FromFile(proc)'
  BY <1>2 DEF FromFile
<1> QED BY <1>1, <1>3, <1>4 DEF SourceInv

(* Every step keeps the images those of files. *)
LEMMA SourceInductive == IInv /\ DiskInv /\ SourceInv /\ [ProgramsNext]_allVars => SourceInv'
<1> SUFFICES ASSUME IInv, DiskInv, SourceInv, [ProgramsNext]_allVars PROVE SourceInv'
  OBVIOUS
<1>1. UNCHANGED disk
  BY DiskUnchanged DEF ProgramsNext, Boot, Run, AfterBoot, allVars, bootVars
<1>2. \A data : OfDisk(data)' <=> OfDisk(data)
  BY <1>1, SameDisk
<1>3. heap_ptr \in 0 .. Limit /\ heap_ptr \in Nat /\ 0 \in 0 .. Limit
  BY HeapAssumption DEF IInv, HeapInv, TypeOK
<1>4. \A p : FromFile(p) => /\ p.image = Image(p.file) /\ Loadable(p.file)
  BY DEF FromFile
<1>5. CASE UNCHANGED <<load, proc>>
  <2>1. (FromFile(load) => FromFile(load)') /\ (FromFile(proc) => FromFile(proc)')
    BY <1>2, <1>5 DEF FromFile
  <2> QED BY <1>5, <2>1 DEF SourceInv
<1>6. CASE Run
  <2>1. PICK n \in found : n.kind = "FILE" /\ Exec(n.data)
    BY <1>6 DEF Run
  <2>2. PICK file : file = n.data
    OBVIOUS
  <2>3. Exec(file) /\ Loadable(file) /\ load.pc = "idle" /\ UNCHANGED proc
    BY <2>1, <2>2 DEF Exec, Quit
  <2>4. file # << >>
    BY <2>3 DEF Loadable, IsElf
  <2>5. file \in Seq(D!Byte) /\ OfDisk(file)
    BY <2>1, <2>2, <2>4, FileOfDisk
  <2>6. CASE load' = NoLoad
    BY <1>1, <2>3, <2>6, NothingLoaded
  <2>7. CASE /\ Complete(file)
             /\ load' = [pc |-> "process", file |-> file, base |-> heap_ptr, image |-> Image(file),
                         entry |-> heap_ptr + (Elf[file[1]].entry - MinVaddr(file)), stack |-> 0]
    <3>1. PICK d, b : d = Elf[file[1]].entry - MinVaddr(file) /\ b = heap_ptr
      OBVIOUS
    <3>2. /\ load'.pc = "process" /\ load'.file = file /\ load'.base = b /\ load'.image = Image(file)
          /\ load'.entry = b + d /\ load'.stack = 0
      BY <2>7, <3>1
    <3>3. d \in Nat
      <4>1. ImageSize(file) \in Nat \ {0} /\ d \in 0 .. ImageSize(file) - 1
        BY <2>3, <3>1, ImageHasEntry
      <4> QED BY <4>1
    <3>4. b \in 0 .. Limit /\ b + d \in Nat
      BY <1>3, <3>1, <3>3
    <3>5. FromFile(load)'
      BY <1>2, <2>3, <2>5, <2>7, <3>1, <3>2 DEF FromFile
    <3>6. FromFile(proc) => FromFile(proc)'
      BY <1>2, <2>3 DEF FromFile
    <3> QED BY <1>3, <2>3, <3>2, <3>4, <3>5, <3>6 DEF SourceInv
  <2> QED BY <2>3, <2>6, <2>7 DEF Exec, Quit
<1>7. ASSUME NEW step \in {"stack", "space", "table"}, load.pc \in {"process", "stack", "space", "table"},
             NEW stack \in 0 .. Limit, load' = [load EXCEPT !.pc = step, !.stack = stack], UNCHANGED proc
      PROVE  SourceInv'
  <2>1. DOMAIN load = DOMAIN NoLoad /\ {"pc", "stack"} \subseteq DOMAIN load
    BY DEF IInv, LoadInv, NoLoad
  <2>2. /\ load'.pc = step /\ load'.file = load.file /\ load'.base = load.base /\ load'.image = load.image
        /\ load'.entry = load.entry /\ load'.stack = stack
    BY <1>7, <2>1
  <2>3. FromFile(load)' /\ (FromFile(proc) => FromFile(proc)')
    BY <1>2, <1>7, <2>2 DEF SourceInv, FromFile
  <2>4. step \in {"idle", "process", "stack", "space", "table", "wait"} /\ step # "wait"
    OBVIOUS
  <2> QED BY <1>7, <2>2, <2>3, <2>4 DEF SourceInv
<1>8. ASSUME NEW space \in 0 .. Limit, load.pc \in {"space", "table"}, Create(space)
      PROVE  SourceInv'
  <2>1. FromFile(load)
    BY <1>8 DEF SourceInv
  <2>2. /\ proc'.file = load.file /\ proc'.base = load.base /\ proc'.image = load.image
        /\ proc'.entry = load.entry /\ proc'.space = space
        /\ load'.pc = "wait" /\ load'.base = 0 /\ load'.stack = 0 /\ load'.entry = 0
    BY <1>8 DEF Create, NoLoad
  <2>3. proc' # NoProc
    <3>1. load.file # << >>
      BY <2>1 DEF FromFile, Loadable, IsElf
    <3>2. NoProc.file = << >>
      BY DEF NoProc
    <3> QED BY <2>2, <3>1, <3>2
  <2>4. FromFile(proc)'
    BY <1>2, <2>1, <2>2 DEF FromFile
  <2> QED BY <1>3, <1>8, <2>2, <2>3, <2>4 DEF SourceInv
<1>9. CASE Creating
  <2>1. load.pc \in {"process", "stack", "space", "table"}
    BY <1>9 DEF Creating, AllocProcess, AllocStack, AllocSpace, AllocTable
  <2>2. ASSUME Quit PROVE SourceInv'
    BY <1>1, <2>1, <2>2, NothingLoaded DEF Quit
  <2>3. ASSUME NEW step \in {"stack", "table"}, Goto(step) PROVE SourceInv'
    <3>1. DOMAIN load = DOMAIN NoLoad /\ {"pc", "stack"} \subseteq DOMAIN load /\ load.stack \in 0 .. Limit
      BY DEF IInv, LoadInv, NoLoad, SourceInv
    <3>2. PICK stack \in 0 .. Limit : stack = load.stack
      BY <3>1
    <3>3. UNCHANGED proc /\ load' = [load EXCEPT !.pc = step]
      BY <2>3 DEF Goto
    <3>4. load' = [load EXCEPT !.pc = step, !.stack = stack]
      BY <3>1, <3>2, <3>3
    <3> QED BY <1>7, <2>1, <2>3, <3>3, <3>4
  <2>4. CASE AllocProcess
    BY <2>2, <2>3, <2>4 DEF AllocProcess
  <2>5. CASE AllocStack
    <3>1. PICK stack \in 0 .. Limit : stack = heap_ptr
      BY <1>3
    <3>2. Quit \/ (load' = [load EXCEPT !.pc = "space", !.stack = stack] /\ UNCHANGED proc)
      BY <2>5, <3>1 DEF AllocStack
    <3> QED BY <1>7, <2>1, <2>2, <3>2
  <2>6. CASE AllocSpace
    BY <1>3, <1>8, <2>3, <2>6 DEF AllocSpace
  <2>7. CASE AllocTable
    BY <1>3, <1>8, <2>7 DEF AllocTable
  <2> QED BY <1>9, <2>4, <2>5, <2>6, <2>7 DEF Creating
<1>10. CASE Others
  BY <1>5, <1>10 DEF Others
<1> QED BY <1>5, <1>6, <1>9, <1>10 DEF ProgramsNext, Boot, AfterBoot, allVars, loaderVars

(* The heap, the disk and the loader keep their invariants together. *)
THEOREM ProgramInvariance == ProgramsSpec => []ProgramInv
<1>1. ProgramsInit => SourceInv
  <2> SUFFICES ASSUME load = NoLoad, proc = NoProc PROVE SourceInv
    BY DEF ProgramsInit, LoaderInit
  <2>1. /\ load.pc = "idle" /\ load.base = 0 /\ load.stack = 0 /\ load.entry = 0 /\ proc.space = 0
    BY DEF NoLoad, NoProc
  <2>2. 0 \in 0 .. Limit
    BY HeapAssumption
  <2> QED BY <2>1, <2>2 DEF SourceInv
<1>2. ProgramInv <=> IInv /\ DiskInv /\ SourceInv
  BY DEF ProgramInv
<1> QED BY <1>1, <1>2, SourceInductive, Invariance, DiskInvariance, PTL DEF ProgramsSpec

(* fat32.c:141: whatever failed, a node that the mount made is that of an entry of the
   disk, with that entry's bytes or ones that never arrived. *)
THEOREM NodesOfDisk == ProgramsSpec => []NothingInvented
<1>1. DiskInv => NothingInvented
  <2> SUFFICES ASSUME DiskInv, NEW n \in found \ {D!Node(D!Mount, "DIR", << >>)}
               PROVE  \E d \in D!Dirs : \E e \in D!Used(d[2]) :
                        /\ n.path = Append(d[1], e.name) /\ n.kind = e.kind
                        /\ n.kind = "FILE" /\ n.data # << >> =>
                             /\ Len(n.data) = e.size
                             /\ \A i \in 1 .. e.size : n.data[i] \in {D!Stale, D!OnDisk(e, i)}
    BY DEF NothingInvented, D!NothingInvented
  <2>1. Copied(n)
    BY DEF DiskInv, MountInv, Mirrored, MountNode
  <2> QED BY <2>1 DEF Copied, EntryOf, Bytewise
<1> QED BY <1>1, DiskInvariance, PTL

(* The states are well typed: heap_ptr stays in the heap, the registers of the drive in
   their width, the recursion in its stack, and no path has two nodes. *)
THEOREM ProgramsTypeCorrect == ProgramsSpec => []ProgramsTypeOK
<1>1. ProgramInv => ProgramsTypeOK
  <2> SUFFICES ASSUME IInv, DiskInv, SourceInv PROVE ProgramsTypeOK
    BY DEF ProgramInv
  <2>1. LoaderTypeOK
    BY DEF IInv, HeapInv, LoadInv, SourceInv, LoaderTypeOK
  <2>2. disk \in Disks /\ Stacked(frames) /\ Mirrored(found)
    BY DEF DiskInv, MountInv
  <2>3. ASSUME NEW i \in DOMAIN frames
        PROVE  /\ frames[i].cluster \in DOMAIN disk.entries
               /\ frames[i].loaded \in BOOLEAN /\ frames[i].index \in Nat \ {0}
    <3>1. frames[i] \in FrameSet /\ Placed(frames[i], i)
      BY <2>2 DEF Stacked
    <3>2. PICK d \in D!Dirs : frames[i].cluster \in D!Reached(d[2])
      BY <3>1 DEF Placed
    <3>3. d[2] \in Ents /\ d[2] \in ClsOrEnd
      BY <2>2, DirsFacts, DiskFacts DEF Ents, ClsOrEnd
    <3>4. frames[i].cluster \in DOMAIN disk.entries
      BY <2>2, <3>2, <3>3, ReachedClosed DEF Ents
    <3> QED BY <3>1, <3>4 DEF FrameSet
  <2>4. D!TypeOK
    BY <2>2, <2>3 DEF DiskInv, MountInv, Mirrored, D!TypeOK
  <2>5. D!DiskTypeOK
    BY <2>4 DEF DiskInv, MountInv, Stages, JobInv, DriverInv, D!DiskTypeOK
  <2> QED BY <2>1, <2>5 DEF ProgramsTypeOK
<1> QED BY <1>1, ProgramInvariance, PTL

(* loader.c:46: at every address of a process's segment stands the byte that the disk has
   at that place of the program's file, or one that never arrived, and behind it zeros;
   the entry is where the headers put it. *)
THEOREM ImagesOfDisk == ProgramsSpec => []ImageFromDisk
<1>1. ProgramInv => ImageFromDisk
  <2> SUFFICES ASSUME IInv, SourceInv, proc # NoProc PROVE ImageFromDisk
    BY DEF ProgramInv, ImageFromDisk
  <2>1. PICK file, low : file = proc.file /\ low = MinVaddr(file)
    OBVIOUS
  <2>2. /\ Loadable(file) /\ Complete(file) /\ file \in Seq(D!Byte) /\ OfDisk(file)
        /\ proc.image = Image(file) /\ proc.entry = proc.base + (Elf[file[1]].entry - low)
    BY <2>1 DEF SourceInv, FromFile
  <2>3. proc.entry - proc.base = Elf[file[1]].entry - low
    <3>1. PICK x, b, en : x = Elf[file[1]].entry - low /\ b = proc.base /\ en = proc.entry
      OBVIOUS
    <3>2. x \in Int
      <4>1. ImageSize(file) \in Nat /\ x \in 0 .. ImageSize(file) - 1
        BY <2>1, <2>2, <3>1, ImageHasEntry
      <4> QED BY <4>1
    <3>3. b \in Nat
      BY <3>1 DEF IInv, LoadInv, HasImage, Holds
    <3>4. en = b + x
      BY <2>2, <3>1
    <3>5. en - b = x
      BY <3>2, <3>3, <3>4
    <3> QED BY <3>1, <3>5
  <2>4. PICK d \in D!Dirs : \E e \in D!Used(d[2]) : e.kind = "FILE" /\ Bytewise(file, e)
    BY <2>2 DEF OfDisk
  <2>5. PICK e \in D!Used(d[2]) : e.kind = "FILE" /\ Bytewise(file, e)
    BY <2>4
  <2>6. e.size = Len(file) /\ \A i \in 1 .. Len(file) : file[i] \in {D!OnDisk(e, i), D!Stale}
    BY <2>5 DEF Bytewise
  <2>7. ASSUME NEW s \in Segments(file), NEW n \in 0 .. s.memsz - 1
        PROVE  IF n < s.filesz THEN proc.image[s.vaddr - low + n + 1] \in {D!OnDisk(e, s.offset + n + 1), D!Stale}
               ELSE proc.image[s.vaddr - low + n + 1] = Zero
    <3>1. PICK byte, i : byte = Image(file)[s.vaddr - MinVaddr(file) + n + 1] /\ i = s.offset + n + 1
      OBVIOUS
    <3>2. /\ n < s.filesz => i \in 1 .. Len(file) /\ byte = file[i]
          /\ ~(n < s.filesz) => byte = Zero
      BY <2>2, <3>1, ImageHolds
    <3>3. byte = proc.image[s.vaddr - low + n + 1]
      BY <2>1, <2>2, <3>1
    <3> QED BY <2>6, <3>1, <3>2, <3>3
  <2> QED BY <2>1, <2>3, <2>5, <2>6, <2>7 DEF ImageFromDisk
<1> QED BY <1>1, ProgramInvariance, PTL

-----------------------------------------------------------------------------
(* What the mount has left behind.  A set Z of directories is done: every entry of one
   has its node, and its subdirectories are in Z.  A frame of the walk has passed the
   clusters before its own, and the entries before its own; of an entry passed the node
   is there, and a subdirectory is done or open, which is to say in a frame above. *)
RootPlace == <<D!Mount, D!RootCluster(disk)>>
Inside(d, e) == <<Append(d[1], e.name), e.first>>
Deep(e) == e.kind = "DIR" /\ e.first # D!EndOfChain
InUse(e) == e.kind \in {"FILE", "DIR"}
NodeOf(d, e) == D!Node(Append(d[1], e.name), e.kind,
                       IF e.kind = "FILE" THEN [i \in 1 .. e.size |-> D!OnDisk(e, i)] ELSE << >>)
DirNode(d) == D!Node(d[1], "DIR", << >>)
Paths(F) == {f.path : f \in F}

Entered(Z, open, d, e) == Inside(d, e) \in Z \/ Append(d[1], e.name) \in open
Treated(Z, open, nodes, d, e) == NodeOf(d, e) \in nodes /\ (Deep(e) => Entered(Z, open, d, e))
Closed(Z, nodes) == \A d \in Z : \A e \in D!Used(d[2]) : NodeOf(d, e) \in nodes /\ (Deep(e) => Inside(d, e) \in Z)
Exact(nodes) == \A n \in nodes : n = MountNode \/ \E d \in D!Dirs : \E e \in D!Used(d[2]) : n = NodeOf(d, e)

Stands(d, f) == d \in D!Dirs /\ d[1] = f.path /\ f.cluster \in D!Reached(d[2])
ClustersPassed(Z, open, nodes, d, f) == \A c \in D!Reached(d[2]) \ D!Reached(f.cluster) :
  \A e \in ToSet(disk.entries[c]) : InUse(e) => Treated(Z, open, nodes, d, e)
EntriesPassed(Z, open, nodes, d, f) == \A i \in DOMAIN disk.entries[f.cluster] :
  i < f.index /\ InUse(disk.entries[f.cluster][i]) => Treated(Z, open, nodes, d, disk.entries[f.cluster][i])
Passed(Z, open, nodes, d, f) == /\ Stands(d, f) /\ DirNode(d) \in nodes
                                /\ ClustersPassed(Z, open, nodes, d, f)
                                /\ EntriesPassed(Z, open, nodes, d, f)
Behind(Z, open, nodes, f) == \E d \in D!Dirs : Passed(Z, open, nodes, d, f)

Thorough(Z, F, nodes) == /\ Closed(Z, nodes) /\ Exact(nodes)
                         /\ \A f \in F : Behind(Z, Paths(F), nodes, f)
AllThere(F, nodes, stage) ==
  \E Z \in SUBSET D!Dirs : Thorough(Z, F, nodes) /\ (stage = "done" => RootPlace \in Z)
NothingLeftOut == D!Formatted /\ ~trouble => AllThere(ToSet(frames), found, phase)

(* All of this speaks of the disk alone. *)
LEMMA SameThorough ==
  ASSUME disk' = disk
  PROVE  /\ \A F, nodes, stage : AllThere(F, nodes, stage)' <=> AllThere(F, nodes, stage)
         /\ D!Formatted' <=> D!Formatted
<1>1. \A c : D!Reached(c)' = D!Reached(c)
  BY DEF D!Reached, D!Clusters
<1>2. \A c : D!Used(c)' = D!Used(c)
  BY <1>1 DEF D!Used, D!Entries
<1>3. D!Dirs' = D!Dirs
  BY DEF D!Dirs, D!Used, D!Entries, D!Reached, D!Clusters, D!RootCluster
<1>4. \A d, e : NodeOf(d, e)' = NodeOf(d, e)
  <2>1. \A e, i : D!OnDisk(e, i)' = D!OnDisk(e, i)
    BY DEF D!OnDisk, D!ClusterBytes
  <2> QED BY <2>1 DEF NodeOf
<1>5. \A Z, nodes : Closed(Z, nodes)' <=> Closed(Z, nodes)
  BY <1>2, <1>4 DEF Closed
<1>6. \A nodes : Exact(nodes)' <=> Exact(nodes)
  BY <1>2, <1>3, <1>4 DEF Exact
<1>7. \A Z, open, nodes, d, e : Treated(Z, open, nodes, d, e)' <=> Treated(Z, open, nodes, d, e)
  BY <1>4 DEF Treated, Entered
<1>8. \A Z, open, nodes, d, f : Passed(Z, open, nodes, d, f)' <=> Passed(Z, open, nodes, d, f)
  BY <1>1, <1>3, <1>7 DEF Passed, Stands, ClustersPassed, EntriesPassed
<1>9. \A Z, open, nodes, f : Behind(Z, open, nodes, f)' <=> Behind(Z, open, nodes, f)
  BY <1>3, <1>8 DEF Behind
<1>10. \A Z, F, nodes : Thorough(Z, F, nodes)' <=> Thorough(Z, F, nodes)
  BY <1>5, <1>6, <1>9 DEF Thorough
<1>11. RootPlace' = RootPlace
  BY DEF RootPlace, D!RootCluster
<1>12. \A F, nodes, stage : AllThere(F, nodes, stage)' <=> AllThere(F, nodes, stage)
  BY <1>3, <1>10, <1>11 DEF AllThere
<1>13. D!Formatted' <=> D!Formatted
  BY <1>2 DEF D!Formatted
<1> QED BY <1>12, <1>13

(* What may be used of a disk that is written as formatters write it. *)
LEMMA FormattedFacts ==
  ASSUME disk \in Disks, D!Formatted, NEW c \in Ents
  PROVE  /\ \A e, f \in D!Used(c) : e.name = f.name => e = f
         /\ \A i, j \in DOMAIN disk.entries[c] : disk.entries[c][i].kind = "END" /\ i < j => ~InUse(disk.entries[c][j])
         /\ \A e \in D!Used(c) : InUse(e) /\ \E x \in D!Reached(c) : e \in ToSet(disk.entries[x])
<1>1. \A e \in D!Used(c) : InUse(e) /\ \E x \in D!Reached(c) : e \in ToSet(disk.entries[x])
  BY SameToSet DEF D!Used, D!Entries, InUse
<1> QED BY <1>1 DEF D!Formatted, Ents, InUse

(* The root has the empty path, and every other directory the name of an entry at the end. *)
LEMMA Levels ==
  ASSUME disk \in Disks, NEW d \in D!Dirs
  PROVE  /\ Len(d[1]) \in 0 .. MaxDepth /\ d[1] \in Seq(Names) /\ d[2] \in Ents
         /\ \A e \in D!Used(d[2]) : /\ Append(d[1], e.name) \in Seq(Names)
                                    /\ Len(Append(d[1], e.name)) = Len(d[1]) + 1
         /\ \/ d = RootPlace /\ Len(d[1]) = 0
            \/ \E above \in D!Dirs : \E e \in D!Used(above[2]) :
                 /\ d = Inside(above, e) /\ Deep(e) /\ d[1] = Append(above[1], e.name) /\ d[2] = e.first
                 /\ Len(d[1]) = Len(above[1]) + 1
<1>1. \A x \in D!Dirs : x[1] \in Seq(Names) /\ x[2] \in Ents /\ Len(x[1]) \in 0 .. MaxDepth
  BY DirsFacts
<1>2. ASSUME NEW x \in D!Dirs, NEW e \in D!Used(x[2])
      PROVE  Append(x[1], e.name) \in Seq(Names) /\ Len(Append(x[1], e.name)) = Len(x[1]) + 1
  <2>1. PICK p, a : p = x[1] /\ a = e.name
    OBVIOUS
  <2>2. p \in Seq(Names) /\ a \in Names
    BY <1>1, <2>1, UsedFacts
  <2>3. Append(p, a) \in Seq(Names) /\ Len(Append(p, a)) = Len(p) + 1
    BY <2>2
  <2> QED BY <2>1, <2>3
<1>3. CASE d = RootPlace
  <2>1. d[1] = D!Mount
    BY <1>3 DEF RootPlace
  <2>2. Len(d[1]) = 0
    BY <2>1 DEF D!Mount
  <2> QED BY <1>1, <1>2, <1>3, <2>2
<1>4. CASE d # RootPlace
  <2>1. PICK above \in D!Dirs : d \in Below(above)
    BY <1>4, DirsFacts DEF RootPlace
  <2>2. PICK e \in D!Used(above[2]) : d = <<Append(above[1], e.name), e.first>> /\ e.kind = "DIR" /\ e.first # D!EndOfChain
    BY <2>1 DEF Below
  <2>3. d[1] = Append(above[1], e.name) /\ d[2] = e.first /\ d = Inside(above, e) /\ Deep(e)
    BY <2>2 DEF Inside, Deep
  <2> QED BY <1>1, <1>2, <2>3
<1> QED BY <1>3, <1>4

(* A path ends in one name. *)
LEMMA LastDiffers ==
  ASSUME NEW p \in Seq(Names), NEW q \in Seq(Names), NEW a \in Names, NEW b \in Names, Append(p, a) = Append(q, b)
  PROVE  p = q /\ a = b
OBVIOUS

(* On such a disk two directories have two paths. *)
LEMMA PathsDiffer ==
  ASSUME disk \in Disks, D!Formatted
  PROVE  \A d, x \in D!Dirs : d[1] = x[1] => d = x
<1> DEFINE P == {k \in 0 .. MaxDepth : \A d, x \in D!Dirs : Len(d[1]) = k /\ d[1] = x[1] => d = x}
<1>1. MaxDepth \in Nat \ {0}
  BY DiskFacts
<1>2. 0 \in P
  <2>1. ASSUME NEW d \in D!Dirs, Len(d[1]) = 0 PROVE d = RootPlace
    <3>1. \A above \in D!Dirs : Len(d[1]) # Len(above[1]) + 1
      <4>1. \A above \in D!Dirs : Len(above[1]) \in 0 .. MaxDepth
        BY Levels
      <4> QED BY <1>1, <2>1, <4>1
    <3> QED BY <3>1, Levels
  <2>2. \A d, x \in D!Dirs : Len(d[1]) = 0 /\ d[1] = x[1] => d = x
    BY <2>1
  <2> QED BY <1>1, <2>2
<1>3. ASSUME NEW k \in 0 .. MaxDepth - 1, k \in P PROVE k + 1 \in P
  <2>1. k \in Nat /\ k + 1 \in 0 .. MaxDepth /\ k + 1 # 0
    BY <1>1
  <2>2. ASSUME NEW d \in D!Dirs, NEW x \in D!Dirs, Len(d[1]) = k + 1, d[1] = x[1] PROVE d = x
    <3>1. PICK a \in D!Dirs : \E e \in D!Used(a[2]) : /\ d = Inside(a, e) /\ d[1] = Append(a[1], e.name)
                                                      /\ Len(d[1]) = Len(a[1]) + 1
      BY <2>1, <2>2, Levels
    <3>2. PICK b \in D!Dirs : \E e \in D!Used(b[2]) : /\ x = Inside(b, e) /\ x[1] = Append(b[1], e.name)
                                                      /\ Len(x[1]) = Len(b[1]) + 1
      BY <2>1, <2>2, Levels
    <3>3. PICK e \in D!Used(a[2]), f \in D!Used(b[2]) :
            d = Inside(a, e) /\ d[1] = Append(a[1], e.name) /\ x = Inside(b, f) /\ x[1] = Append(b[1], f.name)
      BY <3>1, <3>2
    <3>4. a[1] \in Seq(Names) /\ b[1] \in Seq(Names) /\ a[2] \in Ents /\ b[2] \in Ents
      BY Levels
    <3>5. e.name \in Names /\ f.name \in Names
      BY <3>4, UsedFacts
    <3>6. a[1] = b[1] /\ e.name = f.name
      <4>1. PICK p, q, n, m : p = a[1] /\ q = b[1] /\ n = e.name /\ m = f.name
        OBVIOUS
      <4>2. p \in Seq(Names) /\ q \in Seq(Names) /\ n \in Names /\ m \in Names /\ Append(p, n) = Append(q, m)
        BY <2>2, <3>3, <3>4, <3>5, <4>1
      <4>3. p = q /\ n = m
        BY <4>2
      <4> QED BY <4>1, <4>3, Zenon
    <3>7. Len(a[1]) = k
      <4>1. Len(a[1]) \in Nat
        BY <3>4
      <4> QED BY <2>1, <2>2, <3>1, <4>1
    <3>8. a = b
      BY <1>3, <3>6, <3>7
    <3>9. e = f
      BY <3>4, <3>6, <3>8, FormattedFacts
    <3> QED BY <3>3, <3>8, <3>9
  <2> QED BY <2>1, <2>2
<1>4. 0 .. MaxDepth \subseteq P
  <2> HIDE DEF P
  <2>1. 0 \in Int /\ MaxDepth \in Int /\ \A k \in 0 .. MaxDepth - 1 : k \in P => k + 1 \in P
    BY <1>1, <1>3
  <2> QED BY <1>2, <2>1, Upwards, Zenon
<1> QED
  <2>1. \A d \in D!Dirs : Len(d[1]) \in P
    <3> HIDE DEF P
    <3> QED BY <1>4, Levels
  <2> QED BY <2>1

(* A set that has the root, and the subdirectories of what it has, has all directories. *)
LEMMA DirsLeast ==
  ASSUME disk \in Disks, NEW Z, RootPlace \in Z,
         \A d \in Z : \A e \in D!Used(d[2]) : Deep(e) => Inside(d, e) \in Z
  PROVE  D!Dirs \subseteq Z
<1> DEFINE P == {k \in 0 .. MaxDepth : \A d \in D!Dirs : Len(d[1]) = k => d \in Z}
<1>1. MaxDepth \in Nat \ {0}
  BY DiskFacts
<1>2. ASSUME NEW k \in 0 .. MaxDepth, k = 0 \/ (k - 1 \in P) PROVE k \in P
  <2>1. ASSUME NEW d \in D!Dirs, Len(d[1]) = k PROVE d \in Z
    <3>1. CASE d = RootPlace
      BY <3>1
    <3>2. CASE d # RootPlace
      <4>1. PICK a \in D!Dirs : \E e \in D!Used(a[2]) : d = Inside(a, e) /\ Deep(e) /\ Len(d[1]) = Len(a[1]) + 1
        BY <3>2, Levels
      <4>2. Len(a[1]) \in 0 .. MaxDepth
        BY Levels
      <4>3. k # 0 /\ Len(a[1]) = k - 1
        <5>1. Len(d[1]) = Len(a[1]) + 1
          BY <4>1
        <5> QED BY <1>1, <2>1, <4>2, <5>1
      <4>4. a \in Z
        BY <1>2, <4>3
      <4> QED BY <4>1, <4>4
    <3> QED BY <3>1, <3>2
  <2> QED BY <2>1
<1>3. 0 .. MaxDepth \subseteq P
  <2>1. 0 \in P
    BY <1>1, <1>2
  <2>2. ASSUME NEW k \in 0 .. MaxDepth - 1, k \in P PROVE k + 1 \in P
    <3>1. k + 1 \in 0 .. MaxDepth /\ k + 1 - 1 = k
      BY <1>1
    <3> HIDE DEF P
    <3> QED BY <1>2, <2>2, <3>1
  <2> HIDE DEF P
  <2>3. 0 \in Int /\ MaxDepth \in Int /\ \A k \in 0 .. MaxDepth - 1 : k \in P => k + 1 \in P
    BY <1>1, <2>2
  <2> QED BY <2>1, <2>3, Upwards, Zenon
<1> QED
  <2>1. \A d \in D!Dirs : Len(d[1]) \in P
    <3> HIDE DEF P
    <3> QED BY <1>3, Levels
  <2> QED BY <2>1

(* A chain goes on with its next cluster, or is at its end. *)
LEMMA Onward ==
  ASSUME disk \in Disks, NEW c \in Ents
  PROVE  /\ disk.fat[c] = D!EndOfChain => D!Reached(c) \subseteq {c}
         /\ disk.fat[c] # D!EndOfChain => /\ disk.fat[c] \in Ents
                                          /\ D!Reached(c) \subseteq {c} \cup D!Reached(disk.fat[c])
<1>1. c \in ClsOrEnd /\ disk.fat[c] \in Ents \cup {D!EndOfChain} /\ Ents \subseteq Cls /\ Cls \subseteq ClsOrEnd
  BY DiskFacts DEF ClsOrEnd, Ents
<1>2. \A S : c \in S /\ (\A x \in S : disk.fat[x] \in S \cup {D!EndOfChain}) => D!Reached(c) \subseteq S
  BY <1>1, ReachedClosed
<1>3. ASSUME disk.fat[c] = D!EndOfChain PROVE D!Reached(c) \subseteq {c}
  BY <1>2, <1>3
<1>4. ASSUME disk.fat[c] # D!EndOfChain
      PROVE  disk.fat[c] \in Ents /\ D!Reached(c) \subseteq {c} \cup D!Reached(disk.fat[c])
  <2>1. PICK next \in Ents : next = disk.fat[c] /\ next \in Cls /\ next \in ClsOrEnd
    BY <1>1, <1>4
  <2>2. PICK S : S = {c} \cup D!Reached(next)
    OBVIOUS
  <2>3. next \in D!Reached(next) /\ \A x \in D!Reached(next) : disk.fat[x] \in D!Reached(next) \cup {D!EndOfChain}
    BY <2>1, ReachedClosed
  <2>4. c \in S /\ \A x \in S : disk.fat[x] \in S \cup {D!EndOfChain}
    BY <2>1, <2>2, <2>3
  <2> QED BY <1>2, <2>1, <2>2, <2>4
<1> QED BY <1>3, <1>4

(* A path has the node of one entry. *)
LEMMA OneNode ==
  ASSUME disk \in Disks, D!Formatted, NEW nodes, Exact(nodes), NEW n \in nodes,
         NEW d \in D!Dirs, NEW e \in D!Used(d[2]), n.path = Append(d[1], e.name)
  PROVE  n = NodeOf(d, e)
<1>1. n # MountNode
  <2>1. Len(n.path) = Len(d[1]) + 1 /\ Len(d[1]) \in Nat
    BY Levels
  <2>2. Len(D!Mount) = 0
    BY DEF D!Mount
  <2>3. MountNode.path = D!Mount
    BY DEF MountNode, D!Node
  <2> QED BY <2>1, <2>2, <2>3
<1>2. PICK x \in D!Dirs : \E f \in D!Used(x[2]) : n = NodeOf(x, f)
  BY <1>1 DEF Exact
<1>3. PICK f \in D!Used(x[2]) : n = NodeOf(x, f)
  BY <1>2
<1>4. n.path = Append(x[1], f.name)
  BY <1>3 DEF NodeOf, D!Node
<1>5. d[1] \in Seq(Names) /\ x[1] \in Seq(Names) /\ d[2] \in Ents /\ x[2] \in Ents
  BY Levels
<1>6. e.name \in Names /\ f.name \in Names
  BY <1>5, UsedFacts
<1>7. x[1] = d[1] /\ e.name = f.name
  <2>1. PICK p, q, a, b : p = x[1] /\ q = d[1] /\ a = f.name /\ b = e.name
    OBVIOUS
  <2>2. p \in Seq(Names) /\ q \in Seq(Names) /\ a \in Names /\ b \in Names /\ Append(p, a) = Append(q, b)
    BY <1>4, <1>5, <1>6, <2>1
  <2>3. p = q /\ a = b
    BY <2>2, LastDiffers, Zenon
  <2> QED BY <2>1, <2>3, Zenon
<1>8. x = d
  BY <1>7, PathsDiffer
<1>9. e = f
  BY <1>5, <1>7, <1>8, FormattedFacts
<1> QED BY <1>3, <1>8, <1>9

(* There is room below a directory that has its node. *)
LEMMA RoomBelow ==
  ASSUME disk \in Disks, NEW d \in D!Dirs, NEW e \in D!Used(d[2]), DirNode(d) \in found
  PROVE  D!Room(Append(d[1], e.name))
<1>1. PICK p, a : p = d[1] /\ a = e.name
  OBVIOUS
<1>2. p \in Seq(Names) /\ a \in Names
  BY <1>1, Levels, UsedFacts
<1>3. D!Front(Append(p, a)) = p
  <2>1. PICK t : t = Append(p, a)
    OBVIOUS
  <2>2. t \in Seq(Names) /\ Len(t) = Len(p) + 1 /\ Len(p) \in Nat /\ \A i \in 1 .. Len(p) : t[i] = p[i]
    BY <1>2, <2>1
  <2>3. PICK n \in Nat : n = Len(p) /\ Len(t) - 1 = n
    BY <2>2
  <2>4. PICK u : u = SubSeq(t, 1, n)
    OBVIOUS
  <2>5. u \in Seq(Names) /\ Len(u) = n /\ \A i \in 1 .. n : u[i] = t[i]
    <3>1. 1 \in Int /\ n \in Int /\ \A i \in 1 .. n : t[i] \in Names
      BY <2>2, <2>3
    <3>2. /\ u \in Seq(Names) /\ Len(u) = IF 1 <= n THEN n - 1 + 1 ELSE 0
          /\ \A i \in 1 .. n - 1 + 1 : u[i] = t[1 + i - 1]
      BY <2>4, <3>1, SubSeqProperties
    <3>3. \A i \in 1 .. n : i \in 1 .. n - 1 + 1 /\ 1 + i - 1 = i
      OBVIOUS
    <3> QED BY <3>2, <3>3
  <2>6. u = p
    BY <1>2, <2>2, <2>3, <2>5
  <2> QED BY <2>1, <2>3, <2>4, <2>6 DEF D!Front
<1>4. D!IsDir(p)
  <2>1. DirNode(d).path = p /\ DirNode(d).kind = "DIR"
    BY <1>1 DEF DirNode, D!Node
  <2> QED BY <2>1 DEF D!IsDir
<1> QED BY <1>1, <1>3, <1>4 DEF D!Room

(* vfs_create makes the node of a directory's entry, unless it is there, and vfs_write_file
   the node of a file's; no other node changes. *)
LEMMA NodeMade ==
  ASSUME disk \in Disks, D!Formatted, Exact(found), NEW d \in D!Dirs, NEW e \in D!Used(d[2]), DirNode(d) \in found,
         \/ e.kind = "DIR" /\ D!MakeDir(Append(d[1], e.name)) /\ ~trouble'
         \/ /\ e.kind = "FILE"
            /\ found' = D!WriteFile(Append(d[1], e.name), [i \in 1 .. e.size |-> D!OnDisk(e, i)])
  PROVE  found \subseteq found' /\ NodeOf(d, e) \in found' /\ Exact(found')
<1>1. PICK path, node : path = Append(d[1], e.name) /\ node = NodeOf(d, e)
  OBVIOUS
<1>2. D!Room(path) /\ node.path = path /\ node.kind = e.kind
  BY <1>1, RoomBelow DEF NodeOf, D!Node
<1>3. \A n \in found : n.path = path => n = node
  BY <1>1, OneNode
<1>4. ASSUME found' = found \/ found' = found \cup {node} PROVE Exact(found')
  BY <1>1, <1>4 DEF Exact
<1>5. CASE e.kind = "DIR" /\ D!MakeDir(path) /\ ~trouble'
  <2>1. node = D!Node(path, "DIR", << >>)
    BY <1>1, <1>5 DEF NodeOf
  <2>2. found' = found \cup IF \A n \in found : n.path # path THEN {node} ELSE {}
    BY <1>2, <1>5, <2>1 DEF D!MakeDir
  <2>3. node \in found'
    BY <1>3, <2>2
  <2> QED BY <1>1, <1>4, <2>2, <2>3
<1>6. CASE e.kind = "FILE" /\ found' = D!WriteFile(path, [i \in 1 .. e.size |-> D!OnDisk(e, i)])
  <2>1. node = D!Node(path, "FILE", [i \in 1 .. e.size |-> D!OnDisk(e, i)])
    BY <1>1, <1>6 DEF NodeOf
  <2>2. ~D!IsDir(path)
    BY <1>2, <1>3, <1>6 DEF D!IsDir
  <2>3. found' = {n \in found : n.path # path \/ n.kind = "DIR"} \cup {node}
    BY <1>2, <1>6, <2>1, <2>2 DEF D!WriteFile
  <2>4. found' = found \cup {node}
    BY <1>3, <2>3
  <2> QED BY <1>1, <1>4, <2>4
<1> QED BY <1>1, <1>5, <1>6

-----------------------------------------------------------------------------
(* What is done stays done: an entry that is entered before a step is so after it. *)
Covers(Z, open, Z2, open2) == \A d \in D!Dirs : \A e \in D!Used(d[2]) :
  Deep(e) /\ Entered(Z, open, d, e) => Entered(Z2, open2, d, e)

(* More nodes take nothing away from the directories that are done. *)
LEMMA ClosedKeeps ==
  ASSUME NEW Z, NEW nodes, NEW more, Closed(Z, nodes), nodes \subseteq more
  PROVE  Closed(Z, more)
BY DEF Closed

(* ... nor from what a frame has passed. *)
LEMMA PassedKeeps ==
  ASSUME disk \in Disks, NEW Z, NEW open, NEW nodes, NEW Z2, NEW open2, NEW more,
         NEW d, NEW f, Passed(Z, open, nodes, d, f), nodes \subseteq more, Covers(Z, open, Z2, open2)
  PROVE  Passed(Z2, open2, more, d, f)
<1>1. d \in D!Dirs /\ f.cluster \in D!Reached(d[2]) /\ d[2] \in Ents
  BY Levels DEF Passed, Stands
<1>2. ASSUME NEW c \in D!Reached(d[2]), NEW e \in ToSet(disk.entries[c]), InUse(e), Treated(Z, open, nodes, d, e)
      PROVE  Treated(Z2, open2, more, d, e)
  <2>1. e \in D!Used(d[2])
    BY <1>1, <1>2, UsedFacts DEF InUse
  <2> QED BY <1>1, <1>2, <2>1 DEF Treated, Covers
<1>3. ClustersPassed(Z2, open2, more, d, f)
  BY <1>2 DEF Passed, ClustersPassed
<1>4. EntriesPassed(Z2, open2, more, d, f)
  <2>1. \A i \in DOMAIN disk.entries[f.cluster] : disk.entries[f.cluster][i] \in ToSet(disk.entries[f.cluster])
    BY DEF ToSet
  <2> QED BY <1>1, <1>2, <2>1 DEF Passed, EntriesPassed
<1> QED BY <1>3, <1>4 DEF Passed

(* The frames B stay and those of G take the place of the innermost. *)
LEMMA ThoroughStep ==
  ASSUME disk \in Disks, NEW Z, NEW Z2, NEW B, NEW f, NEW G, NEW nodes, NEW more,
         Thorough(Z, B \cup {f}, nodes), Closed(Z2, more), Exact(more), nodes \subseteq more,
         Covers(Z, Paths(B \cup {f}), Z2, Paths(B \cup G)),
         \A g \in G : Behind(Z2, Paths(B \cup G), more, g)
  PROVE  Thorough(Z2, B \cup G, more)
<1>1. ASSUME NEW b \in B PROVE Behind(Z2, Paths(B \cup G), more, b)
  <2>1. PICK d \in D!Dirs : Passed(Z, Paths(B \cup {f}), nodes, d, b)
    BY DEF Thorough, Behind
  <2>2. Passed(Z2, Paths(B \cup G), more, d, b)
    BY <2>1, PassedKeeps
  <2> QED BY <2>2 DEF Behind
<1> QED BY <1>1 DEF Thorough

(* The frames of the walk, the innermost apart: B are the others. *)
LEMMA FramesApart ==
  ASSUME MountInv, phase = "walk"
  PROVE  \E B : /\ B \subseteq FrameSet
                /\ ToSet(frames) = B \cup {D!Top} /\ ToSet(D!Front(frames)) = B
                /\ \A f \in FrameSet : ToSet(D!SetTop(f)) = B \cup {f}
                /\ \A f, g \in FrameSet : ToSet(Append(D!SetTop(f), g)) = B \cup {f, g}
                /\ \A b \in B : Len(b.path) < Len(frames) - 1
<1>1. Stacked(frames) /\ frames # << >> /\ frames \in Seq(FrameSet)
  BY DEF MountInv, Stacked
<1>2. PICK n \in Nat : n = Len(frames) - 1
  BY <1>1, Pop
<1>3. PICK t : t = D!Front(frames)
  OBVIOUS
<1>4. t \in Seq(FrameSet) /\ Len(t) = n /\ Stacked(t)
  BY <1>1, <1>2, <1>3, Pop DEF Stacked
<1>5. \A f \in FrameSet : Append(t, f) \in Seq(FrameSet) /\ ToSet(Append(t, f)) = ToSet(t) \cup {f}
  BY <1>4, AppendElements
<1>6. D!Top \in FrameSet
  BY TopFacts
<1>7. frames = Append(t, D!Top)
  <2>1. Len(frames) = n + 1 /\ frames[n + 1] = D!Top
    BY <1>1, <1>2 DEF D!Top, D!Last
  <2>2. \A i \in 1 .. n : t[i] = frames[i]
    <3>1. t = SubSeq(frames, 1, n)
      BY <1>2, <1>3 DEF D!Front
    <3>2. 1 \in Int /\ n \in Int /\ \A i \in 1 .. n : frames[i] \in FrameSet
      BY <1>1, <2>1
    <3>3. \A i \in 1 .. n - 1 + 1 : t[i] = frames[1 + i - 1]
      BY <3>1, <3>2, SubSeqProperties
    <3>4. \A i \in 1 .. n : i \in 1 .. n - 1 + 1 /\ 1 + i - 1 = i
      OBVIOUS
    <3> QED BY <3>3, <3>4
  <2> QED BY <1>1, <1>4, <1>6, <2>1, <2>2
<1>8. PICK B : B = ToSet(t)
  OBVIOUS
<1>9. \A b \in B : b \in FrameSet /\ Len(b.path) < Len(frames) - 1
  <2>1. ASSUME NEW i \in 1 .. n PROVE t[i] \in FrameSet /\ Len(t[i].path) < n
    <3>1. t[i] \in FrameSet
      BY <1>4, <2>1
    <3>2. Len(t[i].path) < i
      <4>1. Placed(t[i], i)
        BY <1>4, <2>1 DEF Stacked
      <4>2. PICK r : r = t[i]
        OBVIOUS
      <4>3. PICK z : z = Len(r.path)
        OBVIOUS
      <4>4. z = i - 1
        BY <4>1, <4>2, <4>3 DEF Placed
      <4>5. z < i
        BY <4>4
      <4> QED BY <4>2, <4>3, <4>5
    <3>3. PICK r : r = t[i]
      OBVIOUS
    <3>4. PICK z \in Nat : z = Len(r.path)
      BY <3>1, <3>3 DEF FrameSet
    <3>5. z < n
      BY <1>1, <1>2, <2>1, <3>2, <3>3, <3>4
    <3> QED BY <3>1, <3>3, <3>4, <3>5
  <2>2. DOMAIN t = 1 .. n
    BY <1>4
  <2> QED BY <1>2, <1>8, <2>1, <2>2 DEF ToSet
<1>10. ASSUME NEW f \in FrameSet, NEW g \in FrameSet PROVE ToSet(Append(D!SetTop(f), g)) = B \cup {f, g}
  <2>1. PICK u : u = Append(t, f)
    OBVIOUS
  <2>2. u \in Seq(FrameSet) /\ ToSet(u) = B \cup {f}
    BY <1>5, <1>8, <2>1
  <2>3. ToSet(Append(u, g)) = ToSet(u) \cup {g}
    BY <2>2, AppendElements
  <2>4. D!SetTop(f) = u
    BY <1>3, <2>1 DEF D!SetTop
  <2> QED BY <2>2, <2>3, <2>4
<1>11. \A f \in FrameSet : ToSet(D!SetTop(f)) = B \cup {f}
  BY <1>3, <1>5, <1>8 DEF D!SetTop
<1>12. ToSet(frames) = B \cup {D!Top}
  BY <1>5, <1>6, <1>7, <1>8
<1> QED BY <1>3, <1>8, <1>9, <1>10, <1>11, <1>12

(* The innermost frame goes on to the next entry, behind the frames H that it calls. *)
LEMMA Advances ==
  ASSUME MountInv, D!AtEntry, NEW B, NEW H, NEW Z, NEW more, Thorough(Z, B \cup {D!Top}, found),
         found \subseteq more, Exact(more), NEW d, Passed(Z, Paths(B \cup {D!Top}), found, d, D!Top),
         NEW f, f = [D!Top EXCEPT !.index = @ + 1],
         InUse(D!Entry) => Treated(Z, Paths(B \cup ({f} \cup H)), more, d, D!Entry),
         \A h \in H : Behind(Z, Paths(B \cup ({f} \cup H)), more, h)
  PROVE  Thorough(Z, B \cup ({f} \cup H), more)
<1>1. D!Top \in FrameSet /\ phase = "walk" /\ disk \in Disks
  BY TopFacts DEF D!AtEntry, MountInv
<1>2. f.path = D!Top.path /\ f.cluster = D!Top.cluster /\ f.index = D!Top.index + 1 /\ D!Top.index \in Nat
  BY <1>1 DEF FrameSet
<1>3. PICK before, open : before = Paths(B \cup {D!Top}) /\ open = Paths(B \cup ({f} \cup H))
  OBVIOUS
<1>4. Covers(Z, before, Z, open)
  <2>1. before \subseteq open
    BY <1>2, <1>3 DEF Paths
  <2> QED BY <2>1 DEF Covers, Entered
<1>5. Passed(Z, open, more, d, D!Top)
  BY <1>1, <1>3, <1>4, PassedKeeps
<1>6. Passed(Z, open, more, d, f)
  <2>1. Stands(d, f) /\ DirNode(d) \in more /\ ClustersPassed(Z, open, more, d, f)
    BY <1>2, <1>5 DEF Passed, Stands, ClustersPassed
  <2>2. EntriesPassed(Z, open, more, d, f)
    <3>1. SUFFICES ASSUME NEW i \in DOMAIN disk.entries[D!Top.cluster], i < D!Top.index + 1,
                          InUse(disk.entries[D!Top.cluster][i])
                   PROVE  Treated(Z, open, more, d, disk.entries[D!Top.cluster][i])
      BY <1>2 DEF EntriesPassed
    <3>2. CASE i < D!Top.index
      BY <1>5, <3>1, <3>2 DEF Passed, EntriesPassed
    <3>3. CASE i = D!Top.index
      BY <1>3, <3>1, <3>3 DEF D!Entry
    <3>4. i \in Nat
      <4>1. d[2] \in Ents /\ D!Top.cluster \in D!Reached(d[2])
        BY <1>1, <1>5, Levels DEF Passed, Stands
      <4>2. D!Top.cluster \in Ents
        BY <1>1, TopFacts
      <4>3. PICK s : s = disk.entries[D!Top.cluster] /\ s \in Seq(ToSet(s))
        BY <1>1, <4>2, DiskFacts DEF Ents
      <4>4. DOMAIN s \subseteq Nat
        BY <4>3
      <4> QED BY <4>3, <4>4
    <3> QED BY <1>2, <3>1, <3>2, <3>3, <3>4
  <2> QED BY <2>1, <2>2 DEF Passed
<1>7. \A g \in {f} \cup H : Behind(Z, open, more, g)
  <2>1. d \in D!Dirs
    BY <1>6 DEF Passed, Stands
  <2> QED BY <1>3, <1>6, <2>1 DEF Behind
<1>8. Closed(Z, more)
  BY ClosedKeeps DEF Thorough
<1> QED
  <2>1. PICK G : G = {f} \cup H
    OBVIOUS
  <2>2. /\ Covers(Z, Paths(B \cup {D!Top}), Z, Paths(B \cup G))
        /\ \A g \in G : Behind(Z, Paths(B \cup G), more, g)
    BY <1>3, <1>4, <1>7, <2>1
  <2>3. Thorough(Z, B \cup G, more)
    BY <1>1, <1>8, <2>2, ThoroughStep
  <2> QED BY <2>1, <2>3

(* Where the innermost frame stands: its directory is one of the disk, the entry it is at is
   of it. *)
LEMMA TopPassed ==
  ASSUME MountInv, phase = "walk", NEW Z, NEW F, D!Top \in F, Thorough(Z, F, found)
  PROVE  \E d \in D!Dirs : /\ Passed(Z, Paths(F), found, d, D!Top) /\ d[1] = D!Top.path /\ DirNode(d) \in found
                           /\ Len(d[1]) = Len(frames) - 1 /\ d[2] \in Ents
                           /\ D!AtEntry /\ InUse(D!Entry) => D!Entry \in D!Used(d[2])
<1>1. disk \in Disks /\ Placed(D!Top, Len(frames))
  BY TopFacts DEF MountInv
<1>2. PICK d \in D!Dirs : Passed(Z, Paths(F), found, d, D!Top)
  BY DEF Thorough, Behind
<1>3. d[1] = D!Top.path /\ DirNode(d) \in found /\ D!Top.cluster \in D!Reached(d[2]) /\ d[2] \in Ents
  BY <1>1, <1>2, Levels DEF Passed, Stands
<1>4. Len(d[1]) = Len(frames) - 1
  BY <1>1, <1>3 DEF Placed
<1>5. ASSUME D!AtEntry, InUse(D!Entry) PROVE D!Entry \in D!Used(d[2])
  <2>1. D!Entry \in ToSet(disk.entries[D!Top.cluster])
    BY <1>5 DEF D!AtEntry, D!Entry, ToSet
  <2> QED BY <1>1, <1>3, <1>5, <2>1, UsedFacts DEF InUse
<1> QED BY <1>2, <1>3, <1>4, <1>5

-----------------------------------------------------------------------------
(* The steps of the walk leave nothing out.                                *)
Leaving == MountInv /\ D!Formatted /\ NothingLeftOut /\ ~trouble /\ ~trouble'
Left == AllThere(ToSet(frames'), found', phase')

(* A walk under way has passed some set of directories. *)
LEMMA SomeThorough ==
  ASSUME Leaving
  PROVE  \E Z \in SUBSET D!Dirs : Thorough(Z, ToSet(frames), found) /\ (phase = "done" => RootPlace \in Z)
BY DEF Leaving, NothingLeftOut, AllThere

(* ... and has not ended. *)
LEMMA StillLeft ==
  ASSUME NEW Z \in SUBSET D!Dirs, Thorough(Z, ToSet(frames'), found'), phase' # "done"
  PROVE  Left
BY DEF Left, AllThere

(* The walk begins at the root with the mount point. *)
LEMMA BeginLeaves ==
  ASSUME Leaving, D!Begin
  PROVE  Left
<1>1. PICK Z \in SUBSET D!Dirs : Thorough(Z, ToSet(frames), found)
  BY SomeThorough
<1>2. disk \in Disks /\ phase' # "done"
  BY DEF Leaving, MountInv, D!Begin
<1>3. PICK f : f = D!Frame(D!RootCluster(disk), D!Mount)
  OBVIOUS
<1>4. ToSet(frames') = {f}
  <2>1. frames' = <<f>>
    BY <1>3 DEF D!Begin
  <2> QED BY <2>1 DEF ToSet
<1>5. found \subseteq found' /\ MountNode \in found' /\ Exact(found')
  <2>1. found' = found \cup IF \A n \in found : n.path # D!Mount THEN {MountNode} ELSE {}
    BY DEF Leaving, D!Begin, D!MakeDir, D!Room, MountNode
  <2>2. ASSUME NEW n \in found, n.path = D!Mount PROVE n = MountNode
    <3>1. SUFFICES ASSUME NEW d \in D!Dirs, NEW e \in D!Used(d[2]), n = NodeOf(d, e) PROVE FALSE
      BY <1>1 DEF Thorough, Exact
    <3>2. n.path = Append(d[1], e.name)
      BY <3>1 DEF NodeOf, D!Node
    <3>3. Len(n.path) = Len(d[1]) + 1 /\ Len(d[1]) \in Nat
      BY <1>2, <3>2, Levels
    <3>4. Len(n.path) = 0
      BY <2>2 DEF D!Mount
    <3> QED BY <3>3, <3>4
  <2>3. MountNode \in found'
    BY <2>1, <2>2
  <2>4. found' \subseteq found \cup {MountNode}
    BY <2>1
  <2> QED BY <1>1, <2>1, <2>3, <2>4 DEF Thorough, Exact
<1>6. Closed(Z, found')
  BY <1>1, <1>5, ClosedKeeps DEF Thorough
<1>7. Behind(Z, Paths({f}), found', f)
  <2>1. RootPlace \in D!Dirs /\ RootPlace[1] = D!Mount /\ RootPlace[2] = D!RootCluster(disk)
    BY <1>2, DirsFacts DEF RootPlace
  <2>2. f.path = D!Mount /\ f.cluster = D!RootCluster(disk) /\ f.index = 1
    BY <1>3 DEF D!Frame
  <2>3. D!RootCluster(disk) \in Ents /\ D!RootCluster(disk) \in Cls
    BY <1>2, DiskFacts DEF Ents
  <2>4. Stands(RootPlace, f)
    <3>1. D!RootCluster(disk) \in D!Reached(D!RootCluster(disk))
      BY <1>2, <2>3, ReachedClosed DEF ClsOrEnd
    <3> QED BY <2>1, <2>2, <3>1 DEF Stands
  <2>5. DirNode(RootPlace) \in found'
    BY <1>5, <2>1 DEF DirNode, MountNode
  <2>6. ClustersPassed(Z, Paths({f}), found', RootPlace, f)
    BY <2>1, <2>2 DEF ClustersPassed
  <2>7. EntriesPassed(Z, Paths({f}), found', RootPlace, f)
    <3>1. \A i \in DOMAIN disk.entries[f.cluster] : ~(i < f.index)
      <4>1. PICK s : s = disk.entries[f.cluster] /\ s \in Seq(ToSet(s))
        BY <1>2, <2>2, <2>3, DiskFacts DEF Ents
      <4>2. \A i \in DOMAIN s : i \in Nat \ {0}
        BY <4>1
      <4> QED BY <2>2, <4>1, <4>2
    <3> QED BY <3>1 DEF EntriesPassed
  <2> QED BY <2>1, <2>4, <2>5, <2>6, <2>7 DEF Behind, Passed
<1>8. Thorough(Z, {f}, found')
  BY <1>5, <1>6, <1>7 DEF Thorough
<1> QED BY <1>2, <1>4, <1>8, StillLeft

(* A cluster is read; its entries are still to come. *)
LEMMA LoadLeaves ==
  ASSUME Leaving, D!LoadCluster
  PROVE  Left
<1>1. MountInv /\ disk \in Disks /\ phase = "walk" /\ UNCHANGED <<phase, found>>
  BY DEF Leaving, MountInv, D!LoadCluster
<1>2. PICK Z \in SUBSET D!Dirs : Thorough(Z, ToSet(frames), found)
  BY SomeThorough
<1>3. PICK f : f = [D!Top EXCEPT !.loaded = TRUE, !.index = 1]
  OBVIOUS
<1>4. D!Top \in FrameSet /\ D!Top.cluster \in Ents
  BY <1>1, TopFacts
<1>5. f \in FrameSet /\ f.path = D!Top.path /\ f.cluster = D!Top.cluster /\ f.index = 1
  <2>1. TRUE \in BOOLEAN /\ 1 \in Nat \ {0}
    OBVIOUS
  <2>2. \A loaded \in BOOLEAN, index \in Nat \ {0} :
          LET t == [D!Top EXCEPT !.loaded = loaded, !.index = index]
          IN  t \in FrameSet /\ t.path = D!Top.path /\ t.cluster = D!Top.cluster /\ t.index = index
    BY <1>4 DEF FrameSet
  <2> QED BY <1>3, <2>1, <2>2, Zenon
<1>6. PICK B : ToSet(frames) = B \cup {D!Top} /\ ToSet(frames') = B \cup {f}
  <2>1. frames' = D!SetTop(f)
    BY <1>3 DEF D!LoadCluster
  <2> QED BY <1>1, <1>5, <2>1, FramesApart
<1>7. PICK open : open = Paths(B \cup {D!Top}) /\ open = Paths(B \cup {f})
  BY <1>5 DEF Paths
<1>8. PICK d \in D!Dirs : Passed(Z, open, found, d, D!Top)
  <2>1. PICK F : F = B \cup {D!Top} /\ Thorough(Z, F, found) /\ D!Top \in F
    BY <1>2, <1>6
  <2>2. Paths(F) = open
    BY <1>7, <2>1
  <2> QED BY <1>1, <2>1, <2>2, TopPassed
<1>9. Passed(Z, open, found, d, f)
  <2>1. \A i \in DOMAIN disk.entries[f.cluster] : ~(i < f.index)
    <3>1. PICK s : s = disk.entries[f.cluster] /\ s \in Seq(ToSet(s))
      BY <1>1, <1>4, <1>5, DiskFacts DEF Ents
    <3>2. \A i \in DOMAIN s : i \in Nat \ {0}
      BY <3>1
    <3> QED BY <1>5, <3>1, <3>2
  <2>2. EntriesPassed(Z, open, found, d, f)
    BY <2>1 DEF EntriesPassed
  <2> QED BY <1>5, <1>8, <2>2 DEF Passed, Stands, ClustersPassed
<1>10. Thorough(Z, B \cup {f}, found)
  <2>1. Covers(Z, open, Z, open)
    BY DEF Covers
  <2>2. Closed(Z, found) /\ Exact(found)
    BY <1>2 DEF Thorough
  <2>3. PICK G : G = {f} /\ Paths(B \cup G) = open
    BY <1>7
  <2>4. \A g \in G : Behind(Z, Paths(B \cup G), found, g)
    BY <1>9, <2>3 DEF Behind
  <2>5. Thorough(Z, B \cup {D!Top}, found) /\ Covers(Z, Paths(B \cup {D!Top}), Z, Paths(B \cup G))
    BY <1>2, <1>6, <1>7, <2>1, <2>3
  <2>6. Thorough(Z, B \cup G, found)
    BY <1>1, <2>2, <2>4, <2>5, ThoroughStep
  <2> QED BY <2>3, <2>6
<1> QED BY <1>1, <1>6, <1>10, StillLeft

(* An entry that is not in use is passed over. *)
LEMMA SkipLeaves ==
  ASSUME Leaving, D!SkipEntry
  PROVE  Left
<1>1. MountInv /\ D!AtEntry /\ phase = "walk" /\ UNCHANGED <<phase, found>> /\ frames' = D!Advanced /\ ~InUse(D!Entry)
  BY DEF Leaving, D!SkipEntry, D!AtEntry, InUse
<1>2. PICK Z \in SUBSET D!Dirs : Thorough(Z, ToSet(frames), found)
  BY SomeThorough
<1>3. PICK f : f = [D!Top EXCEPT !.index = @ + 1]
  OBVIOUS
<1>4. f \in FrameSet
  BY <1>1, <1>3, TopFacts DEF FrameSet
<1>5. PICK B : ToSet(frames) = B \cup {D!Top} /\ ToSet(frames') = B \cup {f}
  <2>1. frames' = D!SetTop(f)
    BY <1>1, <1>3 DEF D!Advanced
  <2> QED BY <1>1, <1>4, <2>1, FramesApart
<1>6. PICK d \in D!Dirs : Passed(Z, Paths(B \cup {D!Top}), found, d, D!Top)
  BY <1>1, <1>2, <1>5, TopPassed
<1>7. Thorough(Z, B \cup ({f} \cup {}), found)
  <2>1. PICK H : H = {}
    OBVIOUS
  <2>2. Exact(found) /\ \A h \in H : Behind(Z, Paths(B \cup ({f} \cup H)), found, h)
    BY <1>2, <2>1 DEF Thorough
  <2>3. Thorough(Z, B \cup ({f} \cup H), found)
    <3>1. InUse(D!Entry) => Treated(Z, Paths(B \cup ({f} \cup H)), found, d, D!Entry)
      BY <1>1
    <3>2. found \subseteq found /\ Thorough(Z, B \cup {D!Top}, found)
      BY <1>2, <1>5
    <3>3. MountInv /\ D!AtEntry /\ f = [D!Top EXCEPT !.index = @ + 1]
          /\ Passed(Z, Paths(B \cup {D!Top}), found, d, D!Top)
      BY <1>1, <1>3, <1>6
    <3> QED BY <2>2, <3>1, <3>2, <3>3, Advances, Zenon
  <2> QED BY <2>1, <2>3
<1> QED BY <1>1, <1>5, <1>7, StillLeft

(* A file is copied with all of its sectors. *)
LEMMA CopyLeaves ==
  ASSUME Leaving, NEW n \in Nat, D!CopyFile(n), n <= D!FileSectors
  PROVE  Left
<1>1. /\ MountInv /\ disk \in Disks /\ D!AtEntry /\ phase = "walk" /\ UNCHANGED phase /\ frames' = D!Advanced
      /\ D!Entry.kind = "FILE" /\ D!Formatted /\ InUse(D!Entry) /\ ~Deep(D!Entry)
      /\ found' = D!WriteFile(D!EntryPath, D!Contents(D!FileChain, n, D!Entry.size))
  BY DEF Leaving, MountInv, D!CopyFile, D!AtEntry, InUse, Deep
<1>2. PICK Z \in SUBSET D!Dirs : Thorough(Z, ToSet(frames), found)
  BY SomeThorough
<1>3. PICK f : f = [D!Top EXCEPT !.index = @ + 1]
  OBVIOUS
<1>4. f \in FrameSet
  BY <1>1, <1>3, TopFacts DEF FrameSet
<1>5. PICK B : ToSet(frames) = B \cup {D!Top} /\ ToSet(frames') = B \cup {f}
  <2>1. frames' = D!SetTop(f)
    BY <1>1, <1>3 DEF D!Advanced
  <2> QED BY <1>1, <1>4, <2>1, FramesApart
<1>6. PICK d \in D!Dirs : /\ Passed(Z, Paths(B \cup {D!Top}), found, d, D!Top) /\ d[1] = D!Top.path
                          /\ DirNode(d) \in found /\ D!Entry \in D!Used(d[2]) /\ d[2] \in Ents
  BY <1>1, <1>2, <1>5, TopPassed
<1>7. D!Contents(D!FileChain, n, D!Entry.size) = [i \in 1 .. D!Entry.size |-> D!OnDisk(D!Entry, i)]
  <2>1. PICK e, chain : e = D!Entry /\ chain = D!FileChain
    OBVIOUS
  <2>2. n = D!FileSectors
    <3>1. ~(n < D!FileSectors) /\ D!FileSectors \in Nat
      BY <1>1, FileChainFacts DEF Leaving, D!CopyFile
    <3> QED BY <3>1
  <2>3. /\ chain = D!Chain(e.first, D!ClustersNeeded(e.size))
        /\ n = Len(chain) * disk.sectors_per_cluster /\ n <= Len(chain) * disk.sectors_per_cluster
    BY <2>1, <2>2 DEF D!FileChain, D!FileSectors
  <2>4. e.size \in Nat /\ (e.size > 0 => e.first \in Cls)
    BY <1>1, <1>6, <2>1, UsedFacts
  <2>5. D!Contents(chain, n, e.size) = [i \in 1 .. e.size |-> D!OnDisk(e, i)]
    BY <1>1, <2>3, <2>4, ContentsOnDisk
  <2> QED BY <2>1, <2>5
<1>8. found \subseteq found' /\ NodeOf(d, D!Entry) \in found' /\ Exact(found')
  <2>1. PICK e : e = D!Entry
    OBVIOUS
  <2>2. e \in D!Used(d[2]) /\ e.kind = "FILE" /\ found' = D!WriteFile(Append(d[1], e.name), [i \in 1 .. e.size |-> D!OnDisk(e, i)])
    BY <1>1, <1>6, <1>7, <2>1 DEF D!EntryPath
  <2>3. Exact(found)
    BY <1>2 DEF Thorough
  <2> QED BY <1>1, <1>6, <2>1, <2>2, <2>3, NodeMade
<1>9. Thorough(Z, B \cup ({f} \cup {}), found')
  <2>1. PICK H, more : H = {} /\ more = found'
    OBVIOUS
  <2>2. \A h \in H : Behind(Z, Paths(B \cup ({f} \cup H)), more, h)
    BY <2>1
  <2>3. Treated(Z, Paths(B \cup ({f} \cup H)), more, d, D!Entry)
    BY <1>1, <1>8, <2>1 DEF Treated
  <2>4. Thorough(Z, B \cup ({f} \cup H), more)
    BY <1>1, <1>2, <1>3, <1>5, <1>6, <1>8, <2>1, <2>2, <2>3, Advances
  <2> QED BY <2>1, <2>4
<1> QED BY <1>1, <1>5, <1>9, StillLeft

(* A directory's node is made; the walk goes on in it, if it has clusters. *)
LEMMA EnterLeaves ==
  ASSUME Leaving, D!EnterDir
  PROVE  Left
<1>1. /\ MountInv /\ disk \in Disks /\ D!AtEntry /\ phase = "walk" /\ phase' # "done"
      /\ D!Entry.kind = "DIR" /\ D!Formatted /\ InUse(D!Entry) /\ D!MakeDir(D!EntryPath) /\ ~trouble'
  BY DEF Leaving, MountInv, D!EnterDir, D!AtEntry, InUse
<1>2. PICK Z \in SUBSET D!Dirs : Thorough(Z, ToSet(frames), found)
  BY SomeThorough
<1>3. PICK f : f = [D!Top EXCEPT !.index = @ + 1]
  OBVIOUS
<1>4. f \in FrameSet /\ D!Advanced = D!SetTop(f) /\ D!Top \in FrameSet
  BY <1>1, <1>3, TopFacts DEF FrameSet, D!Advanced
<1>5. PICK B : /\ ToSet(frames) = B \cup {D!Top} /\ ToSet(D!SetTop(f)) = B \cup {f}
               /\ \A g \in FrameSet : ToSet(Append(D!SetTop(f), g)) = B \cup {f, g}
  BY <1>1, <1>4, FramesApart
<1>6. PICK d \in D!Dirs : /\ Passed(Z, Paths(B \cup {D!Top}), found, d, D!Top) /\ d[1] = D!Top.path
                          /\ DirNode(d) \in found /\ D!Entry \in D!Used(d[2]) /\ d[2] \in Ents
                          /\ Len(d[1]) = Len(frames) - 1
  BY <1>1, <1>2, <1>5, TopPassed
<1>11. Thorough(Z, B \cup {D!Top}, found) /\ Passed(Z, Paths(B \cup {D!Top}), found, d, D!Top)
  BY <1>2, <1>5, <1>6
<1>7. found \subseteq found' /\ NodeOf(d, D!Entry) \in found' /\ Exact(found')
  <2>1. PICK e : e = D!Entry
    OBVIOUS
  <2>2. e \in D!Used(d[2]) /\ e.kind = "DIR" /\ D!MakeDir(Append(d[1], e.name)) /\ ~trouble'
    BY <1>1, <1>6, <2>1 DEF D!EntryPath
  <2>3. Exact(found)
    BY <1>2 DEF Thorough
  <2> QED BY <1>1, <1>6, <2>1, <2>2, <2>3, NodeMade
<1>8. CASE D!Entry.first = D!EndOfChain /\ frames' = D!Advanced
  <2>1. PICK H, more : H = {} /\ more = found'
    OBVIOUS
  <2>2. \A h \in H : Behind(Z, Paths(B \cup ({f} \cup H)), more, h)
    BY <2>1
  <2>3. Treated(Z, Paths(B \cup ({f} \cup H)), more, d, D!Entry)
    BY <1>7, <1>8, <2>1 DEF Treated, Deep
  <2>4. Thorough(Z, B \cup ({f} \cup H), more)
    BY <1>1, <1>3, <1>11, <1>7, <2>1, <2>2, <2>3, Advances
  <2>5. Thorough(Z, ToSet(frames'), found')
    BY <1>4, <1>5, <1>8, <2>1, <2>4
  <2> QED BY <1>1, <2>5, StillLeft
<1>9. CASE UNCHANGED frames
  <2>1. PICK G, more : G = {D!Top} /\ more = found'
    OBVIOUS
  <2>2. PICK open : open = Paths(B \cup {D!Top}) /\ open = Paths(B \cup G)
    BY <2>1
  <2>3. Covers(Z, open, Z, open)
    BY DEF Covers
  <2>4. Closed(Z, more) /\ Exact(more) /\ found \subseteq more
    BY <1>2, <1>7, <2>1, ClosedKeeps DEF Thorough
  <2>5. Passed(Z, open, more, d, D!Top)
    BY <1>1, <1>6, <2>2, <2>3, <2>4, PassedKeeps
  <2>6. \A g \in G : Behind(Z, Paths(B \cup G), more, g)
    BY <2>1, <2>2, <2>5 DEF Behind
  <2>7. Thorough(Z, B \cup {D!Top}, found) /\ Covers(Z, Paths(B \cup {D!Top}), Z, Paths(B \cup G))
    BY <1>2, <1>5, <2>2, <2>3
  <2>8. Thorough(Z, B \cup G, more)
    BY <1>1, <2>4, <2>6, <2>7, ThoroughStep
  <2>9. Thorough(Z, ToSet(frames'), found')
    BY <1>5, <1>9, <2>1, <2>8
  <2> QED BY <1>1, <2>9, StillLeft
<1>10. CASE /\ D!Entry.first # D!EndOfChain /\ Len(frames) # MaxDepth
            /\ frames' = Append(D!Advanced, D!Frame(D!Entry.first, D!EntryPath))
  <2>1. PICK g, e : g = D!Frame(D!Entry.first, D!EntryPath) /\ e = D!Entry
    OBVIOUS
  <2>2. PICK x : x = Inside(d, e)
    OBVIOUS
  <2>3. /\ x[1] = Append(d[1], e.name) /\ x[2] = e.first /\ e.first \in Ents /\ e.first \in Cls
        /\ e.kind = "DIR" /\ e.first # D!EndOfChain
    <3>1. e.first \in Ents
      BY <1>1, <1>6, <1>10, <2>1, UsedFacts
    <3> QED BY <1>1, <1>10, <2>1, <2>2, <3>1, DiskFacts DEF Inside, Ents
  <2>4. g.path = x[1] /\ g.cluster = x[2] /\ g.index = 1 /\ g \in FrameSet
    <3>1. D!EntryPath = Append(d[1], e.name)
      BY <1>6, <2>1 DEF D!EntryPath
    <3>2. g.path = Append(d[1], e.name) /\ g.cluster = e.first /\ g.index = 1
      BY <2>1, <3>1 DEF D!Frame
    <3>3. Append(d[1], e.name) \in Seq(Names) /\ e.first \in Nat
      BY <1>1, <1>6, <2>1, <2>3, Levels, DiskFacts
    <3>4. g \in FrameSet
      BY <2>1, <3>1, <3>3 DEF D!Frame, FrameSet
    <3> QED BY <2>3, <3>2, <3>4
  <2>5. x \in D!Dirs
    <3>1. Len(d[1]) < MaxDepth
      <4>1. MaxDepth \in Nat /\ Len(frames) \in Nat /\ Len(frames) <= MaxDepth
        BY <1>1, TopFacts, DiskFacts DEF MountInv
      <4> QED BY <1>6, <1>10, <4>1
    <3>2. <<Append(d[1], e.name), e.first>> \in D!Dirs
      BY <1>1, <1>6, <2>1, <2>3, <3>1, DirsFacts
    <3> QED BY <2>2, <3>2 DEF Inside
  <2>6. PICK H, more : H = {g} /\ more = found'
    OBVIOUS
  <2>7. PICK open : open = Paths(B \cup ({f} \cup H)) /\ Append(d[1], e.name) \in open
    BY <2>3, <2>4, <2>6 DEF Paths
  <2>8. Treated(Z, open, more, d, D!Entry)
    BY <1>7, <2>1, <2>6, <2>7 DEF Treated, Entered
  <2>9. Passed(Z, open, more, x, g)
    <3>1. Stands(x, g)
      <4>1. e.first \in D!Reached(e.first)
        BY <1>1, <2>3, ReachedClosed DEF ClsOrEnd
      <4> QED BY <2>3, <2>4, <2>5, <4>1 DEF Stands
    <3>2. DirNode(x) \in more
      BY <1>7, <2>1, <2>3, <2>6 DEF DirNode, NodeOf
    <3>3. ClustersPassed(Z, open, more, x, g)
      BY <2>4 DEF ClustersPassed
    <3>4. EntriesPassed(Z, open, more, x, g)
      <4>1. PICK s : s = disk.entries[g.cluster] /\ s \in Seq(ToSet(s))
        BY <1>1, <2>3, <2>4, DiskFacts DEF Ents
      <4>2. \A i \in DOMAIN s : i \in Nat \ {0}
        BY <4>1
      <4> QED BY <2>4, <4>1, <4>2 DEF EntriesPassed
    <3> QED BY <3>1, <3>2, <3>3, <3>4 DEF Passed
  <2>10. \A h \in H : Behind(Z, open, more, h)
    BY <2>5, <2>6, <2>9 DEF Behind
  <2>11. Thorough(Z, B \cup ({f} \cup H), more)
    <3>1. PICK G : G = B \cup ({f} \cup H) /\ open = Paths(G)
      BY <2>7
    <3>2. /\ Treated(Z, Paths(G), more, d, D!Entry) /\ found \subseteq more /\ Exact(more)
          /\ \A h \in H : Behind(Z, Paths(G), more, h)
      BY <1>7, <2>6, <2>8, <2>10, <3>1
    <3> QED BY <1>1, <1>3, <1>11, <3>1, <3>2, Advances
  <2>12. Thorough(Z, ToSet(frames'), found')
    <3>1. frames' = Append(D!SetTop(f), g)
      BY <1>4, <1>10, <2>1
    <3>2. ToSet(frames') = B \cup ({f} \cup H)
      BY <1>5, <2>4, <2>6, <3>1
    <3> QED BY <2>6, <2>11, <3>2
  <2> QED BY <1>1, <2>12, StillLeft
<1> QED BY <1>8, <1>9, <1>10 DEF D!EnterDir

(* At the end of a cluster all of its entries in use are passed. *)
LEMMA ClusterDone ==
  ASSUME MountInv, D!Formatted, D!NextCluster, NEW Z, NEW open, NEW nodes, NEW d, Passed(Z, open, nodes, d, D!Top)
  PROVE  \A e \in ToSet(disk.entries[D!Top.cluster]) : InUse(e) => Treated(Z, open, nodes, d, e)
<1>1. disk \in Disks /\ phase = "walk" /\ D!Top.loaded /\ ~D!AtEntry
  BY DEF MountInv, D!NextCluster
<1>2. D!Top.cluster \in Ents /\ D!Top.index \in Nat \ {0}
  BY <1>1, TopFacts DEF FrameSet
<1>3. PICK s : s = disk.entries[D!Top.cluster] /\ s \in Seq(ToSet(s))
  BY <1>1, <1>2, DiskFacts DEF Ents
<1>4. PICK n \in Nat : DOMAIN s = 1 .. n
  BY <1>3
<1>5. PICK index \in Nat \ {0} : index = D!Top.index
  BY <1>2
<1>6. index \notin DOMAIN s \/ s[index].kind = "END"
  BY <1>1, <1>3, <1>5 DEF D!AtEntry, D!Entry
<1>7. ASSUME NEW i \in DOMAIN s, InUse(s[i]) PROVE i < index
  <2>1. CASE index \notin DOMAIN s
    BY <1>4, <2>1
  <2>2. CASE index \in DOMAIN s /\ s[index].kind = "END"
    <3>1. ~(index < i)
      <4>1. \A j, k \in DOMAIN s : s[j].kind = "END" /\ j < k => ~InUse(s[k])
        BY <1>1, <1>2, <1>3, FormattedFacts
      <4> QED BY <1>7, <2>2, <4>1
    <3>2. i # index
      BY <1>7, <2>2 DEF InUse
    <3> QED BY <1>4, <2>2, <3>1, <3>2
  <2> QED BY <1>6, <2>1, <2>2
<1>8. \A i \in DOMAIN s : InUse(s[i]) => Treated(Z, open, nodes, d, s[i])
  BY <1>3, <1>5, <1>7 DEF Passed, EntriesPassed
<1> QED BY <1>3, <1>8 DEF ToSet

(* The walk of a directory goes on in the next cluster of its chain. *)
LEMMA NextLeaves ==
  ASSUME Leaving, D!NextCluster, disk.fat[D!Top.cluster] # D!EndOfChain
  PROVE  Left
<1>1. /\ MountInv /\ disk \in Disks /\ phase = "walk" /\ D!Formatted /\ UNCHANGED <<phase, found>>
      /\ frames' = D!SetTop(D!Frame(disk.fat[D!Top.cluster], D!Top.path))
  BY DEF Leaving, MountInv, D!NextCluster
<1>2. PICK Z \in SUBSET D!Dirs : Thorough(Z, ToSet(frames), found)
  BY SomeThorough
<1>3. PICK c, next : c = D!Top.cluster /\ next = disk.fat[c]
  OBVIOUS
<1>4. /\ D!Top \in FrameSet /\ c \in Ents /\ next \in Ents /\ next \in Cls /\ next \in Nat
      /\ D!Reached(c) \subseteq {c} \cup D!Reached(next)
  <2>1. D!Top \in FrameSet /\ c \in Ents /\ next # D!EndOfChain
    BY <1>1, <1>3, TopFacts
  <2>2. next \in Ents /\ D!Reached(c) \subseteq {c} \cup D!Reached(next)
    BY <1>1, <1>3, <2>1, Onward
  <2> QED BY <1>1, <2>1, <2>2, DiskFacts DEF Ents
<1>5. PICK f : f = D!Frame(next, D!Top.path)
  OBVIOUS
<1>6. f \in FrameSet /\ f.path = D!Top.path /\ f.cluster = next /\ f.index = 1
  BY <1>4, <1>5 DEF FrameSet, D!Frame
<1>7. PICK B : ToSet(frames) = B \cup {D!Top} /\ ToSet(frames') = B \cup {f}
  <2>1. frames' = D!SetTop(f)
    BY <1>1, <1>3, <1>5
  <2> QED BY <1>1, <1>6, <2>1, FramesApart
<1>8. PICK G, open : G = {f} /\ open = Paths(B \cup {D!Top}) /\ open = Paths(B \cup G)
  <2>1. Paths(B \cup {D!Top}) = Paths(B \cup {f})
    BY <1>6 DEF Paths
  <2> QED BY <2>1
<1>9. PICK d \in D!Dirs : Passed(Z, open, found, d, D!Top)
  <2>1. PICK F : F = B \cup {D!Top} /\ Thorough(Z, F, found) /\ D!Top \in F
    BY <1>2, <1>7
  <2>2. Paths(F) = open
    BY <1>8, <2>1
  <2> QED BY <1>1, <2>1, <2>2, TopPassed
<1>10. Passed(Z, open, found, d, f)
  <2>1. c \in D!Reached(d[2]) /\ d[1] = D!Top.path /\ d[2] \in Ents
    BY <1>1, <1>3, <1>9, Levels DEF Passed, Stands
  <2>2. Stands(d, f)
    <3>1. disk.fat[c] \in D!Reached(d[2]) \cup {D!EndOfChain} /\ next # D!EndOfChain
      <4>1. d[2] \in ClsOrEnd
        BY <1>1, <2>1, DiskFacts DEF ClsOrEnd, Ents
      <4> QED BY <1>1, <1>3, <2>1, <4>1, ReachedClosed
    <3> QED BY <1>3, <1>6, <2>1, <3>1 DEF Stands
  <2>3. \A e \in ToSet(disk.entries[c]) : InUse(e) => Treated(Z, open, found, d, e)
    BY <1>1, <1>3, <1>9, ClusterDone
  <2>4. ClustersPassed(Z, open, found, d, f)
    <3>1. ASSUME NEW b \in D!Reached(d[2]) \ D!Reached(f.cluster), NEW e \in ToSet(disk.entries[b]), InUse(e)
          PROVE  Treated(Z, open, found, d, e)
      <4>1. CASE b = c
        BY <2>3, <3>1, <4>1
      <4>2. CASE b # c
        <5>1. b \notin D!Reached(c)
          BY <1>4, <1>6, <3>1, <4>2
        <5> QED BY <1>3, <1>9, <3>1, <5>1 DEF Passed, ClustersPassed
      <4> QED BY <4>1, <4>2
    <3> QED BY <3>1 DEF ClustersPassed
  <2>5. EntriesPassed(Z, open, found, d, f)
    <3>1. PICK s : s = disk.entries[f.cluster] /\ s \in Seq(ToSet(s))
      BY <1>1, <1>4, <1>6, DiskFacts DEF Ents
    <3>2. \A i \in DOMAIN s : i \in Nat \ {0}
      BY <3>1
    <3> QED BY <1>6, <3>1, <3>2 DEF EntriesPassed
  <2> QED BY <1>9, <2>2, <2>4, <2>5 DEF Passed
<1>11. Thorough(Z, B \cup G, found)
  <2>1. Covers(Z, open, Z, open)
    BY DEF Covers
  <2>2. Closed(Z, found) /\ Exact(found)
    BY <1>2 DEF Thorough
  <2>3. \A g \in G : Behind(Z, Paths(B \cup G), found, g)
    BY <1>8, <1>10 DEF Behind
  <2>4. Thorough(Z, B \cup {D!Top}, found) /\ Covers(Z, Paths(B \cup {D!Top}), Z, Paths(B \cup G))
    BY <1>2, <1>7, <1>8, <2>1
  <2> QED BY <1>1, <2>2, <2>3, <2>4, ThoroughStep
<1> QED BY <1>1, <1>7, <1>8, <1>11, StillLeft

(* The walk of a directory ends: it is done, with all of its entries. *)
LEMMA ReturnLeaves ==
  ASSUME Leaving, D!NextCluster, disk.fat[D!Top.cluster] = D!EndOfChain
  PROVE  Left
<1>1. /\ MountInv /\ disk \in Disks /\ phase = "walk" /\ D!Formatted /\ UNCHANGED found
      /\ frames' = D!Front(frames) /\ (phase' = "done" => ~(Len(frames) > 1))
  BY DEF Leaving, MountInv, D!NextCluster, D!Return
<1>2. PICK Z \in SUBSET D!Dirs : Thorough(Z, ToSet(frames), found)
  BY SomeThorough
<1>3. PICK c : c = D!Top.cluster
  OBVIOUS
<1>4. c \in Ents /\ D!Reached(c) \subseteq {c} /\ Len(frames) \in Nat \ {0}
  <2>1. c \in Ents /\ Len(frames) \in Nat \ {0}
    BY <1>1, <1>3, TopFacts
  <2> QED BY <1>1, <1>3, <2>1, Onward
<1>5. PICK B : /\ ToSet(frames) = B \cup {D!Top} /\ ToSet(frames') = B
               /\ \A b \in B : Len(b.path) < Len(frames) - 1
  BY <1>1, FramesApart
<1>6. PICK F, open : F = B \cup {D!Top} /\ Thorough(Z, F, found) /\ D!Top \in F /\ open = Paths(F)
  BY <1>2, <1>5
<1>7. PICK d \in D!Dirs : /\ Passed(Z, open, found, d, D!Top) /\ d[1] = D!Top.path
                          /\ Len(d[1]) = Len(frames) - 1 /\ d[2] \in Ents
  BY <1>1, <1>6, TopPassed
<1>8. ASSUME NEW e \in D!Used(d[2])
      PROVE  NodeOf(d, e) \in found /\ (Deep(e) => Inside(d, e) \in Z)
  <2>1. InUse(e) /\ \E x \in D!Reached(d[2]) : e \in ToSet(disk.entries[x])
    BY <1>1, <1>7, FormattedFacts
  <2>2. PICK x \in D!Reached(d[2]) : e \in ToSet(disk.entries[x])
    BY <2>1
  <2>3. Treated(Z, open, found, d, e)
    <3>1. CASE x \in D!Reached(c)
      <4>1. x = c
        BY <1>4, <3>1
      <4> QED BY <1>1, <1>3, <1>7, <2>1, <2>2, <4>1, ClusterDone
    <3>2. CASE x \notin D!Reached(c)
      BY <1>3, <1>7, <2>1, <2>2, <3>2 DEF Passed, ClustersPassed
    <3> QED BY <3>1, <3>2
  <2>4. Append(d[1], e.name) \notin open
    <3>1. Len(Append(d[1], e.name)) = Len(frames)
      <4>1. Len(Append(d[1], e.name)) = Len(d[1]) + 1
        BY <1>1, Levels
      <4> QED BY <1>4, <1>7, <4>1
    <3>2. \A f \in F : Len(f.path) <= Len(frames) - 1
      <4>1. Len(D!Top.path) = Len(frames) - 1
        BY <1>7
      <4>2. \A b \in B : Len(b.path) <= Len(frames) - 1
        <5>1. \A b \in B : Len(b.path) \in Nat
          <6>1. \A b \in B : b \in FrameSet
            <7>1. frames \in Seq(FrameSet)
              BY <1>1 DEF MountInv, Stacked
            <7>2. ToSet(frames) \subseteq FrameSet
              BY <7>1 DEF ToSet
            <7> QED BY <1>5, <7>2
          <6> QED BY <6>1 DEF FrameSet
        <5> QED BY <1>4, <1>5, <5>1
      <4> QED BY <1>4, <1>6, <4>1, <4>2
    <3>3. ASSUME NEW f \in F, f.path = Append(d[1], e.name) PROVE FALSE
      BY <1>4, <3>1, <3>2, <3>3
    <3> QED BY <1>6, <3>3 DEF Paths
  <2> QED BY <2>3, <2>4 DEF Treated, Entered
<1>9. PICK Y : Y = Z \cup {d} /\ Y \in SUBSET D!Dirs
  OBVIOUS
<1>10. Closed(Y, found) /\ Exact(found)
  BY <1>6, <1>8, <1>9 DEF Thorough, Closed
<1>11. Covers(Z, open, Y, Paths(B))
  <2>1. SUFFICES ASSUME NEW x \in D!Dirs, NEW e \in D!Used(x[2]), Deep(e), Append(x[1], e.name) \in open,
                        Append(x[1], e.name) \notin Paths(B)
                 PROVE  Inside(x, e) = d
    BY <1>9 DEF Covers, Entered
  <2>2. Append(x[1], e.name) = d[1]
    BY <1>6, <1>7, <2>1 DEF Paths
  <2>3. Len(x[1]) < MaxDepth
    <3>1. Len(d[1]) = Len(x[1]) + 1 /\ Len(x[1]) \in 0 .. MaxDepth /\ Len(d[1]) \in 0 .. MaxDepth
      BY <1>1, <2>2, Levels
    <3>2. MaxDepth \in Nat
      BY <1>1, DiskFacts
    <3> QED BY <3>1, <3>2
  <2>4. Inside(x, e) \in D!Dirs /\ Inside(x, e)[1] = d[1]
    BY <1>1, <2>1, <2>2, <2>3, DirsFacts DEF Inside, Deep
  <2> QED BY <1>1, <2>4, PathsDiffer
<1>12. Thorough(Y, B, found)
  <2>1. PICK G : G = {} /\ B \cup G = B
    <3>1. B \cup {} = B
      OBVIOUS
    <3> QED BY <3>1, Zenon
  <2>2. \A g \in G : Behind(Y, Paths(B \cup G), found, g)
    BY <2>1
  <2>3. Thorough(Z, B \cup {D!Top}, found) /\ Covers(Z, Paths(B \cup {D!Top}), Y, Paths(B \cup G))
    BY <1>6, <1>11, <2>1
  <2>4. Thorough(Y, B \cup G, found)
    BY <1>1, <1>10, <2>2, <2>3, ThoroughStep
  <2> QED BY <2>1, <2>4
<1>13. phase' = "done" => RootPlace \in Y
  <2>1. ASSUME phase' = "done" PROVE d = RootPlace
    <3>1. Len(d[1]) = 0
      <4>1. PICK k : k = Len(frames)
        OBVIOUS
      <4>2. k \in Nat \ {0} /\ ~(k > 1)
        BY <1>1, <1>4, <1>7, <2>1, <4>1
      <4>3. k = 1
        BY <4>2
      <4>4. Len(d[1]) = k - 1
        BY <1>1, <1>4, <1>7, <4>1
      <4> QED BY <4>3, <4>4
    <3>2. \A above \in D!Dirs : Len(d[1]) # Len(above[1]) + 1
      <4>1. \A above \in D!Dirs : Len(above[1]) \in 0 .. MaxDepth
        BY <1>1, Levels
      <4>2. MaxDepth \in Nat
        BY <1>1, DiskFacts
      <4> QED BY <3>1, <4>1, <4>2
    <3> QED BY <1>1, <3>2, Levels
  <2> QED BY <1>9, <2>1
<1> QED BY <1>1, <1>5, <1>9, <1>12, <1>13 DEF Left, AllThere

(* A step in which nothing fails leaves nothing out when Left follows. *)
LEMMA LeavesOn ==
  ASSUME DiskInv, NothingLeftOut, disk' = disk, trouble => trouble', Leaving => Left
  PROVE  NothingLeftOut'
<1> SUFFICES ASSUME D!Formatted', ~trouble' PROVE AllThere(ToSet(frames), found, phase)'
  BY DEF NothingLeftOut
<1>1. D!Formatted
  BY SameThorough
<1>2. Left
  BY <1>1 DEF Leaving, DiskInv
<1>3. PICK F, nodes, stage : F = ToSet(frames') /\ nodes = found' /\ stage = phase'
  OBVIOUS
<1>4. AllThere(F, nodes, stage)
  BY <1>2, <1>3 DEF Left
<1>5. AllThere(F, nodes, stage)'
  BY <1>4, SameThorough
<1>6. ToSet(frames)' = F
  BY <1>3 DEF ToSet
<1> QED BY <1>3, <1>5, <1>6 DEF AllThere

(* What the walk has no part in leaves nothing out. *)
LEMMA Aside ==
  ASSUME DiskInv, NothingLeftOut, UNCHANGED <<disk, phase, frames, found, trouble>>
  PROVE  NothingLeftOut'
<1>1. Leaving => Left
  <2>1. ToSet(frames') = ToSet(frames)
    OBVIOUS
  <2> QED BY <2>1 DEF Leaving, NothingLeftOut, Left
<1> QED BY <1>1, LeavesOn

(* The mount's steps leave nothing out. *)
LEMMA MountingLeaves ==
  ASSUME DiskInv, NothingLeftOut, D!Mounting
  PROVE  NothingLeftOut'
<1>1. disk' = disk /\ MountInv
  BY DiskUnchanged DEF D!DiskNext, DiskInv
<1>2. ASSUME trouble' PROVE NothingLeftOut'
  BY <1>2 DEF NothingLeftOut
<1>3. CASE D!Begin
  <2>1. trouble => trouble'
    BY <1>3 DEF D!Begin, D!MakeDir
  <2> QED BY <1>1, <1>3, <2>1, BeginLeaves, LeavesOn
<1>4. CASE D!LoadCluster
  <2>1. trouble => trouble'
    BY <1>4 DEF D!LoadCluster
  <2> QED BY <1>1, <1>4, <2>1, LoadLeaves, LeavesOn
<1>5. CASE D!SkipEntry
  <2>1. trouble => trouble'
    BY <1>5 DEF D!SkipEntry
  <2> QED BY <1>1, <1>5, <2>1, SkipLeaves, LeavesOn
<1>6. CASE D!EnterDir
  <2>1. trouble => trouble'
    BY <1>6 DEF D!EnterDir, D!MakeDir
  <2> QED BY <1>1, <1>6, <2>1, EnterLeaves, LeavesOn
<1>7. CASE D!NextCluster
  <2>1. trouble => trouble'
    BY <1>7 DEF D!NextCluster
  <2> QED BY <1>1, <1>7, <2>1, NextLeaves, ReturnLeaves, LeavesOn
<1>8. CASE D!FileRead
  <2>1. at = "file" /\ D!CopyFile(Len(job.got))
    BY <1>8 DEF D!FileRead
  <2>2. PICK n \in Nat : n = Len(job.got) /\ n <= D!FileSectors
    <3>1. Len(job.want) = D!FileSectors
      BY <2>1 DEF DiskInv, FileInv
    <3>2. Len(job.got) \in Nat /\ Len(job.todo) \in Nat /\ Len(job.got) + Len(job.todo) = Len(job.want)
      BY DEF DiskInv, JobInv
    <3>3. PICK k \in Nat, l \in Nat : k = Len(job.got) /\ l = Len(job.todo)
      BY <3>2
    <3>4. PICK m : m = D!FileSectors
      OBVIOUS
    <3>5. m = k + l
      BY <3>1, <3>2, <3>3, <3>4
    <3>6. k <= m
      BY <3>5
    <3> QED BY <3>3, <3>4, <3>6
  <2>3. D!CopyFile(n)
    BY <2>1, <2>2
  <2>4. trouble => trouble'
    BY <2>3 DEF D!CopyFile
  <2> QED BY <1>1, <2>2, <2>3, <2>4, CopyLeaves, LeavesOn
<1>9. D!BeginFails \/ D!LoadFails \/ D!SkipFile => trouble'
  BY DEF D!BeginFails, D!LoadFails, D!SkipFile
<1>10. \/ UNCHANGED <<disk, phase, frames, found, trouble>>
       \/ D!BeginFails \/ D!LoadFails \/ D!SkipFile
       \/ D!Begin \/ D!LoadCluster \/ D!SkipEntry \/ D!EnterDir \/ D!NextCluster \/ D!FileRead
  BY DEF D!Mounting, D!Selftested, D!FindPartition, D!LoadTable, D!NoTable, D!BeginWalk, D!ReadDirectory,
         D!DirectoryRead, D!ReadFile, D!WalkOn, D!Stop, D!fatVars
<1> QED BY <1>2, <1>3, <1>4, <1>5, <1>6, <1>7, <1>8, <1>9, <1>10, Aside

(* Every step of the system leaves nothing out. *)
LEMMA LeftInductive == DiskInv /\ NothingLeftOut /\ [ProgramsNext]_allVars => NothingLeftOut'
<1> SUFFICES ASSUME DiskInv, NothingLeftOut, [ProgramsNext]_allVars PROVE NothingLeftOut'
  OBVIOUS
<1>1. CASE D!DiskNext
  <2>1. CASE D!Mounting
    BY <2>1, MountingLeaves
  <2>2. CASE D!Driver \/ D!Answer
    <3>1. UNCHANGED <<disk, phase, frames, found, trouble>> \/ trouble'
      BY <2>2 DEF D!Driver, D!Answer, D!Identify, D!FirstStatus, D!Identified, D!Register, D!Issue, D!PollError,
                  D!PollReady, D!Transfer, D!Stop, D!BeginFails, D!fatVars
    <3>2. trouble' => NothingLeftOut'
      BY DEF NothingLeftOut
    <3> QED BY <3>1, <3>2, Aside
  <2> QED BY <1>1, <2>1, <2>2 DEF D!DiskNext
<1>2. CASE UNCHANGED bootVars
  <2>1. UNCHANGED <<disk, phase, frames, found, trouble>>
    BY <1>2 DEF bootVars
  <2> QED BY <2>1, Aside
<1> QED BY <1>1, <1>2 DEF ProgramsNext, Boot, Run, AfterBoot, allVars

(* fat32.c:96: a mount in which nothing failed has every directory and file of a disk that is
   written as formatters write it, and all of their bytes. *)
THEOREM DiskMirrored == ProgramsSpec => []Mirrors
<1>1. ProgramsInit => NothingLeftOut
  <2> SUFFICES ASSUME ProgramsInit PROVE AllThere(ToSet(frames), found, phase)
    BY DEF NothingLeftOut
  <2>1. frames = << >> /\ found = {} /\ phase = "start"
    BY DEF ProgramsInit, D!DiskInit, D!Init
  <2>2. ToSet(frames) = {}
    BY <2>1 DEF ToSet
  <2>3. Thorough({}, {}, {})
    BY DEF Thorough, Closed, Exact
  <2> QED BY <2>1, <2>2, <2>3 DEF AllThere
<1>2. DiskInv /\ NothingLeftOut => Mirrors
  <2> SUFFICES ASSUME DiskInv, NothingLeftOut, D!Formatted, phase = "done", ~trouble,
                      NEW d \in D!Dirs, NEW e \in D!Used(d[2])
               PROVE  NodeOf(d, e) \in found
    BY DEF Mirrors, D!Mirrors, NodeOf
  <2>1. PICK Z \in SUBSET D!Dirs : Closed(Z, found) /\ RootPlace \in Z
    BY DEF NothingLeftOut, AllThere, Thorough
  <2>2. D!Dirs \subseteq Z
    <3>1. \A x \in Z : \A f \in D!Used(x[2]) : Deep(f) => Inside(x, f) \in Z
      BY <2>1 DEF Closed
    <3> QED BY <2>1, <3>1, DirsLeast DEF DiskInv, MountInv
  <2> QED BY <2>1, <2>2 DEF Closed
<1> QED BY <1>1, <1>2, LeftInductive, DiskInvariance, PTL DEF ProgramsSpec

=============================================================================
