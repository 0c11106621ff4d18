-------------------------------- MODULE Heap --------------------------------
(***************************************************************************)
(* memory/heap.c: the bump allocator, shared by the main loop, which makes *)
(* windows, and by the shell, whose commands run inside the keyboard       *)
(* interrupt.                                                              *)
(*                                                                         *)
(* In the main loop kmalloc is a load of heap_ptr and, when the request    *)
(* fits, a store of the new one; the interrupt comes before, between or    *)
(* after them.  Until sti and inside the handler nothing interrupts, so an *)
(* allocation there is one step.  Nothing is ever freed.  blocks and raced *)
(* are not in the code: what was handed out, and whether a store of the    *)
(* main loop ever undid an allocation of the interrupt.                    *)
(***************************************************************************)
EXTENDS Integers, Sequences

CONSTANTS Base, Limit,  \* the heap's bounds, in bytes
          Request,      \* sizes asked for
          MaxBlocks     \* bound on blocks handed out

Align == 8

(* The heap begins wherever the kernel ends and is 8 MiB long.  Sums of a request
   and an address do not wrap around. *)
ASSUME HeapAssumption ==
  /\ Base \in Nat /\ Limit \in Nat /\ Base <= Limit
  /\ Request \subseteq Nat \ {0} /\ MaxBlocks \in Nat

VARIABLES heap_ptr,
          enabled,  \* interrupts are enabled
          pc, reg, size, \* the main loop inside kmalloc: what it loaded and its request
          blocks, raced

vars == <<heap_ptr, enabled, pc, reg, size, blocks, raced>>

Owner == {"boot", "main", "shell"}
Block == [owner : Owner, start : Nat, size : Nat]

TypeOK == /\ heap_ptr \in Base .. Limit
          /\ enabled \in BOOLEAN
          /\ pc \in {"idle", "loaded"} /\ reg \in Base .. Limit
          /\ size \in Nat
          /\ blocks \in Seq(Block)
          /\ raced \in BOOLEAN

Init == /\ heap_ptr = Base
        /\ enabled = FALSE
        /\ pc = "idle" /\ reg = Base /\ size = 0
        /\ blocks = << >>
        /\ raced = FALSE

-----------------------------------------------------------------------------
(* align_up_size *)
AlignUpSize(n) == ((n + Align - 1) \div Align) * Align

FitsStart(ptr, n) == ptr < Limit \* a bug: only the start is compared
(* the test of kmalloc *)
Fits(ptr, n) == ptr + n <= Limit

Hand(owner, ptr, n) == blocks' = Append(blocks, [owner |-> owner, start |-> ptr, size |-> n])

(* kmalloc that nothing interrupts: at boot, or in the shell's command *)
Allocate(owner, n) ==
  LET aligned == AlignUpSize(n)
  IN  /\ Len(blocks) < MaxBlocks
      /\ Fits(heap_ptr, aligned)
      /\ heap_ptr' = heap_ptr + aligned
      /\ Hand(owner, heap_ptr, aligned)
      /\ UNCHANGED <<enabled, pc, reg, size, raced>>

BootAlloc(n) == ~enabled /\ Allocate("boot", n)
ShellAlloc(n) == enabled /\ Allocate("shell", n)

(* sti *)
Enable == ~enabled /\ enabled' = TRUE /\ UNCHANGED <<heap_ptr, pc, reg, size, blocks, raced>>

(* wm_init and wm_create_window *)
MainLoad(n) == /\ enabled /\ pc = "idle"
               /\ pc' = "loaded" /\ reg' = heap_ptr /\ size' = AlignUpSize(n)
               /\ UNCHANGED <<heap_ptr, enabled, blocks, raced>>
MainFail == /\ pc = "loaded" /\ ~Fits(reg, size)
            /\ pc' = "idle"
            /\ UNCHANGED <<heap_ptr, enabled, reg, size, blocks, raced>>
MainStore == /\ pc = "loaded" /\ Fits(reg, size) /\ Len(blocks) < MaxBlocks
             /\ pc' = "idle"
             /\ heap_ptr' = reg + size
             /\ Hand("main", reg, size)
             /\ raced' = (raced \/ heap_ptr # reg)
             /\ UNCHANGED <<enabled, reg, size>>

Next == \/ \E n \in Request : BootAlloc(n) \/ ShellAlloc(n) \/ MainLoad(n)
        \/ Enable \/ MainFail \/ MainStore

Spec == Init /\ [][Next]_vars

-----------------------------------------------------------------------------
Disjoint(b, c) == b.start + b.size <= c.start \/ c.start + c.size <= b.start

(* Every block lies in the heap and is as long as what somebody asked for,
   whatever interrupts what. *)
InBounds == \A i \in DOMAIN blocks :
  LET b == blocks[i]
  IN  /\ Base <= b.start /\ b.start + b.size <= Limit
      /\ \E n \in Request : n <= b.size /\ b.size < n + Align

(* No byte is handed out twice unless an allocation of the main loop was
   interrupted by one of the shell. *)
DisjointUnlessRaced ==
  ~raced => \A i, j \in DOMAIN blocks : i # j => Disjoint(blocks[i], blocks[j])

(* vfs.h:23: vfs_create, which mkdir and touch call, returns the created node; no
   window's buffer shares bytes with it. *)
NodesKept == \A i, j \in DOMAIN blocks :
  blocks[i].owner = "shell" /\ blocks[j].owner = "main" => Disjoint(blocks[i], blocks[j])
=============================================================================
