----------------------------- MODULE MCPrograms -----------------------------
(* Five disks: a root of two clusters; directories in directories, in the second
   partition, whose boot sector does not name the root; those with the entries "."
   and "..", as formatters make them; a chain that is a circle; and a file whose
   chain is too short, on a disk of which the end is out of reach.  Two more have no
   partition to mount.

   Three of the files are programs: "a" of Flat, with two segments and a gap, "c" of
   Flat, longer in its headers than on the disk, and "a" of Short, some of whose bytes
   no cluster has. *)
EXTENDS Programs
MCZero == <<0, 1>>
File(name, first, bytes) == [kind |-> "FILE", name |-> name, first |-> first, size |-> bytes]
Dir(name, first) == [kind |-> "DIR", name |-> name, first |-> first, size |-> 0]
Mark(kind) == [kind |-> kind, name |-> "", first |-> 0, size |-> 0]

Volume(root, fat, entries) == [root |-> root, fat |-> fat, entries |-> entries]
Laid(volume, start, reserved, num_fats, fat_size, spc, table) ==
  volume @@ [start |-> start, reserved |-> reserved, num_fats |-> num_fats, fat_size |-> fat_size,
             sectors_per_cluster |-> spc, signature |-> TRUE, table |-> table]
Slot(type, start) == [type |-> type, start |-> start]

Flat == Laid(Volume(2, (2 :> 3) @@ (3 :> 0) @@ (4 :> 6) @@ (5 :> 0) @@ (6 :> 5),
                    (2 :> <<Mark("DELETED"), Mark("LONG"), File("a", 4, 5)>>)
                      @@ (3 :> <<File("b", 0, 0), File("c", 6, 4), Mark("END")>>)),
             3, 2, 2, 1, 2, <<Slot(12, 3)>>)
Nested == Laid(Volume(0, (2 :> 0) @@ (3 :> 0) @@ (4 :> 0) @@ (5 :> 0),
                      (2 :> <<Dir("s", 3), File("a", 5, 1), Mark("END")>>)
                        @@ (3 :> <<Dir("t", 4), Dir("u", 0)>>)
                        @@ (4 :> <<File("a", 5, 2), Mark("END")>>)),
               5, 1, 1, 2, 2, <<Slot(131, 1), Slot(11, 5), Slot(12, 20)>>)
Dotted == Laid(Volume(2, (2 :> 0) @@ (3 :> 0),
                      (2 :> <<Dir("s", 3), Mark("END")>>)
                        @@ (3 :> <<Dir(".", 3), Dir("..", 0), Mark("END")>>)),
               1, 1, 2, 1, 1, <<Slot(12, 1)>>)
Ring == Laid(Volume(2, (2 :> 3) @@ (3 :> 2),
                    (2 :> <<File("b", 0, 0)>>) @@ (3 :> <<Mark("DELETED")>>)),
             1, 1, 2, 1, 1, <<Slot(12, 1)>>)
Short == Laid(Volume(2, (2 :> 0) @@ (3 :> 4) @@ (4 :> 0),
                     (2 :> <<File("a", 3, 5), File("b", 4, 1), Mark("END")>>)),
              27, 1, 2, 1, 1, <<Slot(12, 27)>>)
Foreign == [Short EXCEPT !.table = <<Slot(131, 1)>>]
Unmarked == [Short EXCEPT !.signature = FALSE]
MCDisks == {Flat, Nested, Dotted, Ring, Short, Foreign, Unmarked}
Segment(type, offset, vaddr, filesz, memsz) ==
  [type |-> type, offset |-> offset, vaddr |-> vaddr, filesz |-> filesz, memsz |-> memsz]
MCElf == (<<4, 0>> :> [entry |-> 11, phdrs |-> <<Segment("LOAD", 3, 14, 2, 2), Segment("NOTE", 0, 0, 1, 1),
                                                 Segment("LOAD", 1, 10, 2, 3)>>])
         @@ (<<6, 0>> :> [entry |-> 4, phdrs |-> <<Segment("LOAD", 2, 4, 3, 3)>>])
         @@ (<<3, 0>> :> [entry |-> 8, phdrs |-> <<Segment("LOAD", 1, 7, 3, 9)>>])
         @@ (<<5, 0>> :> [entry |-> 0, phdrs |-> <<Segment("NOTE", 0, 0, 1, 1)>>])
=============================================================================
