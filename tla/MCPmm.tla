-------------------------------- MODULE MCPmm --------------------------------
(* Memory maps for the allocator: pages of two units, low memory up to 4, the
   kernel and its heap from 8 to 13.  They hold an entry around low memory and
   the kernel, an unaligned one, one too small for a frame, a reserved one and
   two that touch; the second one has more usable pieces than the table.  Other
   tags stand before and behind the map, some of a size that is no multiple of 8,
   and the third map has longer entries. *)
EXTENDS Pmm

E(a, l, u) == [addr |-> a, len |-> l, usable |-> u]
Other(t, s) == [at |-> 0, type |-> t, size |-> s, entry_size |-> 1, entries |-> << >>]
Map(es, s) == [at |-> 0, type |-> MapType, size |-> MapHeader + Len(es) * s, entry_size |-> s, entries |-> es]
End == Other(EndType, 8)

(* the tags behind one another, each at a multiple of 8 *)
Placed(ts) ==
  LET at[i \in DOMAIN ts] == IF i = 1 THEN InfoHeader
                             ELSE LET b == at[i - 1] + ts[i - 1].size
                                  IN  CHOOSE p \in b .. b + 7 : p % 8 = 0
  IN  [i \in DOMAIN ts |-> [ts[i] EXCEPT !.at = at[i]]]

MCInfos == { Placed(ts) : ts \in
           { << Other(1, 9), Map(<< E(0, 18, TRUE), E(18, 2, FALSE), E(21, 4, TRUE) >>, 24), End >>,
             << Map(<< E(0, 3, TRUE), E(5, 5, TRUE), E(10, 8, TRUE), E(18, 4, TRUE), E(23, 1, TRUE),
                       E(24, 2, TRUE), E(28, 2, TRUE) >>, 24), Other(9, 20), End >>,
             << Other(4, 16), Other(2, 15), Map(<< E(13, 16, TRUE), E(4, 4, TRUE) >>, 32), Other(8, 31), End >> } }
=============================================================================
