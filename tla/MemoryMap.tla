------------------------------ MODULE MemoryMap ------------------------------
(***************************************************************************)
(* kernel/memory/memory_map.c: memory_parse_mmap, a walk over the tags     *)
(* that the boot loader leaves, which hands every entry of the memory map  *)
(* to a callback.                                                          *)
(*                                                                         *)
(* Places are numbers of bytes from the beginning of the information.  The *)
(* tags are external: each stands at the next multiple of 8 behind the one *)
(* before it, has its size in bytes, and the entries of a map are          *)
(* entry_size apart.                                                       *)
(***************************************************************************)
EXTENDS Integers, Sequences

CONSTANT Infos   \* what the boot loader may leave: sequences of tags

Entry == [addr : Nat, len : Nat, usable : BOOLEAN]
Tag == [at : Nat, type : Nat, size : Nat \ {0}, entry_size : Nat \ {0}, entries : Seq(Entry)]

InfoHeader == 8   \* sizeof(struct mb2_info)
MapHeader == 16   \* sizeof(struct mb2_tag_mmap)
EndType == 0
MapType == 6

Behind(t) == t.at + t.size
ASSUME InfosAssumption == \A tags \in Infos :
  /\ tags \in Seq(Tag) /\ tags # << >>
  /\ tags[1].at = InfoHeader
  /\ \A i \in DOMAIN tags :
       /\ tags[i].at % 8 = 0
       /\ tags[i].type = EndType <=> i = Len(tags)
       /\ tags[i].type = EndType => tags[i].size = 8
       /\ tags[i].type = MapType => tags[i].size = MapHeader + Len(tags[i].entries) * tags[i].entry_size
  /\ \A i, j \in DOMAIN tags : i < j => Behind(tags[i]) <= tags[j].at
  /\ \A i, j \in DOMAIN tags : j = i + 1 => tags[j].at < Behind(tags[i]) + 8

VARIABLES tags, \* the information of this boot
          ptr,  \* the walk's place
          ent   \* in a map, the place of the entry; else 0

walkVars == <<tags, ptr, ent>>

WalkInit == tags \in Infos /\ ptr = InfoHeader /\ ent = 0

-----------------------------------------------------------------------------
TotalSize == Behind(tags[Len(tags)])
(* what is read at a place: where no tag begins, nothing that ends or is a map *)
Unknown(p) == [at |-> p, type |-> 1, size |-> 8, entry_size |-> 1, entries |-> << >>]
TagAt(p) == IF \E i \in DOMAIN tags : tags[i].at = p
            THEN tags[CHOOSE i \in DOMAIN tags : tags[i].at = p] ELSE Unknown(p)
Here == TagAt(ptr)
EntryHere == Here.entries[(ent - ptr - MapHeader) \div Here.entry_size + 1]

(* the memory map, as it stands there *)
Entries == UNION {{tags[i].entries[j] : j \in DOMAIN tags[i].entries} :
                    i \in {i \in DOMAIN tags : tags[i].type = MapType}}

-----------------------------------------------------------------------------
Parsed == ptr >= TotalSize
AtEnd == Here.type = EndType /\ Here.size = 8
InMap == ~Parsed /\ ent # 0

EnterMap == /\ ~Parsed /\ ent = 0 /\ Here.type = MapType
            /\ ent' = ptr + MapHeader
            /\ UNCHANGED <<tags, ptr>>

HasEntry == InMap /\ ent + Here.entry_size <= ptr + Here.size
(* one call of the callback, with EntryHere *)
NextEntry == /\ HasEntry
             /\ ent' = ent + Here.entry_size
             /\ UNCHANGED <<tags, ptr>>

Unaligned(size) == size \* a bug: the next tag is taken to follow at once
Aligned(size) == ((size + 7) \div 8) * 8
NextTag == /\ ~Parsed /\ ~AtEnd
           /\ IF Here.type = MapType THEN InMap /\ ~HasEntry ELSE ent = 0
           /\ ptr' = ptr + Aligned(Here.size) /\ ent' = 0
           /\ UNCHANGED tags
EndTag == /\ ~Parsed /\ AtEnd
          /\ ptr' = TotalSize
          /\ UNCHANGED <<tags, ent>>
=============================================================================
