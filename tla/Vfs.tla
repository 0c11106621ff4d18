--------------------------------- MODULE Vfs ---------------------------------
(***************************************************************************)
(* kernel/fs/vfs.c: the tree of the memory file system, as the boot        *)
(* (vfs_init, the FAT32 mount) and the shell (touch, mkdir, cd) grow it.   *)
(*                                                                         *)
(* A node is its place in the order of creation; Root is the first one and *)
(* 0 the NULL pointer.  A path is a record: absolute or not, its           *)
(* components, and whether slashes follow the last one.  A node's name is  *)
(* the component it was created from and whether those slashes are part of *)
(* it.  vfs_resolve takes memory for every component: when there is none   *)
(* it finds nothing, and the operations below then change no state; whom   *)
(* that stops in the middle is in Files.  Paths fit the 64 tokens and 255  *)
(* characters that vfs_resolve and vfs_create allow for.                   *)
(***************************************************************************)
EXTENDS Integers, Sequences, SequencesExt

CONSTANTS Name,      \* components other than the dots
          BootPath,  \* paths written at boot
          Path,      \* paths typed at the shell and opened
          Size,      \* sizes of the files written at boot
          MaxNode,   \* bound on nodes
          MaxSize    \* bound on sizes

Dots == {".", ".."}
PathForm == [abs : BOOLEAN, comps : Seq(Name \cup Dots), slash : BOOLEAN]

ASSUME NameAssumption == Name \cap (Dots \cup {""}) = {}
ASSUME PathAssumption == \A p \in Path \cup BootPath : \* of an empty path only "/" is left
  p \in PathForm /\ (p.comps = << >> => p.abs /\ ~p.slash)
ASSUME BoundAssumption == MaxNode \in Nat \ {0} /\ MaxSize \in Nat /\ Size \subseteq 0 .. MaxSize

VARIABLES tree,   \* the nodes: name, kind, parent, and size of the data
          booted, \* interrupts are enabled, the shell takes over
          cwd,    \* the shell's current directory
          cwdPath \* its path, which pwd prints

vfsVars == <<tree, booted, cwd, cwdPath>>

Root == 1
NoData == -1  \* the data pointer is NULL
Nameless == [base |-> "", slash |-> TRUE]  \* vfs_strdup ran out of memory; no component compares equal
NodeName == [base : Name \cup Dots \cup {""}, slash : BOOLEAN]
Node == [name : NodeName, kind : {"FILE", "DIR"}, parent : 0 .. MaxNode, size : NoData .. MaxSize]
NewNode(name, kind, parent, size) ==
  [name |-> name, kind |-> kind, parent |-> parent, size |-> size]

VfsTypeOK == /\ tree \in Seq(Node) /\ Len(tree) \in 1 .. MaxNode
             /\ booted \in BOOLEAN
             /\ cwd \in DOMAIN tree
             /\ cwdPath \in PathForm

(* vfs_init up to the first directory; the rest are boot-time writes.  shell_init
   starts at the root. *)
RootPath == [abs |-> TRUE, comps |-> << >>, slash |-> FALSE]
VfsInit == /\ tree = << NewNode([base |-> "", slash |-> FALSE], "DIR", 0, NoData) >>
           /\ booted = FALSE
           /\ cwd = Root
           /\ cwdPath = RootPath

-----------------------------------------------------------------------------
(* Looking up.                                                             *)

(* vfs_find_child: children are linked at the head, so the newest one of two
   with the same name would be found *)
FindChild(dir, name) ==
  LET S == {c \in DOMAIN tree : tree[c].parent = dir /\ tree[c].name = name}
  IN  IF tree[dir].kind # "DIR" \/ S = {} THEN 0 ELSE Max(S)

(* one token of vfs_resolve_tokens *)
Enter(cur, token) ==
  IF cur = 0 \/ token = "." THEN cur
  ELSE IF token = ".." THEN IF tree[cur].parent # 0 THEN tree[cur].parent ELSE cur
  ELSE FindChild(cur, [base |-> token, slash |-> FALSE])

(* vfs_resolve_tokens: one token after the other *)
Walk(comps, start) ==
  LET at[i \in 0 .. Len(comps)] == IF i = 0 THEN start ELSE Enter(at[i - 1], comps[i])
  IN  at[Len(comps)]

(* vfs_resolve *)
RelativeOnly(path, start) == Walk(path.comps, start) \* a bug: no restart at the root
Resolve(path, start) == Walk(path.comps, IF path.abs THEN Root ELSE start)

(* vfs_get_path: a node and those above it, from the root down *)
PathTo(n) ==
  LET up[k \in 0 .. Len(tree)] == IF k = 0 THEN << n >>
                                  ELSE LET p == tree[Head(up[k - 1])].parent
                                       IN  IF p = 0 THEN up[k - 1] ELSE <<p>> \o up[k - 1]
  IN  up[Len(tree)]
GetPath(n) ==
  LET names == [i \in DOMAIN PathTo(n) |-> tree[PathTo(n)[i]].name.base]
  IN  [abs |-> TRUE, comps |-> Tail(names), slash |-> FALSE]

-----------------------------------------------------------------------------
(* Growing.                                                                *)

(* vfs_create splits the path behind its last slash that is followed by a
   component; slashes at the end are not stripped from the name. *)
ParentOf(path) == [path EXCEPT !.comps = IF @ = << >> THEN @ ELSE Front(@)]
LastName(path) == [base  |-> IF path.comps = << >> THEN "" ELSE Last(path.comps),
                   slash |-> path.slash]

Parent(path, start) ==
  LET p == Resolve(ParentOf(path), start)
  IN  IF p # 0 /\ tree[p].kind = "DIR" THEN p ELSE 0
Existing(path, start) ==
  IF Parent(path, start) = 0 THEN 0 ELSE FindChild(Parent(path, start), LastName(path))

Shadow(path, kind, size, start) == \* a bug: an existing node is not looked for
  /\ Parent(path, start) # 0 /\ Len(tree) < MaxNode
  /\ tree' = Append(tree, NewNode(LastName(path), kind, Parent(path, start), size))

UnderFile(path, kind, size, start) == \* a bug: the parent may be a file
  LET p == Resolve(ParentOf(path), start)
  IN  /\ p # 0 /\ Existing(path, start) = 0 /\ Len(tree) < MaxNode
      /\ tree' = Append(tree, NewNode(LastName(path), kind, p, size))

(* vfs_create when it makes a node; out of memory it makes none, or one
   without a name *)
Grow(path, kind, size, start) ==
  /\ Parent(path, start) # 0 /\ Existing(path, start) = 0
  /\ Len(tree) < MaxNode
  /\ \E name \in {LastName(path), Nameless} :
       tree' = Append(tree, NewNode(name, kind, Parent(path, start), size))

(* the vfs_create of a directory at boot *)
BootDir(path) == ~booted /\ Grow(path, "DIR", NoData, Root) /\ UNCHANGED <<booted, cwd, cwdPath>>

(* vfs_write_file: a new file, which stays without data when there is no memory
   for it, or new data for an old one *)
WriteFile(path, size) ==
  /\ ~booted
  /\ \/ \E s \in {NoData, size} : Grow(path, "FILE", s, Root)
     \/ LET n == Existing(path, Root)
        IN  /\ n # 0 /\ tree[n].kind = "FILE"
            /\ tree' = [tree EXCEPT ![n].size = size]
  /\ UNCHANGED <<booted, cwd, cwdPath>>

(* sti; keys reach the shell *)
Boot == ~booted /\ booted' = TRUE /\ UNCHANGED <<tree, cwd, cwdPath>>

(* touch and mkdir; an existing node of either kind counts as success *)
Touch(path) == booted /\ Grow(path, "FILE", NoData, cwd) /\ UNCHANGED <<booted, cwd, cwdPath>>
Mkdir(path) == booted /\ Grow(path, "DIR", NoData, cwd) /\ UNCHANGED <<booted, cwd, cwdPath>>

CdUnchecked(path) == \* a bug: a path that resolves to nothing is taken
  booted /\ cwd' = Resolve(path, cwd) /\ UNCHANGED <<tree, booted, cwdPath>>
(* cd: the node must list, that is, be a directory; update_cwd_path *)
Cd(path) ==
  /\ booted
  /\ Resolve(path, cwd) # 0 /\ tree[Resolve(path, cwd)].kind = "DIR"
  /\ cwd' = Resolve(path, cwd)
  /\ cwdPath' = GetPath(Resolve(path, cwd))
  /\ UNCHANGED <<tree, booted>>

(* cd without a path *)
CdKeepsPath == booted /\ cwd' = Root /\ UNCHANGED <<tree, booted, cwdPath>> \* a bug: no update_cwd_path
CdRoot == booted /\ cwd' = Root /\ cwdPath' = RootPath /\ UNCHANGED <<tree, booted>>

BootStep == \/ \E p \in BootPath : BootDir(p) \/ \E size \in Size : WriteFile(p, size)
            \/ Boot
ShellStep == CdRoot \/ \E p \in Path : Touch(p) \/ Mkdir(p) \/ Cd(p)

VfsNext == BootStep \/ ShellStep

VfsSpec == VfsInit /\ [][VfsNext]_vfsVars

-----------------------------------------------------------------------------
Plain(n) == n = Root \/ (~tree[n].name.slash /\ tree[n].name.base \in Name)
AncestorsPlain(n) == \A i \in DOMAIN PathTo(n) : Plain(PathTo(n)[i])

(* The nodes form a tree of directories with files as leaves, and no two
   children of a directory have the same name: a name always means one node. *)
TreeSound ==
  /\ \A n \in DOMAIN tree : IF n = Root THEN tree[n].parent = 0
                            ELSE tree[n].parent \in DOMAIN tree /\ tree[tree[n].parent].kind = "DIR"
  /\ \A m, n \in DOMAIN tree :
       tree[m].parent = tree[n].parent /\ tree[m].name = tree[n].name /\ tree[m].name # Nameless
         => m = n

(* vfs_get_path and vfs_resolve are inverse on every node whose name and whose
   ancestors' names are components: the path of a node leads back to it, from
   whatever directory it is resolved. *)
RoundTrip == \A n \in DOMAIN tree : AncestorsPlain(n) => Resolve(GetPath(n), cwd) = n

(* pwd prints a path that was built at the last cd (shell.c:17, 106): it leads to where
   the shell stands, through whatever dots, slashes and relative paths it came there,
   and whatever was created since. *)
PwdLeadsBack == Resolve(cwdPath, Root) = cwd

(* A path that resolves keeps resolving to the same node, however the tree
   grows: no touch or mkdir (vfs.c:148) takes a name away from who has it, as
   the path that the shell keeps for pwd takes for granted. *)
StableResolution ==
  [][tree' # tree =>
       \A p \in Path : Resolve(p, Root) # 0 => Resolve(p, Root)' = Resolve(p, Root)]_vfsVars

=============================================================================
