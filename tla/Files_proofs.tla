----------------------------- MODULE Files_proofs -----------------------------
(***************************************************************************)
(* The tree of the VFS and the descriptors that hold paths into it: proofs *)
(* for every set of paths, any number of nodes and processes, and files    *)
(* of any size.                                                            *)
(***************************************************************************)
EXTENDS Files, ListLemmas

-----------------------------------------------------------------------------
(* The inductive invariant.                                                *)

(* The tree: a node is younger than its parent, and the names of a directory's
   children differ. *)
TreeTypes == tree \in Seq(Node) /\ Len(tree) \in 1 .. MaxNode /\ booted \in BOOLEAN /\ cwd \in DOMAIN tree
TreeInv ==
  /\ TreeTypes
  /\ tree[Root].parent = 0 /\ tree[Root].kind = "DIR"
  /\ \A n \in 2 .. Len(tree) : tree[n].parent \in 1 .. n - 1 /\ tree[tree[n].parent].kind = "DIR"
  /\ \A m, n \in DOMAIN tree :
       tree[m].parent = tree[n].parent /\ tree[m].name = tree[n].name /\ tree[m].name # Nameless
         => m = n

Descriptor == [used : BOOLEAN, path : Path \cup {NoPath}, offset : 0 .. MaxSize + MaxLen]
History == [node : 0 .. MaxNode, from : 0 .. MaxLen, bytes : Seq(Byte)]

(* A descriptor's file is the node that its path leads to, whose data do not change
   any more. *)
OpenInv(f, h) == f.used => /\ f.path \in Path
                           /\ h.node \in DOMAIN tree /\ Resolve(f.path, Root) = h.node
                           /\ tree[h.node].kind = "FILE" /\ tree[h.node].size # NoData

(* The bytes b are those of file n from one on, in their order. *)
InOrder(b, n, from) == b = [i \in DOMAIN b |-> <<n, from + i - 1>>]

(* What a descriptor has read, and where it stands behind that. *)
ReadInv(f, h) ==
  /\ ~f.used => h = NoHistory
  /\ f.used => f.offset = h.from + Len(h.bytes)
  /\ InOrder(h.bytes, h.node, h.from)
  /\ h.bytes # << >> => f.offset <= tree[h.node].size

(* Standard input, output and error have no file. *)
StandardInv(f, h) == f.used /\ f.path = NoPath /\ h.bytes = << >>

Sound(f, h, fd) == ReadInv(f, h) /\ IF fd < FirstFd THEN StandardInv(f, h) ELSE OpenInv(f, h)

DescriptorInv ==
  /\ fds \in [Task -> [Fd -> Descriptor]]
  /\ history \in [Task -> [Fd -> History]]
  /\ \A t \in Task, fd \in Fd : Sound(fds[t][fd], history[t][fd], fd)

(* Files are opened behind the boot, and cat's is read from its beginning. *)
TaskInv ==
  /\ current \in Task
  /\ cat \in {0} \cup FirstFd .. MaxFd /\ memory \in 0 .. MaxReads
  /\ ~booted => /\ current = KernelIo /\ cat = 0
                /\ \A t \in Task, fd \in FirstFd .. MaxFd : ~fds[t][fd].used
  /\ cat # 0 => /\ current = KernelIo /\ fds[KernelIo][cat].used
                /\ history[KernelIo][cat].from = 0

(* The shell stands at a node that is named by a component, as all above it are, and
   its path leads there. *)
PlainUp(A) == \A n \in A : Plain(n) /\ (n # Root => tree[n].parent \in A)
Reachable(n) == \E A \in SUBSET DOMAIN tree : n \in A /\ PlainUp(A)
CwdInv == /\ cwdPath \in PathForm /\ cwdPath.abs /\ Resolve(cwdPath, Root) = cwd
          /\ Reachable(cwd) /\ (~booted => cwd = Root)

IInv == TreeInv /\ CwdInv /\ DescriptorInv /\ TaskInv

Token == Name \cup Dots
NodeOrNull == 0 .. Len(tree)

-----------------------------------------------------------------------------
(* Looking up.                                                             *)

(* The length and the elements of a sequence. *)
LEMMA Lengths ==
  ASSUME NEW D, NEW s \in Seq(D)
  PROVE  Len(s) \in Nat /\ DOMAIN s = 1 .. Len(s) /\ \A i \in DOMAIN s : s[i] \in D
OBVIOUS

(* What TreeInv says of one node. *)
LEMMA TreeFacts ==
  ASSUME TreeInv
  PROVE  /\ tree \in Seq(Node) /\ Len(tree) \in Nat /\ DOMAIN tree = 1 .. Len(tree)
         /\ Root \in DOMAIN tree /\ tree[Root].parent = 0 /\ tree[Root].kind = "DIR"
         /\ \A n \in DOMAIN tree : n # Root => tree[n].parent \in DOMAIN tree /\ tree[n].parent < n
                                             /\ tree[tree[n].parent].kind = "DIR"
<1>1. tree \in Seq(Node) /\ Len(tree) \in Nat /\ DOMAIN tree = 1 .. Len(tree) /\ Len(tree) >= 1
  BY BoundAssumption, Lengths DEF TreeInv, TreeTypes
<1>2. ASSUME NEW n \in DOMAIN tree, n # Root
      PROVE  tree[n].parent \in DOMAIN tree /\ tree[n].parent < n /\ tree[tree[n].parent].kind = "DIR"
  <2>1. n \in 2 .. Len(tree)
    BY <1>1, <1>2 DEF Root
  <2>2. tree[n].parent \in 1 .. n - 1 /\ tree[tree[n].parent].kind = "DIR"
    BY <2>1 DEF TreeInv
  <2> QED BY <1>1, <2>1, <2>2
<1> QED BY <1>1, <1>2 DEF TreeInv, Root

(* FindChild finds a child with the name, the only one there is. *)
LEMMA ChildFound ==
  ASSUME TreeInv, NEW dir \in DOMAIN tree, NEW name
  PROVE  /\ FindChild(dir, name) \in NodeOrNull
         /\ FindChild(dir, name) # 0 => /\ FindChild(dir, name) \in DOMAIN tree
                                       /\ tree[dir].kind = "DIR"
                                       /\ tree[FindChild(dir, name)].parent = dir
                                       /\ tree[FindChild(dir, name)].name = name
         /\ name # Nameless /\ tree[dir].kind = "DIR" =>
              \A c \in DOMAIN tree : tree[c].parent = dir /\ tree[c].name = name => FindChild(dir, name) = c
<1>1. PICK S : S = {c \in DOMAIN tree : tree[c].parent = dir /\ tree[c].name = name}
  OBVIOUS
<1>2. Len(tree) \in Nat /\ DOMAIN tree = 1 .. Len(tree) /\ S \subseteq 0 .. Len(tree) /\ S \subseteq DOMAIN tree
  BY <1>1, TreeFacts
<1>3. FindChild(dir, name) = IF tree[dir].kind # "DIR" \/ S = {} THEN 0 ELSE Max(S)
  BY <1>1 DEF FindChild
<1>4. S # {} => Max(S) \in S
  BY <1>2, Bounds
<1>5. ASSUME NEW c \in S, name # Nameless PROVE \A d \in S : d = c
  BY <1>1, <1>5 DEF TreeInv
<1>6. \A c \in DOMAIN tree : tree[c].parent = dir /\ tree[c].name = name => c \in S
  BY <1>1
<1>7. \A c \in S : tree[c].parent = dir /\ tree[c].name = name
  BY <1>1
<1> QED BY <1>2, <1>3, <1>4, <1>5, <1>6, <1>7 DEF NodeOrNull

(* A token leads from a node to a node, or to NULL. *)
LEMMA EnterFacts ==
  ASSUME TreeInv, NEW token
  PROVE  /\ Enter(0, token) = 0
         /\ \A cur \in NodeOrNull : Enter(cur, token) \in NodeOrNull
<1>1. Enter(0, token) = 0
  BY DEF Enter
<1>2. ASSUME NEW cur \in NodeOrNull, cur # 0 PROVE Enter(cur, token) \in NodeOrNull
  <2>1. cur \in DOMAIN tree /\ DOMAIN tree \subseteq NodeOrNull
    BY <1>2, TreeFacts DEF NodeOrNull
  <2>2. FindChild(cur, [base |-> token, slash |-> FALSE]) \in NodeOrNull
    BY <2>1, ChildFound
  <2>3. tree[cur].parent # 0 => tree[cur].parent \in DOMAIN tree
    BY <2>1, TreeFacts
  <2> QED BY <2>1, <2>2, <2>3 DEF Enter
<1> QED BY <1>1, <1>2, TreeFacts DEF NodeOrNull

(* The nodes that a walk passes through, the first before the first token. *)
Passes(at, comps, start) ==
  at[0] = start /\ \A i \in 1 .. Len(comps) : at[i] = Enter(at[i - 1], comps[i])
(* Each token leads to one node. *)
LEMMA OneWay ==
  ASSUME NEW comps \in Seq(Token), NEW start, NEW f, NEW g,
         Passes(f, comps, start), Passes(g, comps, start)
  PROVE  \A i \in 0 .. Len(comps) : f[i] = g[i]
<1>1. PICK n \in Nat : n = Len(comps)
  BY Lengths
<1>2. PICK P : P = {i \in 0 .. n : f[i] = g[i]}
  OBVIOUS
<1>3. 0 \in P
  BY <1>2 DEF Passes
<1>4. ASSUME NEW i \in 0 .. n - 1, i \in P PROVE i + 1 \in P
  <2>1. PICK j \in 1 .. n : j = i + 1 /\ j - 1 = i
    OBVIOUS
  <2>2. f[j] = Enter(f[j - 1], comps[j]) /\ g[j] = Enter(g[j - 1], comps[j])
    BY <1>1 DEF Passes
  <2>3. f[i] = g[i]
    BY <1>2, <1>4
  <2> QED BY <1>2, <2>1, <2>2, <2>3
<1>5. 0 .. n \subseteq P
  <2>1. 0 \in Int /\ n \in Int
    OBVIOUS
  <2> QED BY <1>3, <1>4, <2>1, Upwards
<1> QED BY <1>1, <1>2, <1>5

(* vfs_resolve_tokens passes through a node, or NULL, per token. *)
LEMMA WalkPasses ==
  TreeInv => \A comps \in Seq(Token), start \in NodeOrNull :
               \E at \in [0 .. Len(comps) -> NodeOrNull] :
                 Passes(at, comps, start) /\ Walk(comps, start) = at[Len(comps)]
<1> SUFFICES ASSUME TreeInv, NEW comps \in Seq(Token), NEW start \in NodeOrNull
             PROVE  \E at \in [0 .. Len(comps) -> NodeOrNull] :
                      Passes(at, comps, start) /\ Walk(comps, start) = at[Len(comps)]
  OBVIOUS
<1>1. PICK n \in Nat : n = Len(comps)
  BY Lengths
<1> DEFINE G == [x \in (0 .. n) \X NodeOrNull |-> Enter(x[2], comps[x[1]])]
           R(at) == at = [i \in 0 .. n |-> IF i = 0 THEN start ELSE Enter(at[i - 1], comps[i])]
<1>2. G \in [(0 .. n) \X NodeOrNull -> NodeOrNull]
  BY EnterFacts
<1>3. \A i \in 0 .. n, cur \in NodeOrNull : G[<<i, cur>>] = Enter(cur, comps[i])
  OBVIOUS
<1> HIDE DEF G
<1>4. PICK f \in [0 .. n -> NodeOrNull] : Steps(f, 0, n, start, G)
  <2>1. 0 \in Int /\ n \in Int
    OBVIOUS
  <2> QED BY <1>2, <2>1, Iteration, Zenon
<1>5. \A i \in 0 .. n : f[i] = IF i = 0 THEN start ELSE Enter(f[i - 1], comps[i])
  <2>1. \A i \in 0 .. n : i # 0 => i - 1 \in 0 .. n
    OBVIOUS
  <2> QED BY <1>3, <1>4, <2>1 DEF Steps
<1>6. R(f)
  <2>1. f = [i \in 0 .. n |-> f[i]]
    OBVIOUS
  <2> QED BY <1>5, <2>1
<1> DEFINE at == CHOOSE g : R(g)
<1>7. R(at)
  <2> HIDE DEF R
  <2> QED BY <1>6
<1>8. Walk(comps, start) = at[n]
  BY <1>1 DEF Walk
<1> HIDE DEF at
<1>9. Passes(at, comps, start) /\ Passes(f, comps, start)
  <2>1. \A i \in 0 .. n : at[i] = IF i = 0 THEN start ELSE Enter(at[i - 1], comps[i])
    BY <1>7
  <2>2. 0 \in 0 .. n /\ \A i \in 1 .. n : i \in 0 .. n /\ i # 0
    OBVIOUS
  <2> QED BY <1>1, <1>5, <2>1, <2>2 DEF Passes
<1>10. n \in 0 .. n /\ at[n] = f[n]
  BY <1>1, <1>9, OneWay
<1> QED BY <1>1, <1>8, <1>9, <1>10

(* The same of the tree behind a step. *)
LEMMA WalkPassesNext ==
  (TreeInv => \A comps \in Seq(Token), start \in NodeOrNull :
                \E at \in [0 .. Len(comps) -> NodeOrNull] :
                  Passes(at, comps, start) /\ Walk(comps, start) = at[Len(comps)])'
BY WalkPasses, PTL

(* vfs_resolve finds a node or NULL. *)
LEMMA Resolved ==
  ASSUME TreeInv, NEW path \in PathForm, NEW start \in DOMAIN tree
  PROVE  Resolve(path, start) \in NodeOrNull
<1>1. PICK s : s = IF path.abs THEN Root ELSE start
  OBVIOUS
<1>2. s \in NodeOrNull /\ path.comps \in Seq(Token)
  BY <1>1, TreeFacts DEF NodeOrNull, PathForm, Token
<1>3. PICK at \in [0 .. Len(path.comps) -> NodeOrNull] : Walk(path.comps, s) = at[Len(path.comps)]
  BY <1>2, WalkPasses
<1>4. Len(path.comps) \in 0 .. Len(path.comps)
  BY <1>2, Lengths
<1> QED BY <1>1, <1>3, <1>4 DEF Resolve

(* The paths of the shell, of the boot, and of a descriptor that is not open; what
   vfs_create makes of a path. *)
LEMMA PathFacts ==
  ASSUME NEW path \in Path \cup BootPath \cup {NoPath}
  PROVE  path \in PathForm /\ ParentOf(path) \in PathForm /\ LastName(path) \in NodeName
<1>1. path \in PathForm
  <2>1. << >> \in Seq(Name \cup Dots)
    OBVIOUS
  <2>2. NoPath \in PathForm
    BY <2>1 DEF NoPath, PathForm
  <2> QED BY <2>2, PathAssumption
<1>2. PICK c \in Seq(Token) : c = path.comps
  BY <1>1 DEF PathForm, Token
<1>3. ASSUME c # << >> PROVE Front(c) \in Seq(Token) /\ Last(c) \in Token
  <2>1. PICK n \in Nat \ {0} : n = Len(c) /\ \A i \in 1 .. n : c[i] \in Token
    BY <1>3, Lengths
  <2>2. SubSeq(c, 1, n - 1) \in Seq(Token)
    <3>1. \A i \in 1 .. n - 1 : i \in 1 .. n
      OBVIOUS
    <3> QED BY <2>1, <3>1, SubSeqProperties
  <2> QED BY <2>1, <2>2 DEF Front, Last
<1>4. ParentOf(path).comps \in Seq(Token) /\ ParentOf(path).abs = path.abs
      /\ ParentOf(path).slash = path.slash /\ ParentOf(path) = [path EXCEPT !.comps = IF c = << >> THEN c ELSE Front(c)]
  BY <1>1, <1>2, <1>3 DEF ParentOf, PathForm
<1>5. ParentOf(path) \in PathForm
  BY <1>1, <1>2, <1>3, <1>4 DEF PathForm, Token
<1>6. LastName(path) \in NodeName
  BY <1>1, <1>2, <1>3 DEF LastName, NodeName, PathForm, Token
<1> QED BY <1>1, <1>5, <1>6

-----------------------------------------------------------------------------
(* Growing.                                                                *)

(* A step that does not disturb the tree: it keeps every node's name, kind and place,
   and every name that meant a node goes on to mean it. *)
Grown ==
  /\ Len(tree) <= Len(tree')
  /\ \A n \in DOMAIN tree : tree'[n].kind = tree[n].kind
  /\ \A cur \in DOMAIN tree, token \in Token : Enter(cur, token) # 0 => Enter(cur, token)' = Enter(cur, token)

(* A path that leads somewhere leads there afterwards, token by token. *)
LEMMA StableWalk ==
  ASSUME TreeInv, TreeInv', Grown, NEW comps \in Seq(Token), NEW start \in DOMAIN tree,
         Walk(comps, start) # 0
  PROVE  Walk(comps, start)' = Walk(comps, start)
<1>1. PICK n \in Nat : n = Len(comps) /\ \A i \in 1 .. n : comps[i] \in Token
  BY Lengths
<1>2. start \in NodeOrNull /\ start \in NodeOrNull' /\ DOMAIN tree \subseteq DOMAIN tree'
  <2>1. TreeInv' => DOMAIN tree' = 1 .. Len(tree') /\ Len(tree') \in Nat
    BY Lengths DEF TreeInv, TreeTypes
  <2> QED BY <2>1, TreeFacts DEF NodeOrNull, Grown
<1>3. PICK f \in [0 .. n -> NodeOrNull] : Passes(f, comps, start) /\ Walk(comps, start) = f[n]
  BY <1>1, <1>2, WalkPasses
<1>4. PICK g \in [0 .. n -> NodeOrNull'] : Passes(g, comps, start)' /\ Walk(comps, start)' = g[n]
  BY <1>1, <1>2, WalkPassesNext
<1>5. PICK P : P = {i \in 0 .. n : f[i] # 0 => g[i] = f[i]}
  OBVIOUS
<1>6. 0 \in P
  BY <1>3, <1>4, <1>5 DEF Passes
<1>7. ASSUME NEW i \in 0 .. n - 1, i \in P PROVE i + 1 \in P
  <2>1. PICK j \in 1 .. n : j = i + 1 /\ j - 1 = i
    OBVIOUS
  <2>2. f[j] = Enter(f[i], comps[j])
    BY <1>1, <1>3, <2>1 DEF Passes
  <2>3. g[j] = Enter(g[i], comps[j])'
    BY <1>1, <1>4, <2>1 DEF Passes
  <2>4. f[i] = 0 => f[j] = 0
    BY <2>2, EnterFacts
  <2>5. ASSUME f[j] # 0 PROVE g[j] = f[j]
    <3>1. f[i] \in DOMAIN tree /\ g[i] = f[i]
      BY <1>3, <1>5, <1>7, <2>4, <2>5, TreeFacts DEF NodeOrNull
    <3>2. comps[j] \in Token
      BY <1>1
    <3>3. Enter(f[i], comps[j]) # 0
      BY <2>2, <2>5
    <3>4. PICK k \in DOMAIN tree : k = f[i] /\ k = g[i]
      BY <3>1
    <3>5. Enter(k, comps[j])' = Enter(k, comps[j])
      BY <3>2, <3>3, <3>4 DEF Grown
    <3> QED BY <2>2, <2>3, <3>4, <3>5
  <2> QED BY <1>5, <2>1, <2>5
<1>8. 0 .. n \subseteq P
  <2>1. 0 \in Int /\ n \in Int
    OBVIOUS
  <2> QED BY <1>6, <1>7, <2>1, Upwards
<1>9. n \in P
  BY <1>8
<1> QED BY <1>3, <1>4, <1>5, <1>9

(* vfs_create: the parent is a directory, and has no child of the name yet. *)
LEMMA GrowStep ==
  ASSUME TreeInv, NEW path \in Path \cup BootPath, NEW start \in DOMAIN tree,
         NEW kind \in {"FILE", "DIR"}, NEW size \in NoData .. MaxSize, Grow(path, kind, size, start),
         UNCHANGED <<booted, cwd>>
  PROVE  TreeInv' /\ Grown /\ \A n \in DOMAIN tree : tree'[n] = tree[n]
<1>1. PICK p : p = Parent(path, start)
  OBVIOUS
<1>2. p \in DOMAIN tree /\ tree[p].kind = "DIR"
  <2>1. ParentOf(path) \in PathForm
    BY PathFacts
  <2>2. Resolve(ParentOf(path), start) \in NodeOrNull
    BY <2>1, Resolved
  <2> QED BY <1>1, <2>2, TreeFacts DEF Parent, Grow, NodeOrNull
<1>3. PICK name \in {LastName(path), Nameless} : tree' = Append(tree, NewNode(name, kind, p, size))
  BY <1>1 DEF Grow
<1>4. PICK node : node = NewNode(name, kind, p, size)
  OBVIOUS
<1>5. name \in NodeName
  <2>1. Nameless \in NodeName /\ LastName(path) \in NodeName
    BY PathFacts DEF Nameless, NodeName
  <2> QED BY <1>3, <2>1
<1>6. node \in Node /\ node.name = name /\ node.kind = kind /\ node.parent = p
  <2>1. p \in 0 .. MaxNode
    BY <1>2, TreeFacts, BoundAssumption DEF TreeInv, TreeTypes
  <2> QED BY <1>4, <1>5, <2>1 DEF NewNode, Node
<1>7. PICK l \in Nat : l = Len(tree) /\ l < MaxNode
  BY TreeFacts DEF Grow
<1>8. /\ tree' \in Seq(Node) /\ Len(tree') = l + 1 /\ tree'[l + 1] = node
      /\ \A n \in 1 .. l : tree'[n] = tree[n]
  BY <1>3, <1>4, <1>6, <1>7, TreeFacts, AppendProperties
<1>9. DOMAIN tree = 1 .. l /\ DOMAIN tree' = 1 .. l + 1
  BY <1>7, <1>8, TreeFacts
<1>10. \A n \in DOMAIN tree' : n \in DOMAIN tree \/ n = l + 1
  BY <1>9
<1>11. ASSUME NEW c \in DOMAIN tree, tree[c].parent = p PROVE tree[c].name # LastName(path)
  <2>1. FindChild(p, LastName(path)) = 0
    BY <1>1 DEF Grow, Existing
  <2>2. c \notin {d \in DOMAIN tree : tree[d].parent = p /\ tree[d].name = LastName(path)}
    <3>1. PICK S : S = {d \in DOMAIN tree : tree[d].parent = p /\ tree[d].name = LastName(path)}
      OBVIOUS
    <3>2. S # {} => Max(S) \in S
      <4>1. S \subseteq 0 .. l
        BY <1>9, <3>1
      <4> QED BY <4>1, <1>7, Bounds
    <3>3. 0 \notin S
      BY <1>9, <3>1
    <3>4. S = {}
      BY <1>2, <2>1, <3>1, <3>2, <3>3 DEF FindChild
    <3> QED BY <3>1, <3>4
  <2> QED BY <1>11, <2>2
<1>12. TreeInv'
  <2>1. TreeTypes'
    <3>1. Len(tree') \in 1 .. MaxNode
      BY <1>7, <1>8, BoundAssumption
    <3> QED BY <1>8, <1>9, <3>1 DEF TreeInv, TreeTypes
  <2>2. tree'[Root].parent = 0 /\ tree'[Root].kind = "DIR"
    BY <1>8, <1>9, TreeFacts
  <2>3. ASSUME NEW n \in 2 .. Len(tree')
        PROVE  tree'[n].parent \in 1 .. n - 1 /\ tree'[tree'[n].parent].kind = "DIR"
    <3>1. CASE n = l + 1
      BY <1>2, <1>6, <1>8, <1>9, <3>1
    <3>2. CASE n # l + 1
      <4>1. n \in 2 .. Len(tree) /\ n \in 1 .. l /\ tree'[n] = tree[n]
        BY <1>7, <1>8, <3>2
      <4>2. tree[n].parent \in 1 .. n - 1 /\ tree[tree[n].parent].kind = "DIR"
        BY <4>1 DEF TreeInv
      <4> QED BY <1>8, <4>1, <4>2
    <3> QED BY <3>1, <3>2
  <2>4. ASSUME NEW m \in DOMAIN tree', NEW n \in DOMAIN tree', tree'[m].parent = tree'[n].parent,
               tree'[m].name = tree'[n].name, tree'[m].name # Nameless
        PROVE  m = n
    <3>1. CASE m = l + 1 /\ n \in DOMAIN tree
      BY <1>3, <1>6, <1>8, <1>9, <1>11, <2>4, <3>1
    <3>2. CASE n = l + 1 /\ m \in DOMAIN tree
      BY <1>3, <1>6, <1>8, <1>9, <1>11, <2>4, <3>2
    <3>3. CASE m \in DOMAIN tree /\ n \in DOMAIN tree
      BY <1>8, <1>9, <2>4, <3>3 DEF TreeInv
    <3> QED BY <1>10, <3>1, <3>2, <3>3
  <2> QED BY <2>1, <2>2, <2>3, <2>4 DEF TreeInv
<1>13. ASSUME NEW cur \in DOMAIN tree, NEW token \in Token, Enter(cur, token) # 0
       PROVE  Enter(cur, token)' = Enter(cur, token)
  <2>1. tree'[cur] = tree[cur] /\ cur # 0
    BY <1>8, <1>9
  <2>2. CASE token \in {".", ".."}
    BY <2>1, <2>2 DEF Enter
  <2>3. CASE token \notin {".", ".."}
    <3>1. PICK t : t = [base |-> token, slash |-> FALSE]
      OBVIOUS
    <3>2. Enter(cur, token) = FindChild(cur, t) /\ Enter(cur, token)' = FindChild(cur, t)'
      BY <2>1, <2>3, <3>1 DEF Enter
    <3>3. t # Nameless
      BY <3>1 DEF Nameless
    <3>4. PICK S : S = {c \in DOMAIN tree : tree[c].parent = cur /\ tree[c].name = t}
      OBVIOUS
    <3>5. tree[cur].kind = "DIR" /\ S # {} /\ FindChild(cur, t) = Max(S)
      BY <1>13, <3>2, <3>4 DEF FindChild
    <3>6. ~(node.parent = cur /\ node.name = t)
      <4>1. PICK c \in DOMAIN tree : tree[c].parent = cur /\ tree[c].name = t
        BY <3>4, <3>5
      <4> QED BY <1>3, <1>6, <1>11, <3>3, <4>1
    <3>7. S = {c \in DOMAIN tree' : tree'[c].parent = cur /\ tree'[c].name = t}
      BY <1>8, <1>9, <3>4, <3>6
    <3>8. FindChild(cur, t)' = IF tree'[cur].kind # "DIR" \/ S = {} THEN 0 ELSE Max(S)
      BY <3>7, Zenon DEF FindChild
    <3> QED BY <2>1, <3>2, <3>5, <3>8
  <2> QED BY <2>2, <2>3
<1>14. Grown
  <2>1. Len(tree) <= Len(tree')
    BY <1>7, <1>8
  <2> QED BY <1>8, <1>9, <1>13, <2>1 DEF Grown
<1> QED BY <1>8, <1>9, <1>12, <1>14

(* New data for an old file. *)
LEMMA RewriteStep ==
  ASSUME TreeInv, NEW n \in DOMAIN tree, NEW size \in Size, tree' = [tree EXCEPT ![n].size = size],
         UNCHANGED <<booted, cwd>>
  PROVE  TreeInv' /\ Grown
<1>1. PICK l \in Nat : l = Len(tree) /\ DOMAIN tree = 1 .. l /\ l \in 1 .. MaxNode /\ cwd \in DOMAIN tree
  BY TreeFacts DEF TreeInv, TreeTypes
<1>2. PICK node : node = [tree[n] EXCEPT !.size = size]
  OBVIOUS
<1>3. node \in Node /\ node.name = tree[n].name /\ node.kind = tree[n].kind /\ node.parent = tree[n].parent
  <2>1. tree[n] \in Node /\ size \in NoData .. MaxSize
    BY BoundAssumption, TreeFacts DEF NoData
  <2> QED BY <1>2, <2>1 DEF Node
<1>4. tree' = [tree EXCEPT ![n] = node]
  BY <1>2
<1>5. tree' \in Seq(Node) /\ Len(tree') = l /\ \A m \in 1 .. l : tree'[m] = IF m = n THEN node ELSE tree[m]
  BY <1>1, <1>3, <1>4, TreeFacts, ExceptSeq
<1>6. /\ DOMAIN tree' = DOMAIN tree
      /\ \A m \in DOMAIN tree : /\ tree'[m].name = tree[m].name /\ tree'[m].kind = tree[m].kind
                                /\ tree'[m].parent = tree[m].parent
  BY <1>1, <1>3, <1>5
<1>7. TreeInv'
  <2>1. TreeTypes'
    BY <1>1, <1>5, <1>6 DEF TreeInv, TreeTypes
  <2>2. tree'[Root].parent = 0 /\ tree'[Root].kind = "DIR"
    BY <1>6, TreeFacts
  <2>3. ASSUME NEW m \in 2 .. Len(tree')
        PROVE  tree'[m].parent \in 1 .. m - 1 /\ tree'[tree'[m].parent].kind = "DIR"
    <3>1. m \in DOMAIN tree /\ m \in 2 .. Len(tree)
      BY <1>1, <1>5
    <3>2. PICK p : p = tree[m].parent /\ p \in 1 .. m - 1 /\ tree[p].kind = "DIR"
      BY <3>1 DEF TreeInv
    <3>3. p \in DOMAIN tree
      BY <1>1, <3>1, <3>2
    <3> QED BY <1>6, <3>1, <3>2, <3>3
  <2>4. \A a, b \in DOMAIN tree' :
          tree'[a].parent = tree'[b].parent /\ tree'[a].name = tree'[b].name /\ tree'[a].name # Nameless
            => a = b
    BY <1>6 DEF TreeInv
  <2> QED BY <2>1, <2>2, <2>3, <2>4 DEF TreeInv
<1>8. ASSUME NEW cur \in DOMAIN tree, NEW token \in Token
      PROVE  Enter(cur, token)' = Enter(cur, token)
  <2>1. \A name : FindChild(cur, name)' = FindChild(cur, name)
    <3> SUFFICES ASSUME NEW name PROVE FindChild(cur, name)' = FindChild(cur, name)
      OBVIOUS
    <3>1. PICK S : S = {c \in DOMAIN tree : tree[c].parent = cur /\ tree[c].name = name}
      OBVIOUS
    <3>2. S = {c \in DOMAIN tree' : tree'[c].parent = cur /\ tree'[c].name = name}
      BY <1>6, <3>1
    <3>3. FindChild(cur, name) = IF tree[cur].kind # "DIR" \/ S = {} THEN 0 ELSE Max(S)
      BY <3>1, Zenon DEF FindChild
    <3>4. FindChild(cur, name)' = IF tree'[cur].kind # "DIR" \/ S = {} THEN 0 ELSE Max(S)
      BY <3>2, Zenon DEF FindChild
    <3> QED BY <1>6, <3>3, <3>4
  <2>2. tree'[cur].parent = tree[cur].parent
    BY <1>6
  <2> QED BY <2>1, <2>2 DEF Enter
<1>9. Grown
  <2>1. Len(tree) <= Len(tree')
    BY <1>1, <1>5
  <2> QED BY <1>6, <1>8, <2>1 DEF Grown
<1> QED BY <1>7, <1>9

(* A step that leaves the tree alone. *)
LEMMA SameTree ==
  ASSUME TreeInv, UNCHANGED tree, booted' \in BOOLEAN, cwd' \in DOMAIN tree
  PROVE  TreeInv' /\ Grown
<1>1. TreeInv'
  BY DEF TreeInv, TreeTypes
<1>2. ASSUME NEW cur \in DOMAIN tree, NEW token \in Token
      PROVE  Enter(cur, token)' = Enter(cur, token)
  <2>1. \A name : FindChild(cur, name)' = FindChild(cur, name)
    BY Zenon DEF FindChild
  <2> QED BY <2>1 DEF Enter
<1>3. Len(tree) <= Len(tree')
  BY TreeFacts
<1> QED BY <1>1, <1>2, <1>3 DEF Grown

(* What every step does to the tree: it grows, or a file is written before the shell
   takes over. *)
LEMMA TreeStep ==
  ASSUME TreeInv, [VfsNext]_vfsVars
  PROVE  /\ TreeInv' /\ Grown /\ (booted => booted')
         /\ booted => \A n \in DOMAIN tree : tree'[n] = tree[n]
<1>1. Root \in DOMAIN tree /\ cwd \in DOMAIN tree
  BY TreeFacts DEF TreeInv, TreeTypes
<1>2. ASSUME NEW p \in BootPath, BootDir(p) PROVE TreeInv' /\ Grown /\ ~booted
  <2>1. NoData \in NoData .. MaxSize
    BY BoundAssumption DEF NoData
  <2> QED BY <1>1, <1>2, <2>1, GrowStep DEF BootDir
<1>3. ASSUME NEW p \in BootPath, NEW size \in Size, WriteFile(p, size) PROVE TreeInv' /\ Grown /\ ~booted
  <2>1. CASE \E s \in {NoData, size} : Grow(p, "FILE", s, Root)
    <3>1. {NoData, size} \subseteq NoData .. MaxSize
      BY BoundAssumption DEF NoData
    <3> QED BY <1>1, <1>3, <2>1, <3>1, GrowStep DEF WriteFile
  <2>2. CASE ~ \E s \in {NoData, size} : Grow(p, "FILE", s, Root)
    <3>1. PICK n : n = Existing(p, Root) /\ n # 0 /\ tree' = [tree EXCEPT ![n].size = size]
      BY <1>3, <2>2 DEF WriteFile
    <3>2. n \in DOMAIN tree
      <4>1. PICK d : d = Parent(p, Root)
        OBVIOUS
      <4>2. d # 0 /\ n = FindChild(d, LastName(p))
        BY <3>1, <4>1 DEF Existing
      <4>3. d \in DOMAIN tree
        <5>1. ParentOf(p) \in PathForm
          BY PathFacts
        <5>2. Resolve(ParentOf(p), Root) \in NodeOrNull
          BY <1>1, <5>1, Resolved
        <5> QED BY <4>1, <4>2, <5>2, TreeFacts DEF Parent, NodeOrNull
      <4> QED BY <3>1, <4>2, <4>3, ChildFound
    <3> QED BY <1>3, <3>1, <3>2, RewriteStep DEF WriteFile
  <2> QED BY <2>1, <2>2
<1>4. ASSUME NEW p \in Path, Touch(p) \/ Mkdir(p)
      PROVE  TreeInv' /\ Grown /\ booted' = booted /\ \A n \in DOMAIN tree : tree'[n] = tree[n]
  <2>1. NoData \in NoData .. MaxSize
    BY BoundAssumption DEF NoData
  <2> QED BY <1>1, <1>4, <2>1, GrowStep DEF Touch, Mkdir
<1>5. ASSUME NEW p \in Path, Cd(p) PROVE UNCHANGED <<tree, booted>> /\ cwd' \in DOMAIN tree
  <2>1. p \in PathForm
    BY PathAssumption
  <2>2. Resolve(p, cwd) \in NodeOrNull
    BY <1>1, <2>1, Resolved
  <2> QED BY <1>5, <2>2, TreeFacts DEF Cd, NodeOrNull
<1>6. ASSUME CdRoot \/ UNCHANGED vfsVars PROVE UNCHANGED <<tree, booted>> /\ cwd' \in DOMAIN tree
  BY <1>1, <1>6 DEF CdRoot, vfsVars
<1>7. ASSUME Boot PROVE tree' = tree /\ booted' \in BOOLEAN /\ cwd' \in DOMAIN tree /\ ~booted
  BY <1>1, <1>7 DEF Boot
<1>8. booted \in BOOLEAN
  BY DEF TreeInv, TreeTypes
<1> QED BY <1>2, <1>3, <1>4, <1>5, <1>6, <1>7, <1>8, SameTree DEF VfsNext, BootStep, ShellStep

-----------------------------------------------------------------------------
(* From the root to a node and back.                                       *)

Above(s) == LET p == tree[Head(s)].parent IN IF p = 0 THEN s ELSE <<p>> \o s

(* A list of nodes, each the child of the one before, that ends at n. *)
Descent(s, n) ==
  /\ s \in Seq(DOMAIN tree) \ {<< >>}
  /\ s[Len(s)] = n
  /\ \A i \in 1 .. Len(s) - 1 : tree[s[i + 1]].parent = s[i]

(* One more node above. *)
LEMMA AboveFacts ==
  ASSUME TreeInv, NEW n \in DOMAIN tree, NEW s, Descent(s, n)
  PROVE  /\ Descent(Above(s), n)
         /\ s[1] = Root => Above(s) = s
         /\ s[1] # Root => Above(s)[1] < s[1]
<1>1. PICK l \in Nat \ {0} : l = Len(s) /\ s \in Seq(DOMAIN tree) /\ DOMAIN s = 1 .. l
  BY Lengths DEF Descent
<1>2. s[1] \in DOMAIN tree /\ Head(s) = s[1]
  BY <1>1
<1>3. CASE s[1] = Root
  BY <1>2, <1>3, TreeFacts DEF Above
<1>4. CASE s[1] # Root
  <2>1. PICK p \in DOMAIN tree : p = tree[s[1]].parent /\ p < s[1] /\ p # 0
    BY <1>2, <1>4, TreeFacts
  <2>2. PICK t : t = <<p>> \o s
    OBVIOUS
  <2>3. /\ t \in Seq(DOMAIN tree) /\ Len(t) = l + 1 /\ t[1] = p
        /\ \A i \in 1 .. l : t[i + 1] = s[i]
    BY <1>1, <2>2
  <2>4. \A i \in 1 .. l : i = 1 \/ (i - 1 \in 1 .. l - 1 /\ t[i] = s[i - 1] /\ s[i] = s[i - 1 + 1])
    <3>1. \A i \in 1 .. l : i = 1 \/ (i - 1 \in 1 .. l /\ i - 1 \in 1 .. l - 1 /\ i - 1 + 1 = i)
      OBVIOUS
    <3> QED BY <2>3, <3>1
  <2>5. \A i \in 1 .. l : tree[t[i + 1]].parent = t[i]
    BY <1>1, <2>1, <2>3, <2>4 DEF Descent
  <2>6. Len(t) - 1 = l /\ t # << >> /\ t[Len(t)] = n
    BY <1>1, <2>3 DEF Descent
  <2>7. Descent(t, n)
    BY <2>3, <2>5, <2>6 DEF Descent
  <2>8. Above(s) = t
    BY <1>2, <2>1, <2>2 DEF Above
  <2> QED BY <1>4, <2>1, <2>3, <2>7, <2>8
<1> QED BY <1>3, <1>4

(* vfs_get_path goes up to the root: a parent is older, so there are no more steps
   than nodes. *)
LEMMA PathDescends ==
  ASSUME TreeInv, NEW n \in DOMAIN tree
  PROVE  Descent(PathTo(n), n) /\ PathTo(n)[1] = Root
<1>1. PICK l \in Nat : l = Len(tree) /\ DOMAIN tree = 1 .. l
  BY TreeFacts
<1> DEFINE S == {s \in Seq(DOMAIN tree) : Descent(s, n)}
           G == [x \in (0 .. l) \X S |-> Above(x[2])]
           R(up) == up = [k \in 0 .. l |-> IF k = 0 THEN << n >> ELSE Above(up[k - 1])]
<1>2. \A s \in S : Above(s) \in S
  BY AboveFacts DEF Descent
<1>3. << n >> \in S
  BY DEF Descent
<1>4. G \in [(0 .. l) \X S -> S] /\ \A k \in 0 .. l, s \in S : G[<<k, s>>] = Above(s)
  <2> HIDE DEF S
  <2> QED BY <1>2
<1>5. PICK f \in [0 .. l -> S] : Steps(f, 0, l, << n >>, G)
  <2> HIDE DEF S, G
  <2>1. 0 \in Int /\ l \in Int
    OBVIOUS
  <2> QED BY <1>3, <1>4, <2>1, Iteration, Zenon
<1>6. \E up : R(up)
  <2> HIDE DEF G, S
  <2>1. \A k \in 0 .. l : k # 0 => k - 1 \in 0 .. l
    OBVIOUS
  <2>2. \A k \in 0 .. l : f[k] = IF k = 0 THEN << n >> ELSE Above(f[k - 1])
    BY <1>4, <1>5, <2>1 DEF Steps
  <2>3. f = [k \in 0 .. l |-> f[k]]
    OBVIOUS
  <2> QED BY <2>2, <2>3
<1> DEFINE up == CHOOSE g : R(g)
<1>7. R(up)
  <2> HIDE DEF R
  <2> QED BY <1>6
<1>8. PathTo(n) = up[l]
  BY <1>1 DEF PathTo, Above
<1> HIDE DEF up, S, G
<1>9. \A k \in 0 .. l : up[k] = IF k = 0 THEN << n >> ELSE Above(up[k - 1])
  BY <1>7
<1>10. PICK P : P = {k \in 0 .. l : Descent(up[k], n) /\ (up[k][1] = Root \/ up[k][1] <= n - k)}
  OBVIOUS
<1>11. 0 \in P
  <2>1. up[0] = << n >> /\ << n >>[1] = n /\ n <= n - 0
    BY <1>1, <1>9
  <2> QED BY <1>3, <1>10, <2>1 DEF S
<1>12. ASSUME NEW k \in 0 .. l - 1, k \in P PROVE k + 1 \in P
  <2>1. PICK j \in 0 .. l : j = k + 1 /\ j # 0 /\ j - 1 = k
    OBVIOUS
  <2>2. PICK s, t : s = up[k] /\ t = up[j] /\ t = Above(s)
    BY <1>9, <2>1
  <2>3. Descent(s, n) /\ (s[1] = Root \/ s[1] <= n - k)
    BY <1>10, <1>12, <2>2
  <2>4. Descent(t, n) /\ (s[1] = Root => t = s) /\ (s[1] # Root => t[1] < s[1])
    BY <2>2, <2>3, AboveFacts
  <2>5. t[1] = Root \/ t[1] <= n - j
    <3>1. s[1] \in Int /\ t[1] \in Int
      <4>1. \A x : Descent(x, n) => x[1] \in DOMAIN tree
        BY DEF Descent
      <4> QED BY <1>1, <2>3, <2>4, <4>1
    <3> QED BY <1>1, <2>1, <2>3, <2>4, <3>1
  <2> QED BY <1>10, <2>1, <2>2, <2>4, <2>5
<1>13. l \in P
  <2>1. 0 \in Int /\ l \in Int /\ l \in 0 .. l
    OBVIOUS
  <2>2. 0 .. l \subseteq P
    BY <1>11, <1>12, <2>1, Upwards
  <2> QED BY <2>1, <2>2
<1>14. up[l][1] \in 1 .. l
  BY <1>1, <1>10, <1>13 DEF Descent
<1> QED BY <1>1, <1>8, <1>10, <1>13, <1>14 DEF Root

(* What vfs_get_path prints leads down the same nodes. *)
LEMMA LeadsBack ==
  ASSUME TreeInv, NEW n \in DOMAIN tree, AncestorsPlain(n)
  PROVE  Resolve(GetPath(n), cwd) = n /\ GetPath(n) \in PathForm /\ GetPath(n).abs
<1>1. PICK u : u = PathTo(n)
  OBVIOUS
<1>2. Descent(u, n) /\ u[1] = Root
  BY <1>1, PathDescends
<1>3. PICK l \in Nat \ {0} : l = Len(u) /\ DOMAIN u = 1 .. l /\ \A i \in 1 .. l : u[i] \in DOMAIN tree
  BY <1>2, Lengths DEF Descent
<1>4. u[l] = n /\ \A i \in 1 .. l - 1 : tree[u[i + 1]].parent = u[i]
  BY <1>2, <1>3 DEF Descent
<1>5. PICK names : names = [i \in 1 .. l |-> tree[u[i]].name.base]
  OBVIOUS
<1>6. PICK comps : comps = Tail(names)
  OBVIOUS
<1>7. GetPath(n) = [abs |-> TRUE, comps |-> comps, slash |-> FALSE]
  BY <1>1, <1>3, <1>5, <1>6 DEF GetPath
<1>8. ASSUME NEW i \in 1 .. l - 1
      PROVE  /\ i \in 1 .. l /\ i + 1 \in 1 .. l
             /\ tree[u[i + 1]].name.base \in Name
             /\ tree[u[i + 1]].name = [base |-> tree[u[i + 1]].name.base, slash |-> FALSE]
             /\ tree[u[i]].kind = "DIR"
  <2>1. i \in 1 .. l /\ i + 1 \in 1 .. l
    OBVIOUS
  <2>2. PICK m \in DOMAIN tree : m = u[i + 1]
    BY <1>3, <2>1
  <2>3. PICK d \in DOMAIN tree : d = u[i] /\ d = tree[m].parent /\ d # 0
    BY <1>3, <1>4, <2>1, <2>2, TreeFacts
  <2>4. m # Root /\ tree[d].kind = "DIR"
    BY <2>3, TreeFacts
  <2>5. ~tree[m].name.slash /\ tree[m].name.base \in Name
    BY <1>1, <1>3, <2>1, <2>2, <2>4 DEF AncestorsPlain, Plain
  <2>6. tree[m] \in Node
    BY TreeFacts
  <2>7. tree[m].name \in NodeName
    BY <2>6 DEF Node
  <2>8. tree[m].name = [base |-> tree[m].name.base, slash |-> FALSE]
    BY <2>5, <2>7 DEF NodeName
  <2> QED BY <2>1, <2>2, <2>3, <2>4, <2>5, <2>8
<1>9. comps \in Seq(Token) /\ Len(comps) = l - 1 /\ \A i \in 1 .. l - 1 : comps[i] = tree[u[i + 1]].name.base
  <2>1. PICK B : B = {tree[u[i]].name.base : i \in 1 .. l}
    OBVIOUS
  <2>2. names \in Seq(B) /\ Len(names) = l /\ names # << >>
    <3>1. \A i \in 1 .. l : tree[u[i]].name.base \in B
      BY <2>1
    <3> QED BY <1>5, <3>1
  <2>3. comps \in Seq(B) /\ Len(comps) = l - 1 /\ \A i \in 1 .. l - 1 : comps[i] = names[i + 1]
    BY <1>6, <2>2, HeadTailProperties
  <2>4. \A i \in 1 .. l - 1 : comps[i] = tree[u[i + 1]].name.base
    BY <1>5, <1>8, <2>3
  <2>5. \A i \in 1 .. l - 1 : comps[i] \in Token
    BY <1>8, <2>4 DEF Token
  <2>6. comps = [i \in 1 .. l - 1 |-> comps[i]]
    BY <2>3, LenProperties
  <2>7. [i \in 1 .. l - 1 |-> comps[i]] \in Seq(Token)
    BY <2>5
  <2> QED BY <2>3, <2>4, <2>6, <2>7
<1>10. PICK at : at = [i \in 0 .. l - 1 |-> u[i + 1]]
  OBVIOUS
<1>11. Passes(at, comps, Root)
  <2>1. at[0] = Root
    BY <1>2, <1>10
  <2>2. ASSUME NEW i \in 1 .. l - 1 PROVE at[i] = Enter(at[i - 1], comps[i])
    <3>1. at[i] = u[i + 1] /\ at[i - 1] = u[i]
      BY <1>10
    <3>2. PICK d, m \in DOMAIN tree : d = u[i] /\ m = u[i + 1] /\ tree[m].parent = d
      BY <1>3, <1>4, <1>8
    <3>3. PICK name : name = [base |-> comps[i], slash |-> FALSE]
      OBVIOUS
    <3>4. tree[m].name = name /\ tree[d].kind = "DIR" /\ comps[i] \in Name
      BY <1>8, <1>9, <3>2, <3>3
    <3>5. FindChild(d, name) = m
      <4>1. name # Nameless
        BY <3>3 DEF Nameless
      <4> QED BY <3>2, <3>4, <4>1, ChildFound
    <3>6. comps[i] # "." /\ comps[i] # ".."
      <4>1. comps[i] \notin Dots
        BY <3>4, NameAssumption
      <4> QED BY <4>1 DEF Dots
    <3>7. d # 0
      BY <3>2, TreeFacts
    <3> QED BY <3>1, <3>2, <3>3, <3>5, <3>6, <3>7 DEF Enter
  <2> QED BY <1>9, <2>1, <2>2 DEF Passes
<1>12. Root \in NodeOrNull
  BY TreeFacts DEF NodeOrNull
<1>13. PICK f \in [0 .. Len(comps) -> NodeOrNull] :
         Passes(f, comps, Root) /\ Walk(comps, Root) = f[Len(comps)]
  BY <1>9, <1>12, WalkPasses
<1>14. f[l - 1] = at[l - 1] /\ at[l - 1] = u[l]
  <2>1. l - 1 \in 0 .. Len(comps) /\ l - 1 \in 0 .. l - 1 /\ l - 1 + 1 = l
    BY <1>9
  <2> QED BY <1>9, <1>10, <1>11, <1>13, <2>1, OneWay
<1>15. GetPath(n) \in PathForm /\ GetPath(n).abs
  BY <1>7, <1>9 DEF PathForm, Token
<1> QED BY <1>4, <1>7, <1>9, <1>13, <1>14, <1>15 DEF Resolve

-----------------------------------------------------------------------------
(* Where the shell stands.                                                 *)

(* A token leads from a node that paths lead to to another one. *)
LEMMA EnterReaches ==
  ASSUME TreeInv, NEW token \in Token, NEW cur \in DOMAIN tree, Reachable(cur), Enter(cur, token) # 0
  PROVE  Enter(cur, token) \in DOMAIN tree /\ Reachable(Enter(cur, token))
<1>1. PICK A \in SUBSET DOMAIN tree : cur \in A /\ PlainUp(A)
  BY DEF Reachable
<1>2. cur # 0 /\ (cur = Root => tree[cur].parent = 0) /\ (cur # Root => tree[cur].parent \in DOMAIN tree)
  BY TreeFacts
<1>3. CASE token = "."
  BY <1>2, <1>3 DEF Enter
<1>4. CASE token = ".."
  <2>1. Enter(cur, token) = IF tree[cur].parent # 0 THEN tree[cur].parent ELSE cur
    BY <1>2, <1>4 DEF Enter
  <2>2. Enter(cur, token) \in A
    BY <1>1, <1>2, <2>1 DEF PlainUp
  <2> QED BY <1>1, <2>2 DEF Reachable
<1>5. CASE token \notin Dots
  <2>1. PICK name : name = [base |-> token, slash |-> FALSE]
    OBVIOUS
  <2>2. PICK c : c = Enter(cur, token) /\ c = FindChild(cur, name) /\ c # 0
    BY <1>2, <1>5, <2>1 DEF Enter, Dots
  <2>3. c \in DOMAIN tree /\ tree[c].parent = cur /\ tree[c].name = name
    BY <2>2, ChildFound
  <2>4. Plain(c)
    <3>1. token \in Name
      BY <1>5 DEF Token
    <3> QED BY <2>1, <2>3, <3>1 DEF Plain
  <2>5. PICK B : B = A \cup {c}
    OBVIOUS
  <2>6. PlainUp(B) /\ c \in B /\ B \in SUBSET DOMAIN tree
    BY <1>1, <2>3, <2>4, <2>5 DEF PlainUp
  <2> QED BY <2>2, <2>3, <2>6 DEF Reachable
<1> QED BY <1>3, <1>4, <1>5 DEF Dots

(* Every path leads from such a node to such a node, or nowhere. *)
LEMMA WalkReaches ==
  ASSUME TreeInv, NEW comps \in Seq(Token), NEW start \in DOMAIN tree, Reachable(start),
         Walk(comps, start) # 0
  PROVE  Walk(comps, start) \in DOMAIN tree /\ Reachable(Walk(comps, start))
<1>1. PICK n \in Nat : n = Len(comps) /\ \A i \in 1 .. n : comps[i] \in Token
  BY Lengths
<1>2. start \in NodeOrNull
  BY TreeFacts DEF NodeOrNull
<1>3. PICK f \in [0 .. n -> NodeOrNull] : Passes(f, comps, start) /\ Walk(comps, start) = f[n]
  BY <1>1, <1>2, WalkPasses
<1>4. PICK P : P = {i \in 0 .. n : f[i] # 0 => f[i] \in DOMAIN tree /\ Reachable(f[i])}
  OBVIOUS
<1>5. 0 \in P
  BY <1>3, <1>4 DEF Passes
<1>6. ASSUME NEW i \in 0 .. n - 1, i \in P PROVE i + 1 \in P
  <2>1. PICK j \in 1 .. n : j = i + 1 /\ j - 1 = i
    OBVIOUS
  <2>2. f[j] = Enter(f[i], comps[j])
    BY <1>1, <1>3, <2>1 DEF Passes
  <2>3. f[i] = 0 => f[j] = 0
    BY <2>2, EnterFacts
  <2>4. ASSUME f[j] # 0 PROVE f[j] \in DOMAIN tree /\ Reachable(f[j])
    <3>1. f[i] \in DOMAIN tree /\ Reachable(f[i])
      BY <1>4, <1>6, <2>3, <2>4
    <3>2. comps[j] \in Token
      BY <1>1
    <3>3. PICK k \in DOMAIN tree : k = f[i] /\ Reachable(k)
      BY <3>1
    <3>4. Enter(k, comps[j]) # 0
      BY <2>2, <2>4, <3>3
    <3>5. Enter(k, comps[j]) \in DOMAIN tree /\ Reachable(Enter(k, comps[j]))
      BY <3>2, <3>3, <3>4, EnterReaches
    <3> QED BY <2>2, <3>3, <3>5
  <2> QED BY <1>4, <2>1, <2>4
<1>7. 0 .. n \subseteq P
  <2>1. 0 \in Int /\ n \in Int
    OBVIOUS
  <2> QED BY <1>5, <1>6, <2>1, Upwards
<1>8. n \in P
  BY <1>7
<1> QED BY <1>3, <1>4, <1>8

(* The nodes on the way up from such a node are named by components. *)
LEMMA ReachablePlain ==
  ASSUME TreeInv, NEW n \in DOMAIN tree, Reachable(n)
  PROVE  AncestorsPlain(n)
<1>1. PICK A \in SUBSET DOMAIN tree : n \in A /\ PlainUp(A)
  BY DEF Reachable
<1>2. PICK u : u = PathTo(n) /\ Descent(u, n)
  BY PathDescends
<1>3. PICK l \in Nat \ {0} : l = Len(u) /\ DOMAIN u = 1 .. l /\ \A i \in 1 .. l : u[i] \in DOMAIN tree
  BY <1>2, Lengths DEF Descent
<1>4. u[l] = n /\ \A i \in 1 .. l - 1 : tree[u[i + 1]].parent = u[i]
  BY <1>2, <1>3 DEF Descent
<1>5. PICK P : P = {k \in 0 .. l - 1 : u[l - k] \in A}
  OBVIOUS
<1>6. 0 \in P
  BY <1>1, <1>4, <1>5
<1>7. ASSUME NEW k \in 0 .. l - 1 - 1, k \in P PROVE k + 1 \in P
  <2>1. PICK i \in 1 .. l - 1 : i = l - (k + 1) /\ i + 1 = l - k
    OBVIOUS
  <2>2. i \in 1 .. l /\ i + 1 \in 1 .. l
    OBVIOUS
  <2>3. PICK m, d : m = u[i + 1] /\ d = u[i] /\ m \in A /\ d \in DOMAIN tree /\ tree[m].parent = d
    BY <1>3, <1>4, <1>5, <1>7, <2>1, <2>2
  <2>4. m # Root
    BY <2>3, TreeFacts
  <2>5. d \in A
    BY <1>1, <2>3, <2>4 DEF PlainUp
  <2> QED BY <1>5, <2>1, <2>3, <2>5
<1>8. 0 .. l - 1 \subseteq P
  <2>1. 0 \in Int /\ l - 1 \in Int
    OBVIOUS
  <2> QED BY <1>6, <1>7, <2>1, Upwards
<1>9. ASSUME NEW i \in 1 .. l PROVE Plain(u[i])
  <2>1. PICK k \in 0 .. l - 1 : k = l - i /\ l - k = i
    OBVIOUS
  <2>2. u[i] \in A
    BY <1>5, <1>8, <2>1
  <2> QED BY <1>1, <2>2 DEF PlainUp
<1> QED BY <1>2, <1>3, <1>9 DEF AncestorsPlain

(* The empty path stays where it is. *)
LEMMA NoTokens ==
  ASSUME TreeInv
  PROVE  Walk(<< >>, Root) = Root
<1>1. << >> \in Seq(Token) /\ Len(<< >>) = 0 /\ Root \in NodeOrNull
  BY TreeFacts DEF NodeOrNull
<1>2. PICK at \in [0 .. Len(<< >>) -> NodeOrNull] :
        Passes(at, << >>, Root) /\ Walk(<< >>, Root) = at[Len(<< >>)]
  BY <1>1, WalkPasses
<1> QED BY <1>1, <1>2 DEF Passes

(* The root is such a node. *)
LEMMA RootReachable ==
  ASSUME TreeInv
  PROVE  Reachable(Root)
<1>1. {Root} \in SUBSET DOMAIN tree /\ PlainUp({Root})
  BY TreeFacts DEF PlainUp, Plain
<1> QED BY <1>1 DEF Reachable

(* A path from the root that the shell has leads where it led. *)
LEMMA PathKept ==
  ASSUME TreeInv, TreeInv', Grown, NEW path \in PathForm, path.abs, NEW n \in DOMAIN tree,
         Resolve(path, Root) = n, cwdPath' = path
  PROVE  Resolve(cwdPath, Root)' = n
<1>1. path.comps \in Seq(Token) /\ Root \in DOMAIN tree /\ n # 0
  BY TreeFacts DEF PathForm, Token
<1>2. Walk(path.comps, Root) = n
  BY DEF Resolve
<1>3. Walk(path.comps, Root)' = n
  BY <1>1, <1>2, StableWalk
<1> QED BY <1>3 DEF Resolve

(* A node that paths lead to stays one. *)
LEMMA ReachableKept ==
  ASSUME TreeInv, TreeInv', Grown, NEW n \in DOMAIN tree, Reachable(n),
         n = Root \/ \A m \in DOMAIN tree : tree'[m] = tree[m]
  PROVE  \E A \in SUBSET DOMAIN tree' : n \in A /\ PlainUp(A)'
<1>1. DOMAIN tree \subseteq DOMAIN tree'
  <2>1. DOMAIN tree' = 1 .. Len(tree') /\ Len(tree') \in Nat
    BY Lengths DEF TreeInv, TreeTypes
  <2> QED BY <2>1, TreeFacts DEF Grown
<1>2. CASE n = Root
  <2>1. PlainUp({Root})'
    BY DEF PlainUp, Plain
  <2>2. {Root} \in SUBSET DOMAIN tree'
    BY <1>1, TreeFacts
  <2> QED BY <1>2, <2>1, <2>2
<1>3. CASE \A m \in DOMAIN tree : tree'[m] = tree[m]
  <2>1. PICK A \in SUBSET DOMAIN tree : n \in A /\ PlainUp(A)
    BY DEF Reachable
  <2>2. PlainUp(A)'
    BY <1>3, <2>1 DEF PlainUp, Plain
  <2> QED BY <1>1, <2>1, <2>2
<1> QED BY <1>2, <1>3

(* Every step of the tree and of the shell keeps what CwdInv says. *)
LEMMA CwdStep ==
  ASSUME TreeInv, CwdInv, [VfsNext]_vfsVars
  PROVE  CwdInv'
<1>1. /\ TreeInv' /\ Grown /\ (booted => booted')
      /\ booted => \A n \in DOMAIN tree : tree'[n] = tree[n]
  BY TreeStep
<1>2. cwd \in DOMAIN tree /\ Root \in DOMAIN tree /\ Reachable(Root)
  BY TreeFacts, RootReachable DEF TreeInv, TreeTypes
<1>3. ASSUME NEW n \in DOMAIN tree, NEW path \in PathForm, path.abs, Resolve(path, Root) = n,
             Reachable(n), cwdPath' = path, cwd' = n, n = Root \/ booted
      PROVE  CwdInv'
  <2>1. Resolve(cwdPath, Root)' = cwd'
    BY <1>1, <1>3, PathKept
  <2>2. \E A \in SUBSET DOMAIN tree' : n \in A /\ PlainUp(A)'
    BY <1>1, <1>3, ReachableKept
  <2>3. Reachable(cwd)'
    BY <1>3, <2>2 DEF Reachable
  <2>4. ~booted' => cwd' = Root
    BY <1>1, <1>3
  <2> QED BY <1>3, <2>1, <2>3, <2>4 DEF CwdInv
<1>4. CASE UNCHANGED <<cwd, cwdPath>>
  BY <1>2, <1>3, <1>4 DEF CwdInv
<1>5. CASE CdRoot
  <2>1. RootPath \in PathForm /\ RootPath.abs /\ Resolve(RootPath, Root) = Root
    <3>1. << >> \in Seq(Name \cup Dots)
      OBVIOUS
    <3> QED BY <3>1, NoTokens DEF RootPath, PathForm, Resolve
  <2> QED BY <1>2, <1>3, <1>5, <2>1 DEF CdRoot
<1>6. ASSUME NEW p \in Path, Cd(p) PROVE CwdInv'
  <2>1. PICK n : n = Resolve(p, cwd) /\ n # 0 /\ cwd' = n /\ cwdPath' = GetPath(n) /\ booted
    BY <1>6 DEF Cd
  <2>2. PICK start \in DOMAIN tree : start = (IF p.abs THEN Root ELSE cwd) /\ Reachable(start)
    BY <1>2 DEF CwdInv
  <2>3. p.comps \in Seq(Token) /\ n = Walk(p.comps, start)
    BY <2>1, <2>2, PathAssumption DEF PathForm, Token, Resolve
  <2>4. n \in DOMAIN tree /\ Reachable(n)
    BY <2>1, <2>2, <2>3, WalkReaches
  <2>5. Resolve(GetPath(n), cwd) = n /\ GetPath(n) \in PathForm /\ GetPath(n).abs
    BY <2>4, ReachablePlain, LeadsBack
  <2>6. Resolve(GetPath(n), Root) = n
    BY <2>5 DEF Resolve
  <2> QED BY <1>3, <2>1, <2>4, <2>5, <2>6
<1>7. CASE BootStep \/ \E p \in Path : Touch(p) \/ Mkdir(p)
  BY <1>4, <1>7 DEF BootStep, BootDir, WriteFile, Boot, Touch, Mkdir
<1>8. CASE UNCHANGED vfsVars
  BY <1>4, <1>8 DEF vfsVars
<1> QED BY <1>5, <1>6, <1>7, <1>8 DEF VfsNext, ShellStep

-----------------------------------------------------------------------------
(* Descriptors.                                                            *)

(* vfs_read_file: what it finds is the file that the path leads to. *)
LEMMA Found ==
  ASSUME TreeInv, NEW path \in PathForm, NEW start \in DOMAIN tree, NEW n, n = ReadFile(path, start)
  PROVE  /\ n # 0 => /\ n \in DOMAIN tree /\ Resolve(path, start) = n
                     /\ tree[n].kind = "FILE" /\ tree[n].size # NoData /\ tree[n].size \in 0 .. MaxSize
         /\ \A m \in DOMAIN tree :
              Resolve(path, start) = m /\ tree[m].kind = "FILE" /\ tree[m].size # NoData => n = m
<1>1. PICK r \in NodeOrNull : r = Resolve(path, start)
  BY Resolved
<1>2. ReadFile(path, start) = IF r # 0 /\ tree[r].kind = "FILE" /\ tree[r].size # NoData THEN r ELSE 0
  BY <1>1 DEF ReadFile
<1>3. r # 0 => r \in DOMAIN tree
  BY TreeFacts DEF NodeOrNull
<1>4. ASSUME NEW m \in DOMAIN tree, tree[m].size # NoData PROVE tree[m].size \in 0 .. MaxSize
  <2>1. tree[m] \in Node
    BY TreeFacts
  <2>2. tree[m].size \in NoData .. MaxSize
    BY <2>1 DEF Node
  <2> QED BY <1>4, <2>2, BoundAssumption DEF NoData
<1>5. \A m \in DOMAIN tree : m # 0
  BY TreeFacts
<1> QED BY <1>1, <1>2, <1>3, <1>4, <1>5

(* Standard input, output and error lead to no file. *)
LEMMA NoFile ==
  ASSUME TreeInv
  PROVE  ReadFile(NoPath, Root) = 0
<1>1. Resolve(NoPath, Root) = Root
  BY NoTokens DEF Resolve, NoPath
<1>2. tree[Root].kind # "FILE"
  BY TreeFacts
<1> QED BY <1>1, <1>2 DEF ReadFile

(* What holds of a descriptor goes on to hold while the tree grows, and while files
   are written that nobody has open. *)
LEMMA Steady ==
  ASSUME TreeInv, TreeInv', Grown, booted => \A n \in DOMAIN tree : tree'[n] = tree[n],
         NEW f, NEW h, NEW fd, Sound(f, h, fd), ~booted /\ fd >= FirstFd => ~f.used, fd \in Fd
  PROVE  Sound(f, h, fd)'
<1>1. DOMAIN tree \subseteq DOMAIN tree'
  <2>1. DOMAIN tree' = 1 .. Len(tree') /\ Len(tree') \in Nat
    BY Lengths DEF TreeInv, TreeTypes
  <2> QED BY <2>1, TreeFacts DEF Grown
<1>2. CASE fd < FirstFd
  BY <1>2 DEF Sound, ReadInv, StandardInv
<1>3. CASE ~(fd < FirstFd) /\ ~f.used
  BY <1>3 DEF Sound, ReadInv, OpenInv, NoHistory
<1>4. CASE ~(fd < FirstFd) /\ f.used
  <2>1. booted
    BY <1>4 DEF FirstFd, Fd
  <2>2. PICK m \in DOMAIN tree : /\ m = h.node /\ Resolve(f.path, Root) = m /\ tree'[m] = tree[m]
                                 /\ f.path \in Path
    BY <1>4, <2>1 DEF Sound, OpenInv
  <2>3. Resolve(f.path, Root)' = Resolve(f.path, Root)
    <3>1. f.path \in PathForm
      BY <2>2, PathAssumption
    <3>2. f.path.comps \in Seq(Token)
      BY <3>1 DEF PathForm, Token
    <3>3. Resolve(f.path, Root) = Walk(f.path.comps, Root) /\ Resolve(f.path, Root)' = Walk(f.path.comps, Root)'
      BY DEF Resolve
    <3>4. m # 0 /\ Root \in DOMAIN tree
      BY TreeFacts
    <3> QED BY <2>2, <3>2, <3>3, <3>4, StableWalk
  <2> QED BY <1>1, <1>4, <2>2, <2>3 DEF Sound, ReadInv, OpenInv
<1> QED BY <1>2, <1>3, <1>4

(* Bytes from of a file on. *)
Run(n, from, k) == [i \in 1 .. k |-> <<n, from + i - 1>>]

(* What a read copies: the next bytes of the file that was opened, as many as were
   asked for or are left; nothing only when none are left. *)
LEMMA CopiedFacts ==
  ASSUME IInv, NEW fd \in Fd, NEW len \in Nat \ {0},
         NEW f, f = fds[current][fd], NEW h, h = history[current][fd]
  PROVE  /\ Copied(fd, len) # << >> => /\ f.used /\ fd >= FirstFd
                                       /\ \E k \in 1 .. len : /\ Copied(fd, len) = Run(h.node, f.offset, k)
                                                              /\ f.offset + k <= tree[h.node].size
                                                              /\ k = len \/ f.offset + k = tree[h.node].size
         /\ Copied(fd, len) = << >> /\ f.used /\ fd >= FirstFd => f.offset >= tree[h.node].size
<1>1. f \in Descriptor /\ Sound(f, h, fd)
  BY DEF IInv, DescriptorInv, TaskInv
<1>2. f.offset \in Nat
  <2>1. \A o \in 0 .. MaxSize + MaxLen : o \in Nat
    BY BoundAssumption, FilesAssumption
  <2> QED BY <1>1, <2>1 DEF Descriptor
<1>3. PICK n : n = ReadFile(f.path, Root)
  OBVIOUS
<1>4. Copied(fd, len) = IF ~f.used \/ n = 0 \/ f.offset >= tree[n].size THEN << >>
                        ELSE Run(n, f.offset, Min({len, tree[n].size - f.offset}))
  BY <1>1, <1>3, Zenon DEF Copied, Run
<1>5. CASE fd < FirstFd
  <2>1. n = 0
    BY <1>1, <1>3, <1>5, NoFile DEF Sound, StandardInv, IInv
  <2> QED BY <1>1, <1>4, <1>5, <2>1 DEF Fd, FirstFd
<1>6. CASE ~(fd < FirstFd) /\ ~f.used
  BY <1>1, <1>4, <1>6
<1>7. CASE ~(fd < FirstFd) /\ f.used
  <2>1. OpenInv(f, h) /\ f.path \in PathForm
    BY <1>1, <1>7, PathAssumption DEF Sound, OpenInv
  <2>2. n = h.node /\ n # 0 /\ tree[n].size \in Nat
    <3>1. n = h.node
      BY <1>3, <1>7, <2>1, Found, TreeFacts DEF OpenInv, IInv
    <3>2. n # 0
      BY <1>7, <2>1, <3>1, TreeFacts DEF OpenInv, IInv
    <3>3. tree[n].size \in 0 .. MaxSize
      BY <1>3, <2>1, <3>2, Found, TreeFacts DEF IInv
    <3> QED BY <3>1, <3>2, <3>3, BoundAssumption
  <2>3. PICK size \in Nat : size = tree[n].size
    BY <2>2
  <2>4. CASE f.offset >= size
    BY <1>1, <1>4, <2>2, <2>3, <2>4
  <2>5. CASE ~(f.offset >= size)
    <3>1. PICK k \in 1 .. len : /\ k = Min({len, size - f.offset}) /\ f.offset + k <= size
                                /\ k = len \/ f.offset + k = size
      <4>1. size - f.offset \in Int /\ size - f.offset >= 1
        BY <1>2, <2>5
      <4>2. PICK left \in Nat \ {0} : left = size - f.offset
        BY <4>1
      <4>3. Min({len, left}) = IF len <= left THEN len ELSE left
        <5>1. len \in Int /\ left \in Int
          OBVIOUS
        <5> QED BY <5>1, OfTwo
      <4> QED BY <1>2, <4>2, <4>3
    <3>2. Copied(fd, len) = Run(n, f.offset, k)
      BY <1>4, <1>7, <2>2, <2>3, <2>5, <3>1
    <3>3. Run(n, f.offset, k) # << >>
      BY <3>1 DEF Run
    <3>4. fd >= FirstFd
      BY <1>7 DEF Fd, FirstFd
    <3>5. Copied(fd, len) # << >> /\ Copied(fd, len) = Run(h.node, f.offset, k)
          /\ f.offset + k <= tree[h.node].size /\ (k = len \/ f.offset + k = tree[h.node].size)
      BY <2>2, <2>3, <3>1, <3>2, <3>3
    <3> QED BY <1>7, <3>1, <3>4, <3>5
  <2> QED BY <2>4, <2>5
<1> QED BY <1>5, <1>6, <1>7

(* Reading on: the bytes are one run again. *)
LEMMA RunOn ==
  ASSUME NEW b \in Seq(Byte), NEW n \in 1 .. MaxNode, NEW from \in Nat, NEW k \in Nat,
         InOrder(b, n, from), from + Len(b) + k <= MaxSize + 1,
         NEW c, c = b \o Run(n, from + Len(b), k)
  PROVE  /\ c \in Seq(Byte) /\ Len(c) = Len(b) + k
         /\ InOrder(c, n, from)
<1>1. PICK l \in Nat : l = Len(b) /\ DOMAIN b = 1 .. l
  BY Lengths
<1>2. PICK r : r = Run(n, from + l, k)
  OBVIOUS
<1>3. \A i \in 1 .. k : r[i] = <<n, from + l + i - 1>> /\ r[i] \in Byte
  <2> SUFFICES ASSUME NEW i \in 1 .. k PROVE r[i] = <<n, from + l + i - 1>> /\ r[i] \in Byte
    OBVIOUS
  <2>1. PICK x : x = from + l + i - 1
    OBVIOUS
  <2>2. x \in 0 .. MaxSize
    BY <1>1, <2>1, BoundAssumption
  <2>3. r[i] = <<n, x>>
    BY <1>2, <2>1 DEF Run
  <2> QED BY <2>1, <2>2, <2>3 DEF Byte
<1>4. r \in Seq(Byte) /\ Len(r) = k
  <2>1. r = [i \in 1 .. k |-> r[i]]
    BY <1>2 DEF Run
  <2>2. [i \in 1 .. k |-> r[i]] \in Seq(Byte) /\ Len([i \in 1 .. k |-> r[i]]) = k
    BY <1>3
  <2> QED BY <2>1, <2>2
<1>5. c = b \o r
  BY <1>1, <1>2
<1>6. c \in Seq(Byte) /\ Len(c) = l + k /\ \A i \in 1 .. l + k : c[i] = IF i <= l THEN b[i] ELSE r[i - l]
  <2>1. /\ b \o r \in Seq(Byte) /\ Len(b \o r) = Len(b) + Len(r)
        /\ \A i \in 1 .. Len(b) + Len(r) : (b \o r)[i] = IF i <= Len(b) THEN b[i] ELSE r[i - Len(b)]
    BY <1>4, ConcatProperties, Zenon
  <2> QED BY <1>1, <1>4, <1>5, <2>1
<1>7. \A i \in 1 .. l + k : c[i] = <<n, from + i - 1>>
  <2> SUFFICES ASSUME NEW i \in 1 .. l + k PROVE c[i] = <<n, from + i - 1>>
    OBVIOUS
  <2>1. CASE i <= l
    <3>1. i \in DOMAIN b
      BY <1>1, <2>1
    <3>2. b[i] = <<n, from + i - 1>>
      BY <3>1 DEF InOrder
    <3> QED BY <1>6, <2>1, <3>2
  <2>2. CASE ~(i <= l)
    <3>1. i - l \in 1 .. k /\ from + l + (i - l) - 1 = from + i - 1
      BY <2>2
    <3> QED BY <1>3, <1>6, <2>2, <3>1
  <2> QED BY <2>1, <2>2
<1>8. DOMAIN c = 1 .. l + k /\ c = [i \in DOMAIN c |-> c[i]]
  BY <1>6
<1>9. InOrder(c, n, from)
  BY <1>7, <1>8 DEF InOrder
<1> QED BY <1>1, <1>2, <1>5, <1>6, <1>9

-----------------------------------------------------------------------------
(* The steps.                                                              *)

(* vfs_init, process_init_fds. *)
LEMMA Initially == Init => IInv
<1> SUFFICES ASSUME Init PROVE IInv
  OBVIOUS
<1>1. PICK root : root = NewNode([base |-> "", slash |-> FALSE], "DIR", 0, NoData)
  OBVIOUS
<1>2. root \in Node /\ root.parent = 0 /\ root.kind = "DIR"
  <2>1. PICK name : name = [base |-> "", slash |-> FALSE]
    OBVIOUS
  <2>2. name \in NodeName
    BY <2>1 DEF NodeName
  <2>3. 0 \in 0 .. MaxNode /\ NoData \in NoData .. MaxSize
    BY BoundAssumption DEF NoData
  <2>4. root = [name |-> name, kind |-> "DIR", parent |-> 0, size |-> NoData]
    BY <1>1, <2>1 DEF NewNode
  <2> QED BY <2>2, <2>3, <2>4 DEF Node
<1>3. tree \in Seq(Node) /\ Len(tree) = 1 /\ DOMAIN tree = 1 .. 1 /\ tree[1] = root
  <2>1. tree = << root >>
    BY <1>1, Zenon DEF Init, VfsInit
  <2>2. << root >> \in Seq(Node) /\ Len(<< root >>) = 1 /\ DOMAIN << root >> = 1 .. 1 /\ << root >>[1] = root
    BY <1>2
  <2> QED BY <2>1, <2>2
<1>4. TreeTypes
  <2>1. 1 \in 1 .. MaxNode /\ 1 \in 1 .. 1
    BY BoundAssumption
  <2> QED BY <1>3, <2>1 DEF Init, VfsInit, TreeTypes, Root
<1>5. TreeInv
  <2>1. \A n \in 2 .. 1 : FALSE
    OBVIOUS
  <2>2. \A m, n \in 1 .. 1 : m = n
    OBVIOUS
  <2> QED BY <1>2, <1>3, <1>4, <2>1, <2>2 DEF TreeInv, Root
<1>6. \A fd \in Fd : /\ InitFds[fd] = [used |-> fd < FirstFd, path |-> NoPath, offset |-> 0]
                     /\ InitFds[fd] \in Descriptor
  <2> SUFFICES ASSUME NEW fd \in Fd
               PROVE  /\ InitFds[fd] = [used |-> fd < FirstFd, path |-> NoPath, offset |-> 0]
                      /\ InitFds[fd] \in Descriptor
    OBVIOUS
  <2>1. 0 \in 0 .. MaxSize + MaxLen
    BY BoundAssumption, FilesAssumption
  <2>2. PICK u \in BOOLEAN : u <=> fd < FirstFd
    <3>1. CASE fd < FirstFd
      BY <3>1
    <3>2. CASE ~(fd < FirstFd)
      BY <3>2
    <3> QED BY <3>1, <3>2
  <2>3. InitFds[fd] = [Closed EXCEPT !.used = u] /\ u = (fd < FirstFd)
    BY <2>2 DEF InitFds
  <2>4. [Closed EXCEPT !.used = u] = [used |-> u, path |-> NoPath, offset |-> 0]
    BY DEF Closed
  <2>5. [used |-> u, path |-> NoPath, offset |-> 0] \in Descriptor
    BY <2>1 DEF Descriptor
  <2> QED BY <2>2, <2>3, <2>4, <2>5
<1>7. NoHistory \in History
  BY BoundAssumption, FilesAssumption DEF NoHistory, History
<1>8. fds \in [Task -> [Fd -> Descriptor]] /\ history \in [Task -> [Fd -> History]]
  <2>1. InitFds \in [Fd -> Descriptor]
    <3>1. PICK g : g = [fd \in Fd |-> InitFds[fd]]
      OBVIOUS
    <3>2. g = InitFds
      BY <3>1 DEF InitFds
    <3>3. g \in [Fd -> Descriptor]
      BY <1>6, <3>1
    <3> QED BY <3>2, <3>3
  <2> QED BY <1>7, <2>1 DEF Init
<1>9. ASSUME NEW t \in Task, NEW fd \in Fd PROVE Sound(fds[t][fd], history[t][fd], fd)
  <2>1. PICK f : f = [used |-> fd < FirstFd, path |-> NoPath, offset |-> 0]
    OBVIOUS
  <2>2. fds[t][fd] = f /\ history[t][fd] = NoHistory
    BY <1>6, <2>1 DEF Init
  <2>3. NoHistory.bytes = << >> /\ NoHistory.from = 0 /\ Len(<< >>) = 0
    BY DEF NoHistory
  <2>4. f.used = (fd < FirstFd) /\ f.path = NoPath /\ f.offset = 0
    BY <2>1
  <2>5. InOrder(<< >>, NoHistory.node, 0)
    BY DEF InOrder
  <2>6. ReadInv(f, NoHistory)
    BY <2>3, <2>4, <2>5 DEF ReadInv
  <2>7. fd < FirstFd => StandardInv(f, NoHistory)
    BY <2>3, <2>4 DEF StandardInv
  <2>8. ~(fd < FirstFd) => OpenInv(f, NoHistory)
    BY <2>4 DEF OpenInv
  <2> QED BY <2>2, <2>6, <2>7, <2>8 DEF Sound
<1>10. TaskInv
  <2>1. \A t \in Task, fd \in FirstFd .. MaxFd : ~fds[t][fd].used
    <3> SUFFICES ASSUME NEW t \in Task, NEW fd \in FirstFd .. MaxFd PROVE ~fds[t][fd].used
      OBVIOUS
    <3>1. fd \in Fd /\ ~(fd < FirstFd)
      BY DEF Fd, FirstFd
    <3>2. fds[t][fd] = [used |-> fd < FirstFd, path |-> NoPath, offset |-> 0]
      BY <1>6, <3>1 DEF Init
    <3>3. fds[t][fd].used = (fd < FirstFd)
      BY <3>2
    <3> QED BY <3>1, <3>3, Zenon
  <2>2. 0 \in 0 .. MaxReads
    BY FilesAssumption
  <2> QED BY <2>1, <2>2 DEF Init, VfsInit, TaskInv, Task
<1>11. CwdInv
  <2>1. cwdPath = RootPath /\ cwd = Root
    BY DEF Init, VfsInit
  <2>2. << >> \in Seq(Name \cup Dots)
    OBVIOUS
  <2>3. RootPath \in PathForm /\ RootPath.abs /\ Resolve(RootPath, Root) = Root
    BY <1>5, <2>2, NoTokens DEF RootPath, PathForm, Resolve
  <2> QED BY <1>5, <2>1, <2>3, RootReachable DEF CwdInv
<1> QED BY <1>5, <1>8, <1>9, <1>10, <1>11 DEF IInv, DescriptorInv

(* The current task's descriptor fd becomes f, with the history h. *)
Becomes(fd, f, h) == /\ fds' = [fds EXCEPT ![current][fd] = f]
                     /\ history' = [history EXCEPT ![current][fd] = h]

(* What a descriptor step must keep. *)
LEMMA DescriptorStep ==
  ASSUME IInv, UNCHANGED vfsVars, booted, NEW fd \in Fd, NEW f \in Descriptor, NEW h \in History,
         Becomes(fd, f, h), Sound(f, h, fd)
  PROVE  /\ TreeInv' /\ DescriptorInv'
         /\ \A t \in Task, d \in Fd : /\ fds'[t][d] = IF t = current /\ d = fd THEN f ELSE fds[t][d]
                                      /\ history'[t][d] = IF t = current /\ d = fd THEN h ELSE history[t][d]
<1>1. TreeInv' /\ Grown /\ UNCHANGED <<tree, booted>>
  <2>1. UNCHANGED <<tree, booted, cwd>>
    BY DEF vfsVars
  <2>2. booted' \in BOOLEAN /\ cwd' \in DOMAIN tree
    BY <2>1 DEF IInv, TreeInv, TreeTypes
  <2> QED BY <2>1, <2>2, SameTree DEF IInv
<1>2. fds \in [Task -> [Fd -> Descriptor]] /\ history \in [Task -> [Fd -> History]] /\ current \in Task
  BY DEF IInv, DescriptorInv, TaskInv
<1>3. \A t \in Task, d \in Fd : /\ fds'[t][d] = IF t = current /\ d = fd THEN f ELSE fds[t][d]
                                /\ history'[t][d] = IF t = current /\ d = fd THEN h ELSE history[t][d]
  BY <1>2 DEF Becomes
<1>4. fds' \in [Task -> [Fd -> Descriptor]] /\ history' \in [Task -> [Fd -> History]]
  BY <1>2 DEF Becomes
<1>5. ASSUME NEW t \in Task, NEW d \in Fd PROVE Sound(fds[t][d], history[t][d], d)' 
  <2>1. PICK x, y : x = fds'[t][d] /\ y = history'[t][d] /\ Sound(x, y, d)
    BY <1>3 DEF IInv, DescriptorInv
  <2>2. Sound(x, y, d)'
    BY <1>1, <2>1, Steady DEF IInv
  <2> QED BY <2>1, <2>2 DEF Sound, ReadInv, StandardInv, OpenInv
<1> QED BY <1>1, <1>3, <1>4, <1>5 DEF DescriptorInv

(* sys_open_impl, sys_read_impl, sys_close_impl and sys_lseek_impl, whoever calls them. *)
LEMMA OpenStep ==
  ASSUME IInv, UNCHANGED vfsVars, booted, NEW fd \in Fd, NEW path \in Path, SysOpen(fd, path)
  PROVE  /\ TreeInv' /\ DescriptorInv' /\ fd \in FirstFd .. MaxFd
         /\ fds'[current][fd].used /\ history'[current][fd].from = 0
<1>1. PICK f, h : /\ f = [used |-> TRUE, path |-> path, offset |-> 0]
                  /\ h = [node |-> Opened(path), from |-> 0, bytes |-> << >>]
  OBVIOUS
<1>2. h = [NoHistory EXCEPT !.node = Opened(path)]
  BY <1>1 DEF NoHistory
<1>3. Becomes(fd, f, h) /\ Opened(path) # 0 /\ fd \in FirstFd .. MaxFd
  BY <1>1, <1>2 DEF SysOpen, Becomes
<1>4. PICK n : n = ReadFile(path, Root) /\ n # 0 /\ h.node = n
  BY <1>1, <1>3 DEF Opened
<1>5. n \in DOMAIN tree /\ Resolve(path, Root) = n /\ tree[n].kind = "FILE" /\ tree[n].size # NoData
  BY <1>4, PathAssumption, TreeFacts, Found DEF IInv
<1>6. f \in Descriptor /\ h \in History
  <2>1. n \in 0 .. MaxNode /\ 0 \in 0 .. MaxSize + MaxLen /\ 0 \in 0 .. MaxLen
    BY <1>5, TreeFacts, BoundAssumption, FilesAssumption DEF IInv, TreeInv, TreeTypes
  <2>2. << >> \in Seq(Byte)
    OBVIOUS
  <2> QED BY <1>1, <1>4, <2>1, <2>2 DEF Descriptor, History
<1>7. Sound(f, h, fd)
  <2>1. ReadInv(f, h)
    BY <1>1 DEF ReadInv, InOrder
  <2>2. OpenInv(f, h)
    BY <1>1, <1>4, <1>5 DEF OpenInv
  <2>3. ~(fd < FirstFd)
    BY <1>3 DEF FirstFd
  <2> QED BY <2>1, <2>2, <2>3 DEF Sound
<1>8. current \in Task
  BY DEF IInv, TaskInv
<1>9. DescriptorInv' /\ TreeInv' /\ fds'[current][fd] = f /\ history'[current][fd] = h
  BY <1>3, <1>6, <1>7, <1>8, DescriptorStep
<1> QED BY <1>1, <1>3, <1>9

(* sys_close_impl leaves a descriptor that is not open. *)
LEMMA CloseStep ==
  ASSUME IInv, UNCHANGED vfsVars, booted, NEW fd \in Fd, SysClose(fd)
  PROVE  TreeInv' /\ DescriptorInv' /\ ~fds'[current][fd].used
<1>1. Closed \in Descriptor /\ NoHistory \in History
  <2>1. 0 \in 0 .. MaxSize + MaxLen /\ 0 \in 0 .. MaxLen /\ 0 \in 0 .. MaxNode
    BY BoundAssumption, FilesAssumption
  <2> QED BY <2>1 DEF Closed, NoHistory, Descriptor, History
<1>2. Sound(Closed, NoHistory, fd)
  <2>1. ~Closed.used /\ NoHistory.bytes = << >> /\ InOrder(<< >>, NoHistory.node, NoHistory.from)
    BY DEF Closed, NoHistory, InOrder
  <2>2. ~(fd < FirstFd)
    BY DEF SysClose, Fd, FirstFd
  <2> QED BY <2>1, <2>2 DEF Sound, ReadInv, OpenInv
<1>3. current \in Task /\ ~Closed.used
  BY DEF IInv, TaskInv, Closed
<1>4. Becomes(fd, Closed, NoHistory)
  BY DEF SysClose, Becomes
<1>5. DescriptorInv' /\ TreeInv' /\ fds'[current][fd] = Closed
  BY <1>1, <1>2, <1>3, <1>4, DescriptorStep
<1> QED BY <1>3, <1>5

(* sys_read_impl moves on by what it copied, as much as was asked for or what was left. *)
LEMMA ReadStep ==
  ASSUME IInv, UNCHANGED vfsVars, booted, NEW fd \in Fd, NEW len \in Nat \ {0}, SysRead(fd, len)
  PROVE  /\ TreeInv' /\ DescriptorInv'
         /\ fds'[current][fd].used /\ history'[current][fd].from = history[current][fd].from
         /\ history'[current][fd].node = history[current][fd].node
         /\ \E k \in 1 .. len :
              /\ Len(history'[current][fd].bytes) = Len(history[current][fd].bytes) + k
              /\ k = len \/ fds'[current][fd].offset = tree[history[current][fd].node].size
<1>1. PICK f, h : /\ f = fds[current][fd] /\ h = history[current][fd] /\ Sound(f, h, fd)
                  /\ f \in Descriptor /\ h \in History
  BY DEF IInv, DescriptorInv, TaskInv
<1>2. PICK c : c = Copied(fd, len) /\ c # << >>
  BY DEF SysRead
<1>3. PICK k \in 1 .. len : /\ c = Run(h.node, f.offset, k) /\ f.offset + k <= tree[h.node].size
                            /\ k = len \/ f.offset + k = tree[h.node].size
  BY <1>1, <1>2, CopiedFacts
<1>4. f.used /\ ~(fd < FirstFd) /\ OpenInv(f, h) /\ ReadInv(f, h)
  <2>1. f.used /\ fd >= FirstFd
    BY <1>1, <1>2, CopiedFacts
  <2> QED BY <1>1, <2>1 DEF Sound, Fd, FirstFd
<1>5. PICK n \in 1 .. MaxNode : n = h.node /\ tree[n].size \in 0 .. MaxSize
  <2>1. PICK m \in DOMAIN tree : m = h.node /\ tree[m].size # NoData
    BY <1>4 DEF OpenInv
  <2>2. m \in 1 .. MaxNode
    <3>1. Len(tree) \in 1 .. MaxNode
      BY DEF IInv, TreeInv, TreeTypes
    <3> QED BY <3>1, TreeFacts, BoundAssumption DEF IInv
  <2>3. tree[m] \in Node
    BY TreeFacts DEF IInv
  <2>4. tree[m].size \in NoData .. MaxSize
    BY <2>3 DEF Node
  <2> QED BY <2>1, <2>2, <2>4, BoundAssumption DEF NoData
<1>6. PICK from \in Nat : from = h.from
  BY <1>1, FilesAssumption DEF History
<1>7. PICK b \in Seq(Byte) : b = h.bytes
  BY <1>1 DEF History
<1>8. Len(b) \in Nat /\ f.offset = from + Len(b) /\ from + Len(b) + k <= MaxSize
  <2>1. Len(b) \in Nat
    BY <1>7, Lengths
  <2>2. f.offset = from + Len(b)
    BY <1>4, <1>6, <1>7 DEF ReadInv
  <2>3. f.offset + k <= tree[n].size
    BY <1>3, <1>5
  <2>4. PICK size \in 0 .. MaxSize : size = tree[n].size
    BY <1>5
  <2> QED BY <2>1, <2>2, <2>3, <2>4, BoundAssumption
<1>9. PICK d : d = b \o c
  OBVIOUS
<1>10. d \in Seq(Byte) /\ Len(d) = Len(b) + k /\ InOrder(d, n, from)
  <2>1. c = Run(n, from + Len(b), k) /\ k \in Nat
    BY <1>3, <1>5, <1>8
  <2>2. InOrder(b, n, from)
    BY <1>4, <1>5, <1>6, <1>7 DEF ReadInv
  <2>3. from + Len(b) + k <= MaxSize + 1
    BY <1>8, BoundAssumption
  <2>4. d = b \o Run(n, from + Len(b), k)
    BY <1>9, <2>1
  <2>5. \A j \in Nat : InOrder(b, n, from) /\ from + Len(b) + j <= MaxSize + 1 =>
          \A x : x = b \o Run(n, from + Len(b), j) => x \in Seq(Byte) /\ Len(x) = Len(b) + j /\ InOrder(x, n, from)
    BY RunOn
  <2> QED BY <2>1, <2>2, <2>3, <2>4, <2>5
<1>11. PICK f2 : f2 = [f EXCEPT !.offset = @ + k]
  OBVIOUS
<1>12. PICK h2 : h2 = [h EXCEPT !.bytes = d]
  OBVIOUS
<1>13. f2 \in Descriptor /\ f2.offset = from + Len(d) /\ f2.used /\ f2.path = f.path
       /\ f2.offset <= tree[n].size
  <2>1. f.offset + k \in 0 .. MaxSize + MaxLen /\ f.offset + k = from + Len(d)
    BY <1>8, <1>10, BoundAssumption, FilesAssumption
  <2> QED BY <1>1, <1>3, <1>4, <1>5, <1>11, <2>1 DEF Descriptor
<1>14. h2 \in History /\ h2.bytes = d /\ h2.from = from /\ h2.node = n
  BY <1>1, <1>5, <1>6, <1>10, <1>12 DEF History
<1>15. Becomes(fd, f2, h2)
  <2>1. Len(c) = k
    BY <1>3 DEF Run
  <2>2. f2 = [fds[current][fd] EXCEPT !.offset = @ + Len(Copied(fd, len))]
    BY <1>1, <1>2, <1>11, <2>1
  <2>3. h2 = [history[current][fd] EXCEPT !.bytes = @ \o Copied(fd, len)]
    BY <1>1, <1>2, <1>7, <1>9, <1>12
  <2> QED BY <2>2, <2>3 DEF SysRead, Becomes
<1>16. Sound(f2, h2, fd)
  <2>1. ReadInv(f2, h2)
    BY <1>5, <1>10, <1>13, <1>14 DEF ReadInv
  <2>2. OpenInv(f2, h2)
    BY <1>4, <1>5, <1>13, <1>14 DEF OpenInv
  <2> QED BY <1>4, <2>1, <2>2 DEF Sound
<1>17. current \in Task
  BY DEF IInv, TaskInv
<1>18. DescriptorInv' /\ TreeInv' /\ fds'[current][fd] = f2 /\ history'[current][fd] = h2
  BY <1>13, <1>14, <1>15, <1>16, <1>17, DescriptorStep
<1>19. k = len \/ f2.offset = tree[n].size
  <2>1. f2.offset = f.offset + k
    BY <1>8, <1>10, <1>13
  <2> QED BY <1>3, <1>5, <2>1
<1> QED BY <1>1, <1>5, <1>6, <1>7, <1>10, <1>13, <1>14, <1>18, <1>19

(* sys_lseek_impl: reading starts over from there. *)
LEMMA LseekStep ==
  ASSUME IInv, UNCHANGED vfsVars, booted, NEW fd \in Fd, NEW off \in 0 .. MaxLen, SysLseek(fd, off)
  PROVE  TreeInv' /\ DescriptorInv'
<1>1. PICK f, h : /\ f = fds[current][fd] /\ h = history[current][fd] /\ Sound(f, h, fd)
                  /\ f \in Descriptor /\ h \in History /\ f.used
  BY DEF IInv, DescriptorInv, TaskInv, SysLseek
<1>2. PICK f2 : f2 = [f EXCEPT !.offset = off]
  OBVIOUS
<1>3. PICK h2 : h2 = [h EXCEPT !.from = off, !.bytes = << >>]
  OBVIOUS
<1>4. f2 \in Descriptor /\ f2.offset = off /\ f2.used /\ f2.path = f.path
  <2>1. off \in 0 .. MaxSize + MaxLen
    BY BoundAssumption, FilesAssumption
  <2> QED BY <1>1, <1>2, <2>1 DEF Descriptor
<1>5. h2 \in History /\ h2.bytes = << >> /\ h2.from = off /\ h2.node = h.node
  <2>1. << >> \in Seq(Byte)
    OBVIOUS
  <2> QED BY <1>1, <1>3, <2>1 DEF History
<1>6. Becomes(fd, f2, h2)
  <2>1. fds' = [fds EXCEPT ![current][fd] = f2]
    BY <1>1, <1>2 DEF SysLseek
  <2>2. history' = [history EXCEPT ![current][fd] = h2]
    <3>1. history \in [Task -> [Fd -> History]] /\ current \in Task
      BY DEF IInv, DescriptorInv, TaskInv
    <3>2. history' = [history EXCEPT ![current][fd].from = off, ![current][fd].bytes = << >>]
      BY DEF SysLseek
    <3> QED BY <1>1, <1>3, <3>1, <3>2
  <2> QED BY <2>1, <2>2 DEF Becomes
<1>7. Sound(f2, h2, fd)
  <2>1. ReadInv(f2, h2)
    <3>1. off + Len(<< >>) = off /\ InOrder(<< >>, h.node, off)
      BY DEF InOrder
    <3> QED BY <1>4, <1>5, <3>1 DEF ReadInv
  <2>2. fd < FirstFd => StandardInv(f2, h2)
    BY <1>1, <1>4, <1>5 DEF Sound, StandardInv
  <2>3. ~(fd < FirstFd) => OpenInv(f2, h2)
    BY <1>1, <1>4, <1>5 DEF Sound, OpenInv
  <2> QED BY <2>1, <2>2, <2>3 DEF Sound
<1> QED BY <1>4, <1>5, <1>6, <1>7, DescriptorStep

(* A step of the tree that leaves the descriptors alone. *)
LEMMA VfsStep ==
  ASSUME IInv, [VfsNext]_vfsVars, UNCHANGED <<fds, history>>
  PROVE  TreeInv' /\ DescriptorInv' /\ (booted => booted')
<1>1. /\ TreeInv' /\ Grown /\ (booted => booted')
      /\ booted => \A n \in DOMAIN tree : tree'[n] = tree[n]
  BY TreeStep DEF IInv
<1>2. ASSUME NEW t \in Task, NEW fd \in Fd PROVE Sound(fds[t][fd], history[t][fd], fd)'
  <2>1. PICK f, h : f = fds[t][fd] /\ h = history[t][fd] /\ Sound(f, h, fd)
    BY DEF IInv, DescriptorInv
  <2>2. ~booted /\ fd >= FirstFd => ~f.used
    <3>1. fd >= FirstFd => fd \in FirstFd .. MaxFd
      BY DEF Fd, FirstFd
    <3> QED BY <2>1, <3>1 DEF IInv, TaskInv
  <2>3. Sound(f, h, fd)'
    BY <1>1, <2>1, <2>2, Steady DEF IInv
  <2> QED BY <2>1, <2>3 DEF Sound, ReadInv, StandardInv, OpenInv
<1>3. fds' \in [Task -> [Fd -> Descriptor]] /\ history' \in [Task -> [Fd -> History]]
  BY DEF IInv, DescriptorInv
<1> QED BY <1>1, <1>2, <1>3 DEF DescriptorInv

(* cat reads a descriptor of the kernel's task, once the shell is there. *)
LEMMA Reading ==
  ASSUME IInv, cat # 0
  PROVE  /\ booted /\ current = KernelIo /\ cat \in Fd /\ cat \in FirstFd .. MaxFd
         /\ fds[KernelIo][cat].used /\ history[KernelIo][cat].from = 0
BY DEF IInv, TaskInv, Fd, FirstFd

(* The descriptors' steps do not move the shell. *)
LEMMA CwdStays == IInv /\ UNCHANGED vfsVars => CwdInv'
BY CwdStep DEF IInv

(* Every step keeps the invariant. *)
LEMMA Inductive == IInv /\ [Next]_vars => IInv'
<1> SUFFICES ASSUME IInv, [Next]_vars PROVE IInv'
  OBVIOUS
<1>1. CASE [BootStep \/ ShellStep]_vfsVars /\ UNCHANGED fileVars
  <2>1. TreeInv' /\ DescriptorInv' /\ (booted => booted')
    BY <1>1, VfsStep DEF VfsNext, fileVars
  <2>2. CwdInv'
    BY <1>1, CwdStep DEF IInv, VfsNext
  <2>3. TaskInv'
    BY <1>1, <2>1 DEF IInv, TaskInv, fileVars
  <2> QED BY <2>1, <2>2, <2>3 DEF IInv
<1>2. ASSUME NEW path \in Path, CatOpen(path) PROVE IInv'
  <2>1. PICK fd \in Fd : SysOpen(fd, path) /\ cat' = fd /\ memory' \in 0 .. MaxReads
    BY <1>2 DEF CatOpen
  <2>2. booted /\ current = KernelIo /\ UNCHANGED vfsVars /\ UNCHANGED current /\ UNCHANGED booted
    BY <1>2 DEF CatOpen, ShellIdle, vfsVars
  <2>3. /\ TreeInv' /\ DescriptorInv' /\ fd \in FirstFd .. MaxFd
        /\ fds'[current][fd].used /\ history'[current][fd].from = 0
    BY <2>1, <2>2, OpenStep
  <2>4. TaskInv'
    BY <2>1, <2>2, <2>3 DEF TaskInv, Task
  <2> QED BY <2>2, <2>3, <2>4, CwdStays DEF IInv
<1>3. CASE CatRead
  <2>1. /\ cat # 0 /\ SysRead(cat, Chunk) /\ UNCHANGED vfsVars /\ UNCHANGED <<booted, current, cat>>
        /\ memory > 0 /\ memory' = memory - 1
    BY <1>3 DEF CatRead, vfsVars
  <2>2. Chunk \in Nat \ {0}
    BY FilesAssumption
  <2>3. /\ TreeInv' /\ DescriptorInv'
        /\ fds'[current][cat].used /\ history'[current][cat].from = history[current][cat].from
    BY <2>1, <2>2, Reading, ReadStep
  <2>4. memory' \in 0 .. MaxReads
    BY <2>1, FilesAssumption DEF IInv, TaskInv
  <2>5. TaskInv'
    BY <2>1, <2>3, <2>4, Reading DEF TaskInv, Task
  <2> QED BY <2>1, <2>3, <2>5, CwdStays DEF IInv
<1>4. CASE CatClose
  <2>1. cat # 0 /\ SysClose(cat) /\ cat' = 0 /\ memory' = 0 /\ UNCHANGED vfsVars /\ UNCHANGED <<booted, current>>
    BY <1>4 DEF CatClose, vfsVars
  <2>2. TreeInv' /\ DescriptorInv'
    BY <2>1, Reading, CloseStep
  <2>3. TaskInv'
    <3>1. 0 \in 0 .. MaxReads
      BY FilesAssumption
    <3> QED BY <2>1, <3>1, Reading DEF TaskInv, Task
  <2> QED BY <2>1, <2>2, <2>3, CwdStays DEF IInv
<1>5. ASSUME NEW p \in Process, RunProcess(p) PROVE IInv'
  <2>1. booted /\ cat = 0 /\ current' = p /\ UNCHANGED vfsVars /\ UNCHANGED <<booted, fds, cat, memory, history>>
    BY <1>5 DEF RunProcess, vfsVars
  <2>2. TreeInv' /\ DescriptorInv'
    BY <2>1, VfsStep
  <2>3. TaskInv'
    BY <2>1 DEF IInv, TaskInv, Task
  <2> QED BY <2>1, <2>2, <2>3, CwdStays DEF IInv
<1>6. CASE ProcessCall
  <2>1. /\ current \in Process /\ UNCHANGED vfsVars /\ UNCHANGED <<booted, current, cat, memory>>
        /\ \E fd \in Fd : \/ \E path \in Path : SysOpen(fd, path)
                          \/ \E len \in 1 .. MaxLen : SysRead(fd, len)
                          \/ SysClose(fd)
                          \/ \E off \in 0 .. MaxLen : SysLseek(fd, off)
    BY <1>6 DEF ProcessCall, vfsVars
  <2>2. booted /\ cat = 0
    BY <2>1, FilesAssumption DEF IInv, TaskInv
  <2>3. TreeInv' /\ DescriptorInv'
    <3>1. PICK fd \in Fd : \/ \E path \in Path : SysOpen(fd, path)
                           \/ \E len \in 1 .. MaxLen : SysRead(fd, len)
                           \/ SysClose(fd)
                           \/ \E off \in 0 .. MaxLen : SysLseek(fd, off)
      BY <2>1
    <3>2. ASSUME NEW path \in Path, SysOpen(fd, path) PROVE TreeInv' /\ DescriptorInv'
      BY <2>1, <2>2, <3>2, OpenStep
    <3>3. ASSUME NEW len \in 1 .. MaxLen, SysRead(fd, len) PROVE TreeInv' /\ DescriptorInv'
      <4>1. len \in Nat \ {0}
        BY FilesAssumption
      <4> QED BY <2>1, <2>2, <3>3, <4>1, ReadStep
    <3>4. ASSUME SysClose(fd) PROVE TreeInv' /\ DescriptorInv'
      BY <2>1, <2>2, <3>4, CloseStep
    <3>5. ASSUME NEW off \in 0 .. MaxLen, SysLseek(fd, off) PROVE TreeInv' /\ DescriptorInv'
      BY <2>1, <2>2, <3>5, LseekStep
    <3> QED BY <3>1, <3>2, <3>3, <3>4, <3>5
  <2>4. TaskInv'
    BY <2>1, <2>2 DEF IInv, TaskInv
  <2> QED BY <2>1, <2>3, <2>4, CwdStays DEF IInv
<1> QED BY <1>1, <1>2, <1>3, <1>4, <1>5, <1>6 DEF Next, vars, vfsVars

-----------------------------------------------------------------------------
(* The theorems.                                                           *)

(* The invariant holds at every moment of every run. *)
THEOREM Invariance == Spec => []IInv
BY Initially, Inductive, PTL DEF Spec

(* The nodes are nodes, the descriptors descriptors of known paths within the bounds,
   and what was read are bytes. *)
THEOREM TypeCorrect == Spec => []TypeOK
<1>1. IInv => TypeOK
  <2> SUFFICES ASSUME IInv PROVE TypeOK
    OBVIOUS
  <2>1. \A t \in Task, fd \in Fd : history[t][fd].bytes \in Seq(Byte)
    BY DEF IInv, DescriptorInv, History
  <2>2. fds \in [Task -> [Fd -> Descriptor]]
    BY DEF IInv, DescriptorInv
  <2>3. VfsTypeOK
    BY DEF IInv, TreeInv, TreeTypes, CwdInv, VfsTypeOK
  <2> QED BY <2>1, <2>2, <2>3 DEF IInv, TaskInv, TypeOK, Descriptor
<1> QED BY <1>1, Invariance, PTL

(* The nodes always form a tree in which a directory's name means one node, however
   they were created at boot and at the shell. *)
THEOREM TreeIsSound == Spec => []TreeSound
<1>1. IInv => TreeSound
  BY TreeFacts DEF IInv, TreeInv, TreeSound
<1> QED BY <1>1, Invariance, PTL

(* The path vfs_get_path prints always leads back to the node. *)
THEOREM RoundTrips == Spec => []RoundTrip
<1>1. IInv => RoundTrip
  BY LeadsBack DEF IInv, RoundTrip
<1> QED BY <1>1, Invariance, PTL

(* The path that pwd prints always leads to where the shell stands, whatever paths it was
   given, and whatever was created since. *)
THEOREM PwdLeads == Spec => []PwdLeadsBack
<1>1. IInv => PwdLeadsBack
  BY DEF IInv, CwdInv, PwdLeadsBack
<1> QED BY <1>1, Invariance, PTL

(* Whoever reads, and however often, gets a file's bytes in their order, none twice and
   none from beyond the end. *)
THEOREM ReadsAreInOrder == Spec => []ReadsInOrder
<1>1. IInv => ReadsInOrder
  BY DEF IInv, DescriptorInv, Sound, ReadInv, InOrder, ReadsInOrder
<1> QED BY <1>1, Invariance, PTL

(* No step of the boot or of the shell turns a path that leads somewhere away from
   there. *)
THEOREM StableResolutions == Spec => StableResolution
<1>1. IInv /\ [Next]_vars =>
        [tree' # tree => \A p \in Path : Resolve(p, Root) # 0 => Resolve(p, Root)' = Resolve(p, Root)]_vfsVars
  <2> SUFFICES ASSUME IInv, [Next]_vars, tree' # tree, NEW p \in Path, Resolve(p, Root) # 0
               PROVE  Resolve(p, Root)' = Resolve(p, Root)
    OBVIOUS
  <2>1. VfsNext
    BY DEF Next, vars, VfsNext, CatOpen, CatRead, CatClose, RunProcess, ProcessCall, vfsVars
  <2>2. TreeInv' /\ Grown
    BY <2>1, TreeStep DEF IInv
  <2>3. p \in PathForm
    BY PathAssumption
  <2>4. p.comps \in Seq(Token) /\ Root \in DOMAIN tree
    BY <2>3, TreeFacts DEF PathForm, Token, IInv
  <2>5. Resolve(p, Root) = Walk(p.comps, Root) /\ Resolve(p, Root)' = Walk(p.comps, Root)'
    BY DEF Resolve
  <2> QED BY <2>2, <2>4, <2>5, StableWalk DEF IInv
<1> QED BY <1>1, Invariance, PTL DEF Spec, StableResolution

(* cat goes on while the heap has memory for the reads that are left, and when it ends then,
   it has printed every byte of its file, for every size of the file and of its buffer;
   however it ends, its descriptor is free again. *)
THEOREM CatPrintsOn == Spec => [][cat # 0 => IF cat' = 0 THEN Ended ELSE Enough => Enough']_vars
<1>1. IInv /\ [Next]_vars => [cat # 0 => IF cat' = 0 THEN Ended ELSE Enough => Enough']_vars
  <2> SUFFICES ASSUME IInv, [Next]_vars, cat # 0, ~UNCHANGED vars
               PROVE  IF cat' = 0 THEN Ended ELSE Enough => Enough'
    OBVIOUS
  <2>1. PICK f, h : /\ f = fds[KernelIo][cat] /\ h = history[KernelIo][cat]
                    /\ f.used /\ h.from = 0 /\ OpenInv(f, h) /\ ReadInv(f, h) /\ h \in History
    <3>1. KernelIo \in Task /\ cat \in Fd /\ ~(cat < FirstFd)
      BY Reading DEF Task, FirstFd
    <3> QED BY <3>1, Reading DEF IInv, DescriptorInv, Sound
  <2>2. PICK n \in DOMAIN tree, size \in Nat : n = h.node /\ size = tree[n].size
    <3>1. PICK n \in DOMAIN tree : n = h.node /\ tree[n].size # NoData
      BY <2>1 DEF OpenInv
    <3>2. tree[n] \in Node
      BY TreeFacts DEF IInv
    <3>3. tree[n].size \in NoData .. MaxSize
      BY <3>2 DEF Node
    <3> QED BY <3>1, <3>3, BoundAssumption DEF NoData
  <2>3. PICK read \in Nat : read = Len(h.bytes) /\ f.offset = read /\ (read # 0 => read <= size)
    <3>1. h.bytes \in Seq(Byte)
      BY <2>1 DEF History
    <3>2. Len(h.bytes) \in Nat /\ (Len(h.bytes) # 0 => h.bytes # << >>)
      BY <3>1, Lengths
    <3> QED BY <2>1, <2>2, <3>2 DEF ReadInv
  <2>4. PICK c \in Nat \ {0}, m \in Nat : c = Chunk /\ m = memory
    BY FilesAssumption DEF IInv, TaskInv
  <2>5. Unread = size - read /\ (Enough <=> size - read <= c * m)
    BY <2>1, <2>2, <2>3, <2>4 DEF Unread, Enough
  <2>6. cat \in Fd /\ current = KernelIo /\ booted /\ cat >= FirstFd
    BY Reading DEF FirstFd
  <2>7. ASSUME CatClose PROVE cat' = 0 /\ Ended
    <3>1. cat' = 0 /\ SysClose(cat) /\ UNCHANGED vfsVars /\ (memory = 0 \/ Copied(cat, Chunk) = << >>)
      BY <2>7 DEF CatClose
    <3>2. ~fds'[KernelIo][cat].used
      BY <2>6, <3>1, CloseStep
    <3>3. ASSUME Copied(cat, Chunk) = << >> PROVE read >= size
      BY <2>1, <2>2, <2>3, <2>4, <2>6, <3>3, CopiedFacts
    <3>4. read <= size
      BY <2>3
    <3>5. ASSUME m = 0 PROVE c * m = 0
      BY <3>5
    <3>6. m = 0 \/ read >= size
      BY <2>4, <3>1, <3>3
    <3>7. ASSUME size - read <= c * m PROVE size - read = 0
      <4>1. CASE read >= size
        BY <3>4, <4>1
      <4>2. CASE m = 0
        BY <3>4, <3>5, <3>7, <4>2
      <4> QED BY <3>6, <4>1, <4>2
    <3> QED BY <2>1, <2>5, <3>1, <3>2, <3>7 DEF Ended
  <2>8. ASSUME CatRead PROVE cat' # 0 /\ (Enough => Enough')
    <3>1. cat' = cat /\ SysRead(cat, c) /\ UNCHANGED <<vfsVars, current>> /\ m > 0 /\ memory' = m - 1
      BY <2>4, <2>8 DEF CatRead
    <3>2. PICK g, i : g = fds'[KernelIo][cat] /\ i = history'[KernelIo][cat] /\ tree' = tree
      BY <3>1 DEF vfsVars
    <3>3. PICK k \in 1 .. c : /\ i.node = n /\ i.from = 0 /\ g.used
                              /\ Len(i.bytes) = read + k /\ (k = c \/ g.offset = size)
      <4>1. /\ g.used /\ i.from = h.from /\ i.node = h.node
            /\ \E k \in 1 .. c : /\ Len(i.bytes) = Len(h.bytes) + k
                                 /\ k = c \/ g.offset = tree[h.node].size
        <5>1. /\ fds'[current][cat].used /\ history'[current][cat].from = history[current][cat].from
              /\ history'[current][cat].node = history[current][cat].node
              /\ \E k \in 1 .. c :
                   /\ Len(history'[current][cat].bytes) = Len(history[current][cat].bytes) + k
                   /\ k = c \/ fds'[current][cat].offset = tree[history[current][cat].node].size
          <6>1. UNCHANGED vfsVars /\ SysRead(cat, c) /\ booted /\ cat \in Fd /\ c \in Nat \ {0}
            BY <2>6, <3>1
          <6> QED BY <6>1, ReadStep
        <5>2. /\ g = fds'[current][cat] /\ i = history'[current][cat] /\ h = history[current][cat]
          BY <2>1, <2>6, <3>2
        <5> QED BY <5>1, <5>2, Zenon
      <4>2. PICK k \in 1 .. c : Len(i.bytes) = Len(h.bytes) + k /\ (k = c \/ g.offset = tree[h.node].size)
        BY <4>1
      <4>3. i.node = n /\ i.from = 0 /\ g.used /\ Len(i.bytes) = read + k /\ (k = c \/ g.offset = size)
        BY <2>1, <2>2, <2>3, <4>1, <4>2
      <4> QED BY <4>3
    <3>4. g.offset = read + k
      <4>1. DescriptorInv'
        BY <2>6, <3>1, ReadStep
      <4>2. KernelIo \in Task
        BY DEF Task
      <4>3. ReadInv(g, i)
        BY <2>6, <3>2, <4>1, <4>2 DEF DescriptorInv, Sound, ReadInv
      <4> QED BY <3>3, <4>3 DEF ReadInv
    <3>5. Enough' <=> size - (read + k) <= c * (m - 1)
      BY <2>2, <2>4, <3>1, <3>2, <3>3 DEF Unread, Enough
    <3>6. PICK left \in Nat : left = m - 1
      BY <2>4, <3>1
    <3>7. c * m = c * left + c /\ c * left \in Nat
      BY <2>4, <3>6
    <3>8. PICK rest \in Nat : rest = c * left
      BY <3>7
    <3>9. ASSUME size - read <= rest + c PROVE size - (read + k) <= rest
      <4>1. k = c \/ read + k = size
        BY <3>3, <3>4
      <4>2. CASE k = c
        <5>1. size - (read + c) <= rest
          BY <3>9
        <5> QED BY <4>2, <5>1
      <4>3. CASE read + k = size
        BY <4>3
      <4> QED BY <4>1, <4>2, <4>3
    <3>10. Enough => Enough'
      BY <2>5, <3>5, <3>6, <3>7, <3>8, <3>9
    <3> QED BY <3>1, <3>10
  <2>9. CatClose \/ CatRead
    <3>1. ASSUME NEW path \in Path, CatOpen(path) PROVE FALSE
      BY <3>1 DEF CatOpen, ShellIdle
    <3>2. ASSUME NEW p \in Process, RunProcess(p) PROVE FALSE
      BY <3>2 DEF RunProcess
    <3>3. ~BootStep /\ ~ShellIdle /\ ~ProcessCall
      BY <2>6, FilesAssumption DEF BootStep, BootDir, WriteFile, Boot, ShellIdle, ProcessCall
    <3> QED BY <3>1, <3>2, <3>3 DEF Next
  <2> QED BY <2>7, <2>8, <2>9
<1> QED BY <1>1, Invariance, PTL DEF Spec
==============================================================================
