----------------------------- MODULE Pmm_proofs -----------------------------
(***************************************************************************)
(* Proofs about the frame allocator: whatever the boot loader's tags are,  *)
(* and in whatever order blocks are taken and given back, a frame is in    *)
(* one place, and no frame is invented or forgotten.                       *)
(***************************************************************************)
EXTENDS Pmm, ListLemmas

-----------------------------------------------------------------------------
(* Frames as intervals.                                                    *)

OnPage(a) == a % PageSize = 0
(* The frames from start on whose first byte is before end. *)
Span(start, end) == {f \in Nat : OnPage(f) /\ start <= f /\ f < end}
(* The frames that lie wholly in [start, end). *)
Whole(start, end) == {f \in Nat : OnPage(f) /\ start <= f /\ f + PageSize <= end}

(* A product with a positive factor is as large as its other factor is. *)
LEMMA Products ==
  ASSUME NEW a \in Int, NEW b \in Int, NEW s \in Nat \ {0}
  PROVE  /\ a <= b <=> a * s <= b * s
         /\ a * s \in Int /\ (a + 1) * s = a * s + s
         /\ a \in Nat => a * s \in Nat
<1>1. a <= b => a * s <= b * s
  <2> SUFFICES ASSUME a <= b PROVE a * s <= b * s
    OBVIOUS
  <2>1. PICK d \in Nat : b = a + d
    <3>1. b - a \in Nat /\ b = a + (b - a)
      OBVIOUS
    <3> QED BY <3>1
  <2>2. b * s = a * s + d * s /\ d * s >= 0
    BY <2>1
  <2> QED BY <2>2
<1>2. b < a => b * s < a * s
  <2> SUFFICES ASSUME b < a PROVE b * s < a * s
    OBVIOUS
  <2>1. PICK d \in Nat : a = b + 1 + d
    <3>1. a - b - 1 \in Nat /\ a = b + 1 + (a - b - 1)
      OBVIOUS
    <3> QED BY <3>1
  <2>2. a * s = b * s + s + d * s /\ d * s >= 0
    BY <2>1
  <2> QED BY <2>2
<1>3. a * s \in Int /\ b * s \in Int /\ (a + 1) * s = a * s + s
  OBVIOUS
<1>4. a \in Nat => a * s \in Nat
  OBVIOUS
<1> QED BY <1>1, <1>2, <1>3, <1>4

(* Division: the quotient of a number, and what it says of a multiple. *)
LEMMA Quotients ==
  ASSUME NEW a \in Int, NEW s \in Nat \ {0}
  PROVE  /\ a \div s \in Int /\ a % s \in 0 .. s - 1
         /\ a = (a \div s) * s + (a % s)
         /\ a % s = 0 => a = (a \div s) * s
         /\ (a * s) \div s = a /\ (a * s) % s = 0
<1>1. a \div s \in Int /\ a % s \in 0 .. s - 1 /\ a = s * (a \div s) + (a % s)
  OBVIOUS
<1>2. (a \div s) * s = s * (a \div s)
  BY <1>1
<1>3. (a * s) \div s = a /\ (a * s) % s = 0
  <2> DEFINE q == (a * s) \div s
             r == (a * s) % s
  <2>1. q \in Int /\ r \in 0 .. s - 1 /\ a * s = s * q + r
    OBVIOUS
  <2> HIDE DEF q, r
  <2>2. ~ (q < a)
    <3> SUFFICES ASSUME q < a PROVE FALSE
      OBVIOUS
    <3>1. (q + 1) * s <= a * s /\ (q + 1) * s = q * s + s
      BY <2>1, Products
    <3>2. q * s = s * q
      BY <2>1
    <3> QED BY <2>1, <3>1, <3>2
  <2>3. ~ (q > a)
    <3> SUFFICES ASSUME q > a PROVE FALSE
      OBVIOUS
    <3>1. (a + 1) * s <= q * s /\ (a + 1) * s = a * s + s
      BY <2>1, Products
    <3>2. q * s = s * q
      BY <2>1
    <3> QED BY <2>1, <3>1, <3>2
  <2>4. q = a
    BY <2>1, <2>2, <2>3
  <2>5. r = 0
    BY <2>1, <2>4
  <2> QED BY <2>4, <2>5 DEF q, r
<1> QED BY <1>1, <1>2, <1>3

(* Multiples of the page size, one page apart or more. *)
LEMMA Multiples ==
  ASSUME NEW a \in Int, NEW b \in Int, OnPage(a), OnPage(b)
  PROVE  /\ a < b <=> a + PageSize <= b
         /\ OnPage(a + PageSize)
<1>1. PageSize \in Nat \ {0}
  BY PageAssumption
<1>2. PICK p \in Int : a = p * PageSize
  BY <1>1, Quotients DEF OnPage
<1>3. PICK q \in Int : b = q * PageSize
  BY <1>1, Quotients DEF OnPage
<1>4. a < b <=> p < q
  BY <1>1, <1>2, <1>3, Products
<1>5. p + 1 <= q <=> (p + 1) * PageSize <= q * PageSize
  BY <1>1, Products
<1>6. (p + 1) * PageSize = a + PageSize
  BY <1>1, <1>2, Products
<1>7. (a + PageSize) % PageSize = 0
  <2>1. ((p + 1) * PageSize) % PageSize = 0
    BY <1>1, Quotients
  <2> QED BY <1>6, <2>1
<1>8. (p < q) <=> (p + 1 <= q)
  OBVIOUS
<1> QED BY <1>3, <1>4, <1>5, <1>6, <1>7, <1>8 DEF OnPage

(* A block of frames is a span of addresses. *)
LEMMA Blocks ==
  ASSUME NEW start \in Nat, NEW n \in Nat, OnPage(start)
  PROVE  /\ start + n * PageSize \in Nat /\ OnPage(start + n * PageSize)
         /\ start <= start + n * PageSize
         /\ n # 0 => start + PageSize <= start + n * PageSize
         /\ Block(start, n) = Span(start, start + n * PageSize)
<1>1. PageSize \in Nat \ {0}
  BY PageAssumption
<1>2. PICK p \in Int : start = p * PageSize
  <2>1. start \in Int
    OBVIOUS
  <2>2. start = (start \div PageSize) * PageSize /\ start \div PageSize \in Int
    BY <1>1, <2>1, Quotients DEF OnPage
  <2> QED BY <2>2
<1> DEFINE end == start + n * PageSize
<1>3. \A k \in Nat : k * PageSize \in Nat /\ start + k * PageSize = (p + k) * PageSize
  BY <1>1, <1>2
<1>4. \A k \in Nat : OnPage(start + k * PageSize)
  <2> TAKE k \in Nat
  <2>1. p + k \in Int
    OBVIOUS
  <2>2. ((p + k) * PageSize) % PageSize = 0
    BY <1>1, <2>1, Quotients
  <2> QED BY <1>3, <2>2 DEF OnPage
<1>5. n # 0 => PageSize <= n * PageSize
  <2>1. n # 0 => 1 <= n
    OBVIOUS
  <2>2. 1 <= n => 1 * PageSize <= n * PageSize
    BY <1>1, Products
  <2> QED BY <1>1, <2>1, <2>2
<1>6. ASSUME NEW k \in 0 .. n - 1 PROVE start + k * PageSize \in Span(start, end)
  <2>1. k \in Nat /\ k + 1 <= n
    OBVIOUS
  <2>2. (k + 1) * PageSize <= n * PageSize /\ (k + 1) * PageSize = k * PageSize + PageSize
    BY <1>1, <2>1, Products
  <2>3. start + k * PageSize \in Nat /\ start <= start + k * PageSize /\ start + k * PageSize < end
    BY <1>1, <1>3, <2>1, <2>2
  <2> QED BY <1>4, <2>1, <2>3 DEF Span
<1>7. ASSUME NEW f \in Span(start, end) PROVE \E k \in 0 .. n - 1 : f = start + k * PageSize
  <2>1. f \in Nat /\ OnPage(f) /\ start <= f /\ f < end
    BY DEF Span
  <2>2. PICK q \in Int : f = q * PageSize
    <3>1. f \in Int
      BY <2>1
    <3>2. f = (f \div PageSize) * PageSize /\ f \div PageSize \in Int
      BY <1>1, <2>1, <3>1, Quotients DEF OnPage
    <3> QED BY <3>2
  <2>3. p <= q
    BY <1>1, <1>2, <2>1, <2>2, Products
  <2>4. end = (p + n) * PageSize
    BY <1>3
  <2>5. ~ (p + n <= q)
    BY <1>1, <2>1, <2>2, <2>4, Products
  <2>6. PICK k \in Nat : q = p + k
    <3>1. q - p \in Nat /\ q = p + (q - p)
      BY <2>3
    <3> QED BY <3>1
  <2>7. k \in 0 .. n - 1
    BY <2>5, <2>6
  <2>8. f = start + k * PageSize
    BY <1>3, <2>2, <2>6
  <2> QED BY <2>7, <2>8
<1>8. Block(start, n) = Span(start, end)
  BY <1>6, <1>7 DEF Block
<1>9. end \in Nat /\ OnPage(end) /\ start <= end
  BY <1>3, <1>4
<1>10. n # 0 => start + PageSize <= end
  BY <1>1, <1>3, <1>5
<1> HIDE DEF end
<1>11. start + n * PageSize = end
  BY DEF end
<1> QED BY <1>8, <1>9, <1>10, <1>11

(* Two blocks, one behind the other, are a block. *)
LEMMA JoinedBlocks ==
  ASSUME NEW start \in Nat, NEW m \in Nat, NEW n \in Nat, NEW mid \in Nat, NEW k \in Nat,
         OnPage(start), mid = start + m * PageSize, k = m + n
  PROVE  /\ Block(start, k) = Block(start, m) \cup Block(mid, n)
         /\ Block(start, m) \cap Block(mid, n) = {}
<1>1. mid \in Nat /\ start <= mid /\ OnPage(mid)
  BY Blocks
<1>2. PICK end \in Nat : end = mid + n * PageSize /\ mid <= end
  BY <1>1, Blocks
<1>3. start + k * PageSize = end
  BY <1>1, <1>2, PageAssumption
<1>4. Block(start, m) = Span(start, mid) /\ Block(mid, n) = Span(mid, end)
  BY <1>1, <1>2, Blocks
<1>5. Block(start, k) = Span(start, end)
  <2>1. k \in Nat
    OBVIOUS
  <2> QED BY <1>3, <2>1, Blocks
<1>6. Span(start, end) = Span(start, mid) \cup Span(mid, end)
  BY <1>1, <1>2 DEF Span
<1>7. Span(start, mid) \cap Span(mid, end) = {}
  BY DEF Span
<1> QED BY <1>4, <1>5, <1>6, <1>7

-----------------------------------------------------------------------------
(* The table of free regions.                                              *)

FramesIn(rs) == UNION {FramesOf(rs[i]) : i \in DOMAIN rs}

(* The table: regions of whole frames, none in two of them. *)
Table(rs) == /\ rs \in Seq(Region) /\ Len(rs) <= MaxRegions
             /\ \A i \in DOMAIN rs : OnPage(rs[i].addr)
             /\ \A i, j \in DOMAIN rs : i # j => FramesOf(rs[i]) \cap FramesOf(rs[j]) = {}

(* What giving the frames fs to a table may do: no entry is lost, no frame but
   those of fs is gained, and all of fs is, unless the table ends full. *)
Given(rs, t, fs) == /\ Table(t) /\ Len(rs) <= Len(t)
                    /\ FramesIn(rs) \subseteq FramesIn(t)
                    /\ FramesIn(t) \subseteq FramesIn(rs) \cup fs
                    /\ fs \subseteq FramesIn(t) \/ Len(t) = MaxRegions

LEMMA InFrames ==
  ASSUME NEW rs, NEW f
  PROVE  f \in FramesIn(rs) <=> \E i \in DOMAIN rs : f \in FramesOf(rs[i])
BY DEF FramesIn

(* The whole frames of a region that touches a block, and of the block. *)
LEMMA Grown ==
  ASSUME NEW r \in Region, NEW start \in Nat, NEW n \in Nat \ {0},
         OnPage(r.addr), OnPage(start),
         r.addr = start + n * PageSize \/ RegionEnd(r) = start
  PROVE  LET big == [addr   |-> IF r.addr = start + n * PageSize THEN start ELSE r.addr,
                     frames |-> r.frames + n]
         IN  /\ big \in Region /\ OnPage(big.addr)
             /\ FramesOf(big) = FramesOf(r) \cup Block(start, n)
<1> DEFINE big == [addr   |-> IF r.addr = start + n * PageSize THEN start ELSE r.addr,
                   frames |-> r.frames + n]
<1>1. r.addr \in Nat /\ r.frames \in Nat \ {0} /\ r.frames \in Nat /\ n \in Nat
  BY DEF Region
<1>2. big.frames = r.frames + n /\ big.addr = (IF r.addr = start + n * PageSize THEN start ELSE r.addr)
  OBVIOUS
<1>3. big \in Region
  BY <1>1 DEF Region
<1> HIDE DEF big
<1>4. CASE r.addr = start + n * PageSize
  <2>1. Block(start, n + r.frames) = Block(start, n) \cup Block(r.addr, r.frames)
    <3>1. start \in Nat /\ n \in Nat /\ OnPage(start)
      BY <1>1
    <3> QED BY <1>1, <1>4, <3>1, JoinedBlocks
  <2>2. n + r.frames = r.frames + n
    BY <1>1
  <2> QED BY <1>2, <1>3, <1>4, <2>1, <2>2 DEF FramesOf, big
<1>5. CASE r.addr # start + n * PageSize
  <2>1. start = r.addr + r.frames * PageSize
    BY <1>5 DEF RegionEnd
  <2>2. Block(r.addr, r.frames + n) = Block(r.addr, r.frames) \cup Block(start, n)
    <3>1. PICK a \in Nat, m \in Nat : a = r.addr /\ m = r.frames
      BY <1>1
    <3>2. OnPage(a) /\ start = a + m * PageSize
      BY <2>1, <3>1
    <3>3. PICK k \in Nat : k = m + n
      OBVIOUS
    <3>4. n \in Nat
      BY <1>1
    <3>5. Block(a, k) = Block(a, m) \cup Block(start, n)
      BY <3>2, <3>3, <3>4, JoinedBlocks
    <3> QED BY <3>1, <3>3, <3>5
  <2> QED BY <1>2, <1>3, <1>5, <2>2 DEF FramesOf, big
<1> QED BY <1>4, <1>5 DEF big

(* insertion grows a region, appends one, or drops the block *)
LEMMA Inserted ==
  ASSUME NEW rs, Table(rs), NEW start \in Nat, OnPage(start), NEW n \in Nat \ {0},
         FramesIn(rs) \cap Block(start, n) = {}
  PROVE  Given(rs, Insert(rs, start, n), Block(start, n))
<1> DEFINE t == Insert(rs, start, n)
           fs == Block(start, n)
           touching == {i \in DOMAIN rs : rs[i].addr = start + n * PageSize \/ RegionEnd(rs[i]) = start}
<1>1. rs \in Seq(Region) /\ Len(rs) \in Nat /\ Len(rs) <= MaxRegions /\ DOMAIN rs = 1 .. Len(rs)
  BY DEF Table
<1>2. CASE Touches(rs, start, n)
  <2> DEFINE i == Min(touching)
             big == [addr   |-> IF rs[i].addr = start + n * PageSize THEN start ELSE rs[i].addr,
                     frames |-> rs[i].frames + n]
  <2>1. i \in touching
    <3>1. touching # {} /\ touching \subseteq 1 .. Len(rs)
      BY <1>1, <1>2 DEF Touches
    <3> HIDE DEF touching
    <3> QED BY <1>1, <3>1, FirstIndex
  <2>2. t = [rs EXCEPT ![i] = big]
    BY <1>2 DEF Insert, Grow
  <2> HIDE DEF t
  <2>3. i \in DOMAIN rs /\ (rs[i].addr = start + n * PageSize \/ RegionEnd(rs[i]) = start)
    BY <2>1
  <2> HIDE DEF i, touching
  <2>4. rs[i] \in Region /\ OnPage(rs[i].addr)
    BY <1>1, <2>3 DEF Table
  <2>5. big \in Region /\ OnPage(big.addr) /\ FramesOf(big) = FramesOf(rs[i]) \cup fs
    BY <2>3, <2>4, Grown
  <2> HIDE DEF big, fs
  <2>6. t \in Seq(Region) /\ Len(t) = Len(rs) /\ DOMAIN t = DOMAIN rs
    BY <1>1, <2>2, <2>3, <2>5
  <2>7. \A k \in DOMAIN rs : t[k] = IF k = i THEN big ELSE rs[k]
    BY <1>1, <2>2, <2>3
  <2>8. \A k \in DOMAIN rs : FramesOf(t[k]) = IF k = i THEN FramesOf(rs[i]) \cup fs ELSE FramesOf(rs[k])
    BY <2>5, <2>7
  <2>9. \A k \in DOMAIN rs : FramesOf(rs[k]) \cap fs = {}
    BY InFrames DEF fs
  <2>10. \A k, l \in DOMAIN t : k # l => FramesOf(t[k]) \cap FramesOf(t[l]) = {}
    <3> SUFFICES ASSUME NEW k \in DOMAIN rs, NEW l \in DOMAIN rs, k # l
                 PROVE  FramesOf(t[k]) \cap FramesOf(t[l]) = {}
      BY <2>6
    <3>1. FramesOf(rs[k]) \cap FramesOf(rs[l]) = {}
      BY DEF Table
    <3> QED BY <2>8, <2>9, <3>1
  <2>11. \A k \in DOMAIN t : OnPage(t[k].addr)
    BY <2>5, <2>6, <2>7 DEF Table
  <2>12. \A f : f \in FramesIn(t) <=> f \in FramesIn(rs) \cup fs
    BY <2>3, <2>6, <2>8, InFrames
  <2> QED BY <1>1, <2>6, <2>10, <2>11, <2>12 DEF Given, Table, fs, t
<1>3. CASE ~Touches(rs, start, n) /\ Len(rs) < MaxRegions
  <2> DEFINE new == [addr |-> start, frames |-> n]
  <2>1. t = Append(rs, new)
    BY <1>3 DEF Insert
  <2>2. new \in Region /\ OnPage(new.addr) /\ FramesOf(new) = fs
    BY DEF Region, FramesOf
  <2> HIDE DEF t, new, fs
  <2>3. /\ t \in Seq(Region) /\ Len(t) = Len(rs) + 1 /\ DOMAIN t = 1 .. Len(rs) + 1
        /\ \A k \in DOMAIN rs : t[k] = rs[k]
        /\ t[Len(rs) + 1] = new
    BY <1>1, <2>1, <2>2
  <2>4. \A k \in DOMAIN rs : FramesOf(rs[k]) \cap fs = {}
    BY InFrames DEF fs
  <2>5. \A k, l \in DOMAIN t : k # l => FramesOf(t[k]) \cap FramesOf(t[l]) = {}
    <3> SUFFICES ASSUME NEW k \in 1 .. Len(rs) + 1, NEW l \in 1 .. Len(rs) + 1, k # l
                 PROVE  FramesOf(t[k]) \cap FramesOf(t[l]) = {}
      BY <2>3
    <3>1. CASE k \in DOMAIN rs /\ l \in DOMAIN rs
      BY <2>3, <3>1 DEF Table
    <3>2. CASE k = Len(rs) + 1 /\ l \in DOMAIN rs
      BY <2>2, <2>3, <2>4, <3>2
    <3>3. CASE l = Len(rs) + 1 /\ k \in DOMAIN rs
      BY <2>2, <2>3, <2>4, <3>3
    <3> QED BY <1>1, <3>1, <3>2, <3>3
  <2>6. \A k \in DOMAIN t : OnPage(t[k].addr)
    BY <1>1, <2>2, <2>3 DEF Table
  <2>7. \A f : f \in FramesIn(t) <=> f \in FramesIn(rs) \cup fs
    <3> TAKE f
    <3>1. f \in FramesIn(t) <=> \E k \in 1 .. Len(rs) + 1 : f \in FramesOf(t[k])
      BY <2>3, InFrames
    <3>2. (\E k \in 1 .. Len(rs) + 1 : f \in FramesOf(t[k])) <=>
          (f \in FramesOf(t[Len(rs) + 1]) \/ \E k \in DOMAIN rs : f \in FramesOf(t[k]))
      BY <1>1
    <3> QED BY <2>2, <2>3, <3>1, <3>2, InFrames
  <2> QED BY <1>1, <1>3, <2>3, <2>5, <2>6, <2>7, RegionsAssumption DEF Given, Table, fs, t
<1>4. CASE ~Touches(rs, start, n) /\ ~(Len(rs) < MaxRegions)
  <2>1. Len(rs) = MaxRegions
    <3>1. MaxRegions \in Nat
      BY RegionsAssumption
    <3>2. Len(rs) \in Nat /\ Len(rs) <= MaxRegions
      BY <1>1
    <3>3. ~(Len(rs) < MaxRegions)
      BY <1>4
    <3> QED BY <3>1, <3>2, <3>3
  <2>2. t = rs
    BY <1>4 DEF Insert
  <2> HIDE DEF t, fs
  <2> QED BY <1>1, <2>1, <2>2 DEF Given, t, fs
<1> QED BY <1>2, <1>3, <1>4

(* Rounding: to a page, by less than a page. *)
LEMMA Rounding ==
  ASSUME NEW a \in Nat
  PROVE  /\ AlignDown(a) \in Nat /\ OnPage(AlignDown(a))
         /\ AlignDown(a) <= a /\ a < AlignDown(a) + PageSize
         /\ AlignUp(a) \in Nat /\ OnPage(AlignUp(a))
         /\ a <= AlignUp(a) /\ AlignUp(a) < a + PageSize
<1>1. PageSize \in Nat \ {0}
  BY PageAssumption
<1>2. ASSUME NEW b \in Nat
      PROVE  /\ (b \div PageSize) * PageSize \in Nat /\ OnPage((b \div PageSize) * PageSize)
             /\ (b \div PageSize) * PageSize <= b
             /\ b < (b \div PageSize) * PageSize + PageSize
  <2>1. b \in Int
    OBVIOUS
  <2>2. PICK q \in Int, r \in 0 .. PageSize - 1 : q = b \div PageSize /\ r = b % PageSize
    BY <1>1, <2>1, Quotients
  <2>3. b = q * PageSize + r /\ OnPage(q * PageSize)
    BY <1>1, <2>1, <2>2, Quotients DEF OnPage
  <2>4. ~ (q < 0)
    <3> SUFFICES ASSUME q < 0 PROVE FALSE
      OBVIOUS
    <3>1. (q + 1) * PageSize <= 0 * PageSize /\ (q + 1) * PageSize = q * PageSize + PageSize
      BY <1>1, Products
    <3>2. 0 * PageSize = 0
      BY <1>1
    <3>3. q * PageSize \in Int
      BY <1>1
    <3> QED BY <1>1, <2>2, <2>3, <3>1, <3>2, <3>3
  <2>5. q * PageSize \in Nat
    BY <1>1, <2>4, Products
  <2> QED BY <1>1, <2>2, <2>3, <2>5
<1>3. AlignDown(a) \in Nat /\ OnPage(AlignDown(a)) /\ AlignDown(a) <= a /\ a < AlignDown(a) + PageSize
  BY <1>2 DEF AlignDown
<1>4. PICK b \in Nat : b = a + PageSize - 1
  BY <1>1
<1>5. AlignUp(a) = (b \div PageSize) * PageSize
  BY <1>4 DEF AlignUp
<1> QED BY <1>1, <1>2, <1>3, <1>4, <1>5

(* add_free_region: what lies wholly in the piece is a block, rounded inwards. *)
LEMMA Added ==
  ASSUME NEW rs, Table(rs), NEW addr \in Nat, NEW end \in Nat,
         FramesIn(rs) \cap Whole(addr, end) = {}
  PROVE  Given(rs, AddFreeRegion(rs, addr, end), Whole(addr, end))
<1>1. PageSize \in Nat \ {0}
  BY PageAssumption
<1>2. PICK lo \in Nat : lo = AlignUp(addr) /\ OnPage(lo) /\ addr <= lo /\ lo < addr + PageSize
  BY Rounding
<1>3. PICK hi \in Nat : hi = AlignDown(end) /\ OnPage(hi) /\ hi <= end /\ end < hi + PageSize
  BY Rounding
<1>4. Whole(addr, end) = Span(lo, hi)
  <2>1. ASSUME NEW f \in Nat, OnPage(f) PROVE f >= addr <=> f >= lo
    <3>1. f < lo <=> f + PageSize <= lo
      BY <1>2, <2>1, Multiples
    <3> QED BY <1>1, <1>2, <3>1
  <2>2. ASSUME NEW f \in Nat, OnPage(f) PROVE f + PageSize <= end <=> f < hi
    <3>1. f < hi <=> f + PageSize <= hi
      BY <1>3, <2>2, Multiples
    <3>2. PICK g \in Nat : g = f + PageSize
      BY <1>1
    <3>3. OnPage(g)
      BY <2>2, <3>2, Multiples
    <3>4. hi < g <=> hi + PageSize <= g
      BY <1>3, <3>3, Multiples
    <3> QED BY <1>1, <1>3, <3>1, <3>2, <3>4
  <2> QED BY <2>1, <2>2 DEF Whole, Span
<1>5. CASE end - addr < PageSize \/ hi <= lo
  <2>1. AddFreeRegion(rs, addr, end) = rs
    BY <1>2, <1>3, <1>5 DEF AddFreeRegion
  <2>2. Whole(addr, end) = {}
    <3>1. CASE end - addr < PageSize
      BY <1>1, <3>1 DEF Whole
    <3>2. CASE hi <= lo
      BY <1>4, <3>2 DEF Span
    <3> QED BY <1>5, <3>1, <3>2
  <2>3. Len(rs) \in Nat
    BY DEF Table
  <2> QED BY <2>1, <2>2, <2>3 DEF Given
<1>6. CASE ~(end - addr < PageSize \/ hi <= lo)
  <2>1. PICK n \in Nat \ {0} : n = (hi - lo) \div PageSize /\ hi = lo + n * PageSize
    <3>1. PICK p \in Int, q \in Int : lo = p * PageSize /\ hi = q * PageSize
      <4>1. \A a \in Int : OnPage(a) => \E p \in Int : a = p * PageSize
        BY <1>1, Quotients DEF OnPage
      <4>2. lo \in Int /\ hi \in Int
        OBVIOUS
      <4> QED BY <1>2, <1>3, <4>1, <4>2
    <3>2. p < q
      BY <1>1, <1>2, <1>3, <1>6, <3>1, Products
    <3>3. PICK n \in Nat \ {0} : q = p + n
      <4>1. q - p \in Nat \ {0} /\ q = p + (q - p)
        BY <3>2
      <4> QED BY <4>1
    <3>4. hi - lo = n * PageSize /\ hi = lo + n * PageSize
      BY <1>1, <3>1, <3>3
    <3>5. (n * PageSize) \div PageSize = n
      BY <1>1, Quotients
    <3> QED BY <3>4, <3>5
  <2>2. AddFreeRegion(rs, addr, end) = Insert(rs, lo, n)
    BY <1>2, <1>3, <1>6, <2>1 DEF AddFreeRegion
  <2>3. Block(lo, n) = Whole(addr, end)
    BY <1>2, <1>4, <2>1, Blocks
  <2> QED BY <1>2, <2>2, <2>3, Inserted
<1> QED BY <1>5, <1>6

(* Frames given in two parts. *)
LEMMA GivenTwice ==
  ASSUME NEW rs, NEW t, NEW u, NEW fs, NEW gs, Table(rs), Given(rs, t, fs), Given(t, u, gs)
  PROVE  Given(rs, u, fs \cup gs)
<1>1. Table(u) /\ Len(rs) <= Len(u)
  <2>1. Len(rs) \in Nat /\ Len(t) \in Nat /\ Len(u) \in Nat
    BY DEF Given, Table
  <2> QED BY <2>1 DEF Given
<1>2. Len(t) = MaxRegions => Len(u) = MaxRegions
  <2>1. Len(t) \in Nat /\ Len(u) \in Nat /\ Len(u) <= MaxRegions /\ Len(t) <= Len(u)
    BY DEF Given, Table
  <2> QED BY <2>1
<1>3. FramesIn(rs) \subseteq FramesIn(u) /\ FramesIn(u) \subseteq FramesIn(rs) \cup (fs \cup gs)
  BY DEF Given
<1>4. fs \cup gs \subseteq FramesIn(u) \/ Len(u) = MaxRegions
  BY <1>2 DEF Given
<1> QED BY <1>1, <1>3, <1>4 DEF Given

(* The whole frames of [start, end) outside the kernel and its heap. *)
Outside(start, end) == {f \in Whole(start, end) : f + PageSize <= KStart \/ f >= KEnd}

(* mmap_callback, pmm.c:87-103: what lies around the kernel is given, the rest not. *)
LEMMA AroundKernel ==
  ASSUME NEW rs, Table(rs), NEW start \in Nat, NEW end \in Nat,
         FramesIn(rs) \cap Outside(start, end) = {}
  PROVE  Given(rs, AddAroundKernel(rs, start, end), Outside(start, end))
<1>1. PageSize \in Nat \ {0} /\ KStart \in Nat /\ KEnd \in Nat /\ KStart <= KEnd
  BY PageAssumption, LayoutAssumption
<1>2. CASE end <= KStart \/ start >= KEnd
  <2>1. Outside(start, end) = Whole(start, end)
    BY <1>1, <1>2 DEF Outside, Whole
  <2>2. AddAroundKernel(rs, start, end) = AddFreeRegion(rs, start, end)
    BY <1>2 DEF AddAroundKernel
  <2> QED BY <2>1, <2>2, Added
<1>3. CASE ~(end <= KStart \/ start >= KEnd)
  <2> DEFINE lower == IF start < KStart THEN AddFreeRegion(rs, start, KStart) ELSE rs
             upper == IF end > KEnd THEN AddFreeRegion(lower, KEnd, end) ELSE lower
  <2>1. AddAroundKernel(rs, start, end) = upper
    BY <1>3 DEF AddAroundKernel
  <2>2. Whole(start, KStart) = {} \/ start < KStart
    BY <1>1 DEF Whole
  <2>3. Whole(KEnd, end) = {} \/ end > KEnd
    BY <1>1 DEF Whole
  <2>4. Outside(start, end) = Whole(start, KStart) \cup Whole(KEnd, end)
    <3>1. ASSUME NEW f \in Nat
          PROVE  /\ start <= f /\ f + PageSize <= end /\ (f + PageSize <= KStart \/ f >= KEnd)
                    <=> \/ start <= f /\ f + PageSize <= KStart
                        \/ KEnd <= f /\ f + PageSize <= end
      BY <1>1, <1>3
    <3> QED BY <3>1 DEF Outside, Whole
  <2>5. Whole(start, KStart) \cap Whole(KEnd, end) = {}
    BY <1>1 DEF Whole
  <2>6. Table(rs) => Given(rs, rs, {})
    <3>1. Table(rs) => Len(rs) \in Nat
      BY DEF Table
    <3> QED BY <3>1 DEF Given
  <2>7. Given(rs, lower, Whole(start, KStart))
    <3>1. CASE start < KStart
      <4>1. FramesIn(rs) \cap Whole(start, KStart) = {}
        BY <2>4
      <4>2. Given(rs, AddFreeRegion(rs, start, KStart), Whole(start, KStart))
        BY <1>1, <4>1, Added
      <4> QED BY <3>1, <4>2
    <3>2. CASE ~(start < KStart)
      BY <2>2, <2>6, <3>2
    <3> QED BY <3>1, <3>2
  <2> HIDE DEF lower
  <2>8. Table(lower) /\ Len(lower) \in Nat
    BY <2>7 DEF Given, Table
  <2>9. Given(lower, upper, Whole(KEnd, end))
    <3>1. CASE end > KEnd
      <4>1. FramesIn(lower) \cap Whole(KEnd, end) = {}
        BY <2>4, <2>5, <2>7 DEF Given
      <4>2. Given(lower, AddFreeRegion(lower, KEnd, end), Whole(KEnd, end))
        BY <1>1, <2>8, <4>1, Added
      <4> QED BY <3>1, <4>2
    <3>2. CASE ~(end > KEnd)
      BY <2>3, <2>8, <3>2 DEF Given
    <3> QED BY <3>1, <3>2
  <2> HIDE DEF upper
  <2>10. Given(rs, upper, Whole(start, KStart) \cup Whole(KEnd, end))
    BY <2>7, <2>9, GivenTwice
  <2> QED BY <2>1, <2>4, <2>10
<1> QED BY <1>2, <1>3

(* A region leaves the table when it is empty. *)
LEMMA RegionRemoved ==
  ASSUME NEW rs, Table(rs), NEW i \in DOMAIN rs
  PROVE  /\ Table(RemoveAt(rs, i))
         /\ FramesIn(RemoveAt(rs, i)) = FramesIn(rs) \ FramesOf(rs[i])
<1> DEFINE t == RemoveAt(rs, i)
<1>1. rs \in Seq(Region) /\ Len(rs) \in Nat /\ Len(rs) <= MaxRegions /\ DOMAIN rs = 1 .. Len(rs)
  BY DEF Table
<1>2. \A k \in DOMAIN rs : k # i => FramesOf(rs[k]) \cap FramesOf(rs[i]) = {}
  BY DEF Table
<1>3. /\ t \in Seq(Region) /\ Len(t) = Len(rs) - 1
      /\ \A k \in 1 .. Len(rs) - 1 : t[k] = IF k < i THEN rs[k] ELSE rs[k + 1]
  BY <1>1, RemoveAtEntries
<1> HIDE DEF t
<1>4. DOMAIN t = 1 .. Len(rs) - 1
  BY <1>1, <1>3
<1>5. \A k \in DOMAIN t : \E l \in DOMAIN rs : l # i /\ l = (IF k < i THEN k ELSE k + 1) /\ t[k] = rs[l]
  BY <1>1, <1>3, <1>4
<1>6. \A l \in DOMAIN rs : l # i => \E k \in DOMAIN t : t[k] = rs[l]
  <2> SUFFICES ASSUME NEW l \in DOMAIN rs, l # i PROVE \E k \in DOMAIN t : t[k] = rs[l]
    OBVIOUS
  <2>1. CASE l < i
    BY <1>1, <1>3, <1>4, <2>1
  <2>2. CASE l > i
    <3>1. l - 1 \in DOMAIN t /\ ~(l - 1 < i) /\ (l - 1) + 1 = l
      BY <1>1, <1>4, <2>2
    <3>2. t[l - 1] = rs[l]
      BY <1>3, <1>4, <3>1
    <3> QED BY <3>1, <3>2
  <2> QED BY <1>1, <2>1, <2>2
<1>7. \A k \in DOMAIN t : OnPage(t[k].addr)
  BY <1>5 DEF Table
<1>8. \A k, l \in DOMAIN t : k # l => FramesOf(t[k]) \cap FramesOf(t[l]) = {}
  <2> SUFFICES ASSUME NEW k \in DOMAIN t, NEW l \in DOMAIN t, k # l
               PROVE  FramesOf(t[k]) \cap FramesOf(t[l]) = {}
    OBVIOUS
  <2>1. PICK k2 \in DOMAIN rs : k2 = (IF k < i THEN k ELSE k + 1) /\ t[k] = rs[k2]
    BY <1>5
  <2>2. PICK l2 \in DOMAIN rs : l2 = (IF l < i THEN l ELSE l + 1) /\ t[l] = rs[l2]
    BY <1>5
  <2>3. k2 # l2
    BY <1>1, <1>4, <2>1, <2>2
  <2> QED BY <2>1, <2>2, <2>3 DEF Table
<1>9. \A f : f \in FramesIn(t) <=> f \in FramesIn(rs) \ FramesOf(rs[i])
  <2> TAKE f
  <2>1. f \in FramesIn(t) <=> \E l \in DOMAIN rs : l # i /\ f \in FramesOf(rs[l])
    BY <1>5, <1>6, InFrames
  <2> QED BY <1>2, <2>1, InFrames
<1>10. Len(t) <= MaxRegions
  <2>1. MaxRegions \in Nat
    BY RegionsAssumption
  <2> QED BY <1>1, <1>3, <2>1
<1> QED BY <1>3, <1>7, <1>8, <1>9, <1>10 DEF Table, t

(* The front of a longer region, and its rest. *)
LEMMA FrontAndRest ==
  ASSUME NEW r \in Region, OnPage(r.addr), NEW n \in Nat \ {0}, n < r.frames
  PROVE  LET rest == [addr |-> r.addr + n * PageSize, frames |-> r.frames - n]
         IN  /\ rest \in Region /\ OnPage(rest.addr)
             /\ FramesOf(r) = Block(r.addr, n) \cup FramesOf(rest)
             /\ Block(r.addr, n) \cap FramesOf(rest) = {}
<1> DEFINE rest == [addr |-> r.addr + n * PageSize, frames |-> r.frames - n]
<1>1. PICK a \in Nat, m \in Nat : a = r.addr /\ m = r.frames /\ OnPage(a) /\ n < m
  BY DEF Region
<1>2. n \in Nat
  OBVIOUS
<1>3. PICK b \in Nat : b = a + n * PageSize /\ OnPage(b)
  BY <1>1, <1>2, Blocks
<1>4. PICK d \in Nat : d = m - n /\ d # 0 /\ m = n + d
  <2>1. m - n \in Nat /\ m - n # 0 /\ m = n + (m - n)
    BY <1>1, <1>2
  <2> QED BY <2>1
<1>5. Block(a, m) = Block(a, n) \cup Block(b, d) /\ Block(a, n) \cap Block(b, d) = {}
  <2>1. OnPage(a) /\ b = a + n * PageSize /\ m = n + d
    BY <1>1, <1>3, <1>4
  <2> QED BY <1>2, <2>1, JoinedBlocks
<1>6. rest.addr = b /\ rest.frames = d /\ rest \in Region
  BY <1>1, <1>3, <1>4 DEF Region
<1> HIDE DEF rest
<1>7. FramesOf(r) = Block(a, m) /\ FramesOf(rest) = Block(b, d)
  BY <1>1, <1>6 DEF FramesOf
<1>8. rest \in Region /\ OnPage(rest.addr)
  BY <1>3, <1>6
<1> QED BY <1>1, <1>5, <1>7, <1>8 DEF rest

(* What Shrink makes of the table. *)
Shrunk(rs, i, n) == IF rs[i].frames = n THEN RemoveAt(rs, i)
                    ELSE [rs EXCEPT ![i] = [addr |-> rs[i].addr + n * PageSize, frames |-> rs[i].frames - n]]

(* pmm_alloc_frames: the taken block leaves the table, and nothing else does. *)
LEMMA Taken ==
  ASSUME NEW rs, Table(rs), NEW i \in DOMAIN rs, NEW n \in Nat \ {0}, n <= rs[i].frames
  PROVE  /\ Table(Shrunk(rs, i, n))
         /\ FramesIn(Shrunk(rs, i, n)) = FramesIn(rs) \ Block(rs[i].addr, n)
         /\ Block(rs[i].addr, n) \subseteq FramesIn(rs)
<1> DEFINE r == rs[i]
           rest == [addr |-> r.addr + n * PageSize, frames |-> r.frames - n]
           taken == Block(r.addr, n)
<1>1. r \in Region /\ OnPage(r.addr)
  BY DEF Table
<1>2. FramesOf(r) \subseteq FramesIn(rs)
  BY InFrames
<1>3. CASE r.frames = n
  <2>1. Shrunk(rs, i, n) = RemoveAt(rs, i)
    BY <1>3 DEF Shrunk
  <2>2. taken = FramesOf(r)
    BY <1>3 DEF FramesOf
  <2> QED BY <1>2, <2>1, <2>2, RegionRemoved
<1>4. CASE r.frames # n
  <2>1. PICK t : t = [rs EXCEPT ![i] = rest] /\ t = Shrunk(rs, i, n)
    BY <1>4 DEF Shrunk
  <2>2. n < r.frames
    BY <1>1, <1>4 DEF Region
  <2>3. rest \in Region /\ OnPage(rest.addr) /\ FramesOf(r) = taken \cup FramesOf(rest) /\ taken \cap FramesOf(rest) = {}
    BY <1>1, <2>2, FrontAndRest
  <2> HIDE DEF rest, taken
  <2>4. rs \in Seq(Region) /\ Len(rs) \in Nat /\ Len(rs) <= MaxRegions
    BY DEF Table
  <2>5. t \in Seq(Region) /\ Len(t) = Len(rs) /\ DOMAIN t = DOMAIN rs
    BY <2>1, <2>3, <2>4
  <2>6. \A k \in DOMAIN rs : t[k] = IF k = i THEN rest ELSE rs[k]
    BY <2>1, <2>4
  <2>7. \A k \in DOMAIN t : OnPage(t[k].addr)
    BY <2>3, <2>5, <2>6 DEF Table
  <2>8. \A k, l \in DOMAIN t : k # l => FramesOf(t[k]) \cap FramesOf(t[l]) = {}
    <3> SUFFICES ASSUME NEW k \in DOMAIN rs, NEW l \in DOMAIN rs, k # l
                 PROVE  FramesOf(t[k]) \cap FramesOf(t[l]) = {}
      BY <2>5
    <3>1. FramesOf(rs[k]) \cap FramesOf(rs[l]) = {}
      BY DEF Table
    <3>2. FramesOf(t[k]) \subseteq FramesOf(rs[k]) /\ FramesOf(t[l]) \subseteq FramesOf(rs[l])
      BY <2>3, <2>6
    <3> QED BY <3>1, <3>2
  <2>9. \A f : f \in FramesIn(t) <=> f \in FramesIn(rs) \ taken
    <3> TAKE f
    <3>1. f \in FramesIn(t) <=> f \in FramesOf(rest) \/ \E l \in DOMAIN rs : l # i /\ f \in FramesOf(rs[l])
      BY <2>5, <2>6, InFrames
    <3>2. \A k \in DOMAIN rs : k # i => FramesOf(rs[k]) \cap FramesOf(r) = {}
      BY DEF Table
    <3> QED BY <2>3, <3>1, <3>2, InFrames
  <2>10. taken \subseteq FramesIn(rs)
    BY <1>2, <2>3
  <2>11. Table(t)
    BY <2>4, <2>5, <2>7, <2>8 DEF Table
  <2> QED BY <2>1, <2>9, <2>10, <2>11 DEF taken
<1> QED BY <1>3, <1>4

-----------------------------------------------------------------------------
(* The frames of an entry of the memory map.                               *)

(* The whole frames in a piece of memory are no more than its bytes are. *)
LEMMA WholeFrames ==
  ASSUME NEW addr \in Nat, NEW len \in Nat
  PROVE  /\ IsFiniteSet(Whole(addr, addr + len))
         /\ Cardinality(Whole(addr, addr + len)) \in Nat
         /\ Cardinality(Whole(addr, addr + len)) * PageSize <= len
<1>1. PageSize \in Nat \ {0}
  BY PageAssumption
<1> DEFINE end == addr + len
           fs == Whole(addr, end)
<1>2. PICK lo \in Nat : OnPage(lo) /\ addr <= lo /\ lo < addr + PageSize
  BY Rounding
<1>3. PICK hi \in Nat : OnPage(hi) /\ hi <= end /\ end < hi + PageSize
  <2>1. end \in Nat
    OBVIOUS
  <2> QED BY <2>1, Rounding
<1>4. \A a \in Nat : OnPage(a) => a \div PageSize \in Int /\ a = (a \div PageSize) * PageSize
  <2>1. \A a \in Nat : a \in Int
    OBVIOUS
  <2> QED BY <1>1, <2>1, Quotients DEF OnPage
<1>5. PICK p \in Int, q \in Int : lo = p * PageSize /\ hi = q * PageSize
  BY <1>2, <1>3, <1>4
<1> DEFINE page == [f \in fs |-> f \div PageSize]
<1>6. page \in Injection(fs, p .. q - 1)
  <2>1. ASSUME NEW f \in fs PROVE f \in Nat /\ f \div PageSize \in p .. q - 1 /\ f = (f \div PageSize) * PageSize
    <3>1. f \in Nat /\ OnPage(f) /\ addr <= f /\ f + PageSize <= end
      BY DEF Whole
    <3>2. PICK k \in Int : k = f \div PageSize /\ f = k * PageSize
      BY <1>4, <3>1
    <3>3. ~ (k < p)
      <4> SUFFICES ASSUME k < p PROVE FALSE
        OBVIOUS
      <4>1. (k + 1) * PageSize <= p * PageSize /\ (k + 1) * PageSize = k * PageSize + PageSize
        BY <1>1, Products
      <4> QED BY <1>1, <1>2, <1>5, <3>1, <3>2, <4>1
    <3>4. ~ (q <= k)
      <4> SUFFICES ASSUME q <= k PROVE FALSE
        OBVIOUS
      <4>1. q * PageSize <= k * PageSize
        BY <1>1, Products
      <4> QED BY <1>1, <1>3, <1>5, <3>1, <3>2, <4>1
    <3> QED BY <3>1, <3>2, <3>3, <3>4
  <2>2. ASSUME NEW f \in fs, NEW g \in fs, f \div PageSize = g \div PageSize PROVE f = g
    BY <2>1, <2>2
  <2> HIDE DEF fs
  <2>3. \A f \in fs : page[f] = f \div PageSize
    OBVIOUS
  <2>4. page \in [fs -> p .. q - 1]
    BY <2>1
  <2> HIDE DEF page
  <2>5. \A f, g \in fs : page[f] = page[g] => f = g
    BY <2>2, <2>3
  <2> QED BY <2>4, <2>5 DEF Injection, IsInjective
<1> HIDE DEF page, fs
<1>7. IsFiniteSet(p .. q - 1) /\ Cardinality(p .. q - 1) = IF p > q - 1 THEN 0 ELSE (q - 1) - p + 1
  BY FS_Interval
<1>8. IsFiniteSet(fs) /\ Cardinality(fs) <= Cardinality(p .. q - 1)
  BY <1>6, <1>7, FS_Injection
<1>9. PICK c \in Nat : c = Cardinality(fs)
  BY <1>8, FS_CardinalityType
<1>10. c * PageSize <= len
  <2>1. CASE p > q - 1
    <3>1. c = 0
      BY <1>7, <1>8, <1>9, <2>1
    <3> QED BY <1>1, <3>1
  <2>2. CASE ~ (p > q - 1)
    <3>1. p + c <= q
      BY <1>7, <1>8, <1>9, <2>2
    <3>2. (p + c) * PageSize <= q * PageSize
      BY <1>1, <3>1, Products
    <3>3. (p + c) * PageSize = lo + c * PageSize /\ c * PageSize \in Nat
      BY <1>1, <1>5
    <3> QED BY <1>2, <1>3, <1>5, <3>2, <3>3
  <2> QED BY <2>1, <2>2
<1> QED BY <1>8, <1>9, <1>10 DEF fs

-----------------------------------------------------------------------------
(* The walk over the memory map.                                           *)

MapTags == {i \in DOMAIN tags : tags[i].type = MapType}

(* The place behind k entries of s bytes, in a map at p. *)
EntryPlace(p, k, s) == p + MapHeader + k * s

(* The walk stands at the beginning of a tag, or before or behind an entry of a
   map, or it has come to its end. *)
At(i) == /\ ptr = tags[i].at
         /\ \/ ent = 0
            \/ /\ i \in MapTags
               /\ \E k \in 0 .. Len(tags[i].entries) : ent = EntryPlace(ptr, k, tags[i].entry_size)
Walking == Parsed \/ \E i \in DOMAIN tags : At(i)

(* Entry j of the map at i has been given to the callback. *)
Passed(i, j) == \/ ptr > tags[i].at
                \/ ptr = tags[i].at /\ ent # 0 /\ ent >= EntryPlace(ptr, j, tags[i].entry_size)
EntriesPassed ==
  UNION {{tags[i].entries[j] : j \in {j \in DOMAIN tags[i].entries : Passed(i, j)}} : i \in MapTags}
FramesPassed == UNION {UsableIn(e) : e \in EntriesPassed}

IInv == /\ TypeOK
        /\ Walking
        /\ Table(regions)
        /\ FreeFrames \cap owned = {} /\ lost \cap (FreeFrames \cup owned) = {}
        /\ FreeFrames \cup owned \cup lost = FramesPassed
        /\ IsFiniteSet(FramesPassed)
        /\ Cardinality(FramesPassed) * PageSize <= total_memory

(* What the boot loader leaves: the tags stand behind one another. *)
LEMMA TagFacts ==
  ASSUME tags \in Infos
  PROVE  /\ tags \in Seq(Tag) /\ Len(tags) \in Nat /\ Len(tags) \in DOMAIN tags
         /\ DOMAIN tags = 1 .. Len(tags)
         /\ \A i \in DOMAIN tags :
              /\ tags[i].at \in Nat /\ tags[i].at % 8 = 0
              /\ tags[i].type \in Nat /\ tags[i].size \in Nat \ {0} /\ tags[i].entry_size \in Nat \ {0}
              /\ tags[i].entries \in Seq(Entry) /\ Len(tags[i].entries) \in Nat
              /\ DOMAIN tags[i].entries = 1 .. Len(tags[i].entries)
              /\ tags[i].type = EndType <=> i = Len(tags)
              /\ tags[i].type = EndType => tags[i].size = 8
              /\ i \in MapTags => i # Len(tags) /\ tags[i].size = MapHeader + Len(tags[i].entries) * tags[i].entry_size
              /\ tags[i].at < TotalSize
         /\ \A i, j \in DOMAIN tags : i < j => tags[i].at + tags[i].size <= tags[j].at
         /\ \A i, j \in DOMAIN tags : j = i + 1 => tags[j].at < tags[i].at + tags[i].size + 8
         /\ TotalSize \in Nat
<1>1. tags \in Seq(Tag) /\ tags # << >>
  BY InfosAssumption
<1>2. Len(tags) \in Nat /\ DOMAIN tags = 1 .. Len(tags) /\ Len(tags) \in DOMAIN tags
  BY <1>1
<1>3. ASSUME NEW i \in DOMAIN tags
      PROVE  /\ tags[i].at \in Nat /\ tags[i].at % 8 = 0
             /\ tags[i].type \in Nat /\ tags[i].size \in Nat \ {0} /\ tags[i].entry_size \in Nat \ {0}
             /\ tags[i].entries \in Seq(Entry) /\ Len(tags[i].entries) \in Nat
             /\ DOMAIN tags[i].entries = 1 .. Len(tags[i].entries)
             /\ tags[i].type = EndType <=> i = Len(tags)
             /\ tags[i].type = EndType => tags[i].size = 8
             /\ i \in MapTags => i # Len(tags) /\ tags[i].size = MapHeader + Len(tags[i].entries) * tags[i].entry_size
  <2>1. tags[i] \in Tag
    BY <1>1
  <2>2. /\ tags[i].at % 8 = 0
        /\ tags[i].type = EndType <=> i = Len(tags)
        /\ tags[i].type = EndType => tags[i].size = 8
        /\ tags[i].type = MapType => tags[i].size = MapHeader + Len(tags[i].entries) * tags[i].entry_size
    BY InfosAssumption
  <2>3. /\ tags[i].at \in Nat /\ tags[i].type \in Nat /\ tags[i].size \in Nat \ {0}
        /\ tags[i].entry_size \in Nat \ {0} /\ tags[i].entries \in Seq(Entry)
    BY <2>1 DEF Tag
  <2>4. Len(tags[i].entries) \in Nat /\ DOMAIN tags[i].entries = 1 .. Len(tags[i].entries)
    BY <2>3
  <2>5. i \in MapTags => tags[i].type = MapType /\ i # Len(tags)
    BY <2>2 DEF MapTags, MapType, EndType
  <2> QED BY <2>2, <2>3, <2>4, <2>5
<1>4. \A i, j \in DOMAIN tags : i < j => tags[i].at + tags[i].size <= tags[j].at
  BY InfosAssumption DEF Behind
<1>5. \A i, j \in DOMAIN tags : j = i + 1 => tags[j].at < tags[i].at + tags[i].size + 8
  BY InfosAssumption DEF Behind
<1>6. TotalSize = tags[Len(tags)].at + tags[Len(tags)].size /\ TotalSize \in Nat
  BY <1>2, <1>3 DEF TotalSize, Behind
<1>7. ASSUME NEW i \in DOMAIN tags PROVE tags[i].at < TotalSize
  <2>1. CASE i = Len(tags)
    BY <1>2, <1>3, <1>6, <2>1
  <2>2. CASE i < Len(tags)
    <3>1. PICK n \in DOMAIN tags : n = Len(tags)
      BY <1>2
    <3>2. tags[i].at \in Nat /\ tags[i].size \in Nat \ {0} /\ tags[n].at \in Nat /\ tags[n].size \in Nat
      BY <1>3
    <3>3. tags[i].at + tags[i].size <= tags[n].at
      BY <1>4, <2>2, <3>1
    <3> QED BY <1>6, <3>1, <3>2, <3>3
  <2> QED BY <1>2, <2>1, <2>2
<1> QED BY <1>1, <1>2, <1>3, <1>4, <1>5, <1>6, <1>7

(* Tags with higher numbers stand further on. *)
LEMMA TagOrder ==
  ASSUME tags \in Infos, NEW p \in DOMAIN tags, NEW q \in DOMAIN tags
  PROVE  /\ p < q <=> tags[p].at < tags[q].at
         /\ p \in Nat /\ q \in Nat /\ tags[p].at \in Nat /\ tags[q].at \in Nat
<1>1. /\ tags[p].at \in Nat /\ tags[q].at \in Nat /\ p \in Nat /\ q \in Nat
      /\ tags[p].size \in Nat \ {0} /\ tags[q].size \in Nat \ {0}
  BY TagFacts
<1>2. p < q => tags[p].at + tags[p].size <= tags[q].at
  BY TagFacts
<1>3. q < p => tags[q].at + tags[q].size <= tags[p].at
  BY TagFacts
<1>4. p = q => tags[p].at = tags[q].at
  OBVIOUS
<1> QED BY <1>1, <1>2, <1>3, <1>4

(* The tag that is read where one begins. *)
LEMMA TagRead ==
  ASSUME tags \in Infos, NEW i \in DOMAIN tags, ptr = tags[i].at
  PROVE  Here = tags[i] /\ ~Parsed
<1>1. \A j \in DOMAIN tags : tags[j].at = tags[i].at => j = i
  <2> SUFFICES ASSUME NEW j \in DOMAIN tags, tags[j].at = tags[i].at PROVE j = i
    OBVIOUS
  <2>1. ~(i < j) /\ ~(j < i) /\ i \in Nat /\ j \in Nat
    BY TagOrder
  <2> QED BY <2>1
<1>2. (CHOOSE j \in DOMAIN tags : tags[j].at = ptr) = i
  BY <1>1
<1>3. Here = tags[i]
  BY <1>2 DEF Here, TagAt
<1>4. tags[i].at < TotalSize /\ tags[i].at \in Nat /\ TotalSize \in Nat
  BY TagFacts
<1> QED BY <1>3, <1>4 DEF Parsed

(* A frame has been given to the callback with its entry. *)
LEMMA InPassed ==
  ASSUME NEW f
  PROVE  f \in FramesPassed <=>
         \E i \in MapTags : \E j \in DOMAIN tags[i].entries : Passed(i, j) /\ f \in UsableIn(tags[i].entries[j])
BY DEF FramesPassed, EntriesPassed

(* memory_map.c:70: the next multiple of 8 behind a tag is where the next one is. *)
LEMMA NextPlace ==
  ASSUME NEW a \in Nat, NEW s \in Nat, NEW b \in Nat, a % 8 = 0, b % 8 = 0, a + s <= b, b < a + s + 8
  PROVE  a + Aligned(s) = b
BY DEF Aligned

(* While the walk is under way it stands at a tag. *)
LEMMA StandsAt ==
  ASSUME tags \in Infos, Walking, ~Parsed
  PROVE  \E i \in DOMAIN tags : At(i) /\ Here = tags[i]
<1>1. PICK i \in DOMAIN tags : At(i)
  BY DEF Walking
<1>2. Here = tags[i]
  BY <1>1, TagRead DEF At
<1> QED BY <1>1, <1>2

(* A step with the same entries passed leaves the same frames passed. *)
LEMMA SamePassed ==
  ASSUME tags' = tags, \A i \in MapTags : \A j \in DOMAIN tags[i].entries : Passed(i, j)' <=> Passed(i, j)
  PROVE  FramesPassed' = FramesPassed
<1>1. MapTags' = MapTags
  BY DEF MapTags
<1>2. EntriesPassed' = EntriesPassed
  <2>1. \A i \in MapTags : {j \in DOMAIN tags[i].entries : Passed(i, j)}'
                            = {j \in DOMAIN tags[i].entries : Passed(i, j)}
    OBVIOUS
  <2> QED BY <1>1, <2>1 DEF EntriesPassed
<1> QED BY <1>2 DEF FramesPassed

(* memory_map.c:57-60: the walk enters a map before its first entry. *)
LEMMA MapEntered ==
  ASSUME TypeOK, Walking, EnterMap
  PROVE  Walking' /\ FramesPassed' = FramesPassed /\ ptr' \in Nat /\ ent' \in Nat
<1>1. tags \in Infos /\ ptr \in Nat /\ ent = 0 /\ ~Parsed /\ tags' = tags /\ ptr' = ptr
      /\ ent' = ptr + MapHeader /\ Here.type = MapType
  BY DEF TypeOK, EnterMap
<1>2. PICK i \in DOMAIN tags : At(i) /\ Here = tags[i]
  BY <1>1, StandsAt
<1>3. i \in MapTags /\ ptr = tags[i].at
  BY <1>1, <1>2 DEF MapTags, At
<1>4. Len(tags[i].entries) \in Nat /\ tags[i].entry_size \in Nat
  BY <1>1, TagFacts
<1>5. ent' = EntryPlace(ptr', 0, tags[i].entry_size) /\ 0 \in 0 .. Len(tags[i].entries)
  BY <1>1, <1>4 DEF MapHeader, EntryPlace
<1>6. At(i)'
  BY <1>1, <1>3, <1>5 DEF At, MapTags
<1>7. ASSUME NEW p \in MapTags, NEW j \in DOMAIN tags[p].entries PROVE Passed(p, j)' <=> Passed(p, j)
  <2>1. tags[p].entry_size \in Nat \ {0} /\ j \in Nat \ {0}
    BY <1>1, TagFacts DEF MapTags
  <2>2. j * tags[p].entry_size >= 1
    <3>1. PICK s \in Nat \ {0}, k \in Nat \ {0} : s = tags[p].entry_size /\ k = j
      BY <2>1
    <3>2. 1 <= k /\ 1 * s <= k * s
      BY Products
    <3> QED BY <3>1, <3>2
  <2>3. j * tags[p].entry_size \in Int
    BY <2>1
  <2> QED BY <1>1, <2>2, <2>3 DEF Passed, MapHeader, EntryPlace
<1>8. Walking'
  BY <1>1, <1>6 DEF Walking
<1>9. ptr' \in Nat /\ ent' \in Nat
  BY <1>1 DEF MapHeader
<1> QED BY <1>1, <1>7, <1>8, <1>9, SamePassed

(* A map ends behind its entries. *)
LEMMA MapEnd ==
  ASSUME NEW p \in Nat, NEW l \in Nat, NEW s \in Nat \ {0}
  PROVE  p + (MapHeader + l * s) = EntryPlace(p, l, s)
<1>1. PICK z \in Nat : z = l * s
  OBVIOUS
<1> QED BY <1>1 DEF EntryPlace, MapHeader

(* Behind entry k of l, with no place for another one, every entry is before. *)
LEMMA NoMoreEntries ==
  ASSUME NEW s \in Nat \ {0}, NEW l \in Nat, NEW k \in Nat, NEW j \in Nat, NEW p \in Nat, NEW e \in Nat,
         j <= l, e = EntryPlace(p, k, s), ~(e + s <= EntryPlace(p, l, s))
  PROVE  e >= EntryPlace(p, j, s)
<1>1. ~(k + 1 <= l)
  <2> SUFFICES ASSUME k + 1 <= l PROVE FALSE
    OBVIOUS
  <2>1. PICK m \in Nat : m = k + 1
    OBVIOUS
  <2>2. m * s <= l * s
    BY <2>1, Products
  <2>3. m * s = k * s + s
    BY <2>1
  <2>4. k * s \in Nat /\ l * s \in Nat
    OBVIOUS
  <2>5. PICK x \in Nat, z \in Nat : x = k * s /\ z = l * s
    BY <2>4
  <2>6. x + s <= z /\ e = p + MapHeader + x /\ ~(e + s <= p + MapHeader + z)
    BY <2>2, <2>3, <2>5 DEF EntryPlace
  <2> QED BY <2>6 DEF MapHeader
<1>2. j <= k
  BY <1>1
<1>3. j * s <= k * s /\ j * s \in Nat /\ k * s \in Nat
  BY <1>2, Products
<1> QED BY <1>3 DEF MapHeader, EntryPlace

(* memory_map.c:68-72: the walk leaves a map behind its last entry, for the next
   tag. *)
LEMMA TagLeft ==
  ASSUME TypeOK, Walking, NextTag
  PROVE  Walking' /\ FramesPassed' = FramesPassed /\ ptr' \in Nat /\ ent' \in Nat
<1>1. tags \in Infos /\ ptr \in Nat /\ ent \in Nat /\ ~Parsed /\ ~AtEnd /\ tags' = tags
      /\ ent' = 0 /\ ptr' = ptr + Aligned(Here.size)
  BY DEF TypeOK, NextTag
<1>2. PICK i \in DOMAIN tags : At(i) /\ Here = tags[i]
  BY <1>1, StandsAt
<1>3. i # Len(tags)
  <2>1. i = Len(tags) => tags[i].type = EndType /\ tags[i].size = 8
    BY <1>1, TagFacts
  <2> QED BY <1>1, <1>2, <2>1 DEF AtEnd
<1>4. PICK n \in DOMAIN tags : n = i + 1
  BY <1>1, <1>3, TagFacts
<1>5. ptr' = tags[n].at
  <2>1. ptr = tags[i].at /\ Here.size = tags[i].size
    BY <1>2 DEF At
  <2>2. /\ tags[i].at \in Nat /\ tags[i].at % 8 = 0 /\ tags[i].size \in Nat \ {0}
        /\ tags[n].at \in Nat /\ tags[n].at % 8 = 0
    BY <1>1, TagFacts
  <2>3. tags[i].at + tags[i].size <= tags[n].at
    <3>1. i < n
      BY <1>1, <1>4, TagFacts
    <3> QED BY <1>1, <3>1, TagFacts
  <2>4. tags[n].at < tags[i].at + tags[i].size + 8
    BY <1>1, <1>4, TagFacts
  <2>5. PICK a \in Nat, s \in Nat, b \in Nat : a = tags[i].at /\ s = tags[i].size /\ b = tags[n].at
    BY <2>2
  <2>6. a + Aligned(s) = b
    BY <2>2, <2>3, <2>4, <2>5, NextPlace
  <2> QED BY <1>1, <2>1, <2>5, <2>6
<1>6. Walking'
  <2>1. At(n)'
    BY <1>1, <1>5 DEF At
  <2> QED BY <1>1, <2>1 DEF Walking
<1>7. i \in MapTags => \A j \in DOMAIN tags[i].entries : Passed(i, j)
  <2> SUFFICES ASSUME i \in MapTags, NEW j \in DOMAIN tags[i].entries PROVE Passed(i, j)
    OBVIOUS
  <2>1. PICK s \in Nat \ {0}, l \in Nat : s = tags[i].entry_size /\ l = Len(tags[i].entries)
    BY <1>1, TagFacts
  <2>2. Here.type = MapType /\ Here.entry_size = s /\ Here.size = MapHeader + l * s
    BY <1>1, <1>2, <2>1, TagFacts DEF MapTags
  <2>3. ent # 0 /\ ~(ent + s <= EntryPlace(ptr, l, s))
    <3>1. ent # 0 /\ ~(ent + s <= ptr + (MapHeader + l * s))
      BY <1>1, <2>2 DEF NextTag, InMap, HasEntry
    <3>2. ptr + (MapHeader + l * s) = EntryPlace(ptr, l, s)
      BY <1>1, MapEnd
    <3> QED BY <3>1, <3>2
  <2>4. PICK k \in 0 .. l : ent = EntryPlace(ptr, k, s)
    BY <1>2, <2>1, <2>3 DEF At
  <2>5. j \in 1 .. l
    BY <1>1, <2>1, TagFacts
  <2>6. ptr = tags[i].at /\ ent # 0 /\ k \in Nat
    BY <1>2, <2>3 DEF At
  <2>7. PICK m \in Nat : m = j /\ m <= l
    BY <2>5
  <2>8. ent >= EntryPlace(ptr, m, s)
    BY <1>1, <2>1, <2>3, <2>4, <2>6, <2>7, NoMoreEntries
  <2> QED BY <2>1, <2>6, <2>7, <2>8 DEF Passed
<1>8. ASSUME NEW p \in MapTags, NEW j \in DOMAIN tags[p].entries PROVE Passed(p, j)' <=> Passed(p, j)
  <2>1. p \in DOMAIN tags
    BY DEF MapTags
  <2>2. Passed(p, j)' <=> tags[n].at > tags[p].at
    BY <1>1, <1>5 DEF Passed
  <2>3. ptr = tags[i].at /\ p \in Nat /\ i \in Nat /\ tags[p].at \in Nat /\ tags[n].at \in Nat
    BY <1>1, <1>2, <2>1, TagOrder DEF At
  <2>4. CASE p < i
    <3>1. p < n
      BY <1>4, <2>3, <2>4
    <3>2. tags[p].at < tags[n].at /\ tags[p].at < tags[i].at
      BY <1>1, <2>1, <2>4, <3>1, TagOrder
    <3> QED BY <2>2, <2>3, <3>2 DEF Passed
  <2>5. CASE p = i
    <3>1. p < n
      BY <1>4, <2>3, <2>5
    <3>2. tags[p].at < tags[n].at
      BY <1>1, <2>1, <3>1, TagOrder
    <3>3. Passed(p, j)
      BY <1>7, <2>5
    <3> QED BY <2>2, <2>3, <3>2, <3>3
  <2>6. CASE p > i
    <3>1. ~(p < n)
      BY <1>4, <2>3, <2>6
    <3>2. ~(tags[p].at < tags[n].at)
      BY <1>1, <2>1, <3>1, TagOrder
    <3>3. tags[i].at < tags[p].at /\ tags[i].at \in Nat
      BY <1>1, <2>1, <2>6, TagOrder
    <3> QED BY <2>2, <2>3, <3>2, <3>3 DEF Passed
  <2> QED BY <2>3, <2>4, <2>5, <2>6
<1>9. ptr' \in Nat /\ ent' \in Nat
  BY <1>1, <1>5, TagFacts
<1> QED BY <1>1, <1>6, <1>8, <1>9, SamePassed

(* memory_map.c:54: the walk ends at the last tag, with every map behind it. *)
LEMMA WalkEnded ==
  ASSUME TypeOK, Walking, EndTag
  PROVE  Walking' /\ FramesPassed' = FramesPassed /\ ptr' \in Nat /\ ent' \in Nat
<1>1. tags \in Infos /\ ptr \in Nat /\ ent \in Nat /\ ~Parsed /\ AtEnd /\ tags' = tags
      /\ ent' = ent /\ ptr' = TotalSize
  BY DEF TypeOK, EndTag
<1>2. PICK i \in DOMAIN tags : At(i) /\ Here = tags[i]
  BY <1>1, StandsAt
<1>3. i = Len(tags)
  BY <1>1, <1>2, TagFacts DEF AtEnd
<1>4. TotalSize' = TotalSize /\ TotalSize \in Nat
  BY <1>1, TagFacts DEF TotalSize
<1>5. Walking'
  BY <1>1, <1>4 DEF Walking, Parsed
<1>6. ASSUME NEW p \in MapTags, NEW j \in DOMAIN tags[p].entries PROVE Passed(p, j)' /\ Passed(p, j)
  <2>1. p \in DOMAIN tags /\ p # Len(tags) /\ p < i
    BY <1>1, <1>3, TagFacts DEF MapTags
  <2>2. /\ tags[p].at \in Nat /\ tags[p].size \in Nat \ {0} /\ tags[i].at \in Nat
        /\ tags[p].at < TotalSize /\ tags[p].at + tags[p].size <= tags[i].at
    BY <1>1, <2>1, TagFacts
  <2>3. ptr = tags[i].at
    BY <1>2 DEF At
  <2> QED BY <1>1, <1>4, <2>2, <2>3 DEF Passed
<1>7. ptr' \in Nat /\ ent' \in Nat
  BY <1>1, <1>4
<1> QED BY <1>1, <1>5, <1>6, <1>7, SamePassed

(* Entry k of l, with place for another one. *)
LEMMA OneMoreEntry ==
  ASSUME NEW s \in Nat \ {0}, NEW l \in Nat, NEW k \in Nat, NEW p \in Nat, NEW e \in Nat,
         e = EntryPlace(p, k, s), e + s <= EntryPlace(p, l, s)
  PROVE  /\ k + 1 <= l
         /\ (e - p - MapHeader) \div s = k
         /\ e + s = EntryPlace(p, k + 1, s)
<1>1. PICK x \in Nat, z \in Nat : x = k * s /\ z = l * s
  OBVIOUS
<1>2. (k + 1) * s = x + s
  BY <1>1
<1>3. e = p + MapHeader + x /\ e + s <= p + MapHeader + z
  BY <1>1 DEF EntryPlace
<1>4. (k + 1) * s <= l * s
  BY <1>1, <1>2, <1>3 DEF MapHeader
<1>5. k + 1 <= l
  BY <1>4, Products
<1>6. (k * s) \div s = k
  BY Quotients
<1>7. e - p - MapHeader = k * s
  BY <1>1, <1>3 DEF MapHeader
<1>8. e + s = EntryPlace(p, k + 1, s)
  BY <1>2, <1>3 DEF MapHeader, EntryPlace
<1> QED BY <1>5, <1>6, <1>7, <1>8

(* Behind entry k of a map, the entries up to k are passed. *)
LEMMA EntryOrder ==
  ASSUME NEW s \in Nat \ {0}, NEW j \in Nat, NEW k \in Nat, NEW p \in Nat, NEW e \in Nat,
         e = EntryPlace(p, k, s)
  PROVE  e >= EntryPlace(p, j, s) <=> j <= k
<1>1. PICK x \in Nat, y \in Nat : x = k * s /\ y = j * s
  OBVIOUS
<1>2. j <= k <=> y <= x
  <2>1. j \in Int /\ k \in Int
    OBVIOUS
  <2> QED BY <1>1, <2>1, Products
<1>3. e >= p + MapHeader + y <=> y <= x
  <2>1. e = p + MapHeader + x
    BY <1>1 DEF EntryPlace
  <2> QED BY <2>1 DEF MapHeader
<1> QED BY <1>1, <1>2, <1>3 DEF EntryPlace

(* The frames of two entries of the map are different ones. *)
LEMMA EntriesApart ==
  ASSUME tags \in Infos, NEW i \in DOMAIN tags, NEW j \in DOMAIN tags,
         NEW k \in DOMAIN tags[i].entries, NEW l \in DOMAIN tags[j].entries, <<i, k>> # <<j, l>>
  PROVE  UsableIn(tags[i].entries[k]) \cap UsableIn(tags[j].entries[l]) = {}
<1> DEFINE d == tags[i].entries[k]
           e == tags[j].entries[l]
<1>1. d \in Entry /\ e \in Entry
  BY TagFacts
<1>2. d.addr + d.len <= e.addr \/ e.addr + e.len <= d.addr
  BY MapsAssumption
<1> HIDE DEF d, e
<1>3. d.addr \in Nat /\ d.len \in Nat /\ e.addr \in Nat /\ e.len \in Nat /\ PageSize \in Nat \ {0}
  BY <1>1, PageAssumption DEF Entry
<1>4. ASSUME NEW f, f \in UsableIn(d), f \in UsableIn(e) PROVE FALSE
  <2>1. f \in d.addr .. d.addr + d.len - PageSize /\ f \in e.addr .. e.addr + e.len - PageSize
    BY <1>4 DEF UsableIn
  <2> QED BY <1>2, <1>3, <2>1
<1> QED BY <1>4 DEF d, e

(* memory_map.c:61-65: an entry of the map is given to the callback, once. *)
LEMMA EntryGiven ==
  ASSUME TypeOK, Walking, NextEntry
  PROVE  /\ Walking' /\ ptr' \in Nat /\ ent' \in Nat /\ EntryHere \in Entry
         /\ FramesPassed' = FramesPassed \cup UsableIn(EntryHere)
         /\ FramesPassed \cap UsableIn(EntryHere) = {}
<1>1. /\ tags \in Infos /\ ptr \in Nat /\ ent \in Nat /\ ~Parsed /\ ent # 0
      /\ ent + Here.entry_size <= ptr + Here.size
      /\ tags' = tags /\ ptr' = ptr /\ ent' = ent + Here.entry_size
  BY DEF TypeOK, NextEntry, HasEntry, InMap
<1>2. PICK i \in DOMAIN tags : At(i) /\ Here = tags[i]
  BY <1>1, StandsAt
<1>3. i \in MapTags /\ ptr = tags[i].at
  BY <1>1, <1>2 DEF At
<1>4. PICK s \in Nat \ {0}, l \in Nat : s = tags[i].entry_size /\ l = Len(tags[i].entries)
  BY <1>1, TagFacts
<1>5. Here.entry_size = s /\ Here.size = MapHeader + l * s
  BY <1>1, <1>2, <1>3, <1>4, TagFacts
<1>6. PICK k \in Nat : ent = EntryPlace(ptr, k, s)
  BY <1>1, <1>2, <1>4 DEF At
<1>7. ent + s <= EntryPlace(ptr, l, s)
  <2>1. ptr + (MapHeader + l * s) = EntryPlace(ptr, l, s)
    BY <1>1, MapEnd
  <2> QED BY <1>1, <1>5, <2>1
<1>8. /\ k + 1 <= l /\ (ent - ptr - MapHeader) \div s = k
      /\ ent + s = EntryPlace(ptr, k + 1, s)
  BY <1>1, <1>6, <1>7, OneMoreEntry
<1>9. PICK n \in DOMAIN tags[i].entries : n = k + 1 /\ n \in Nat
  <2>1. DOMAIN tags[i].entries = 1 .. l
    BY <1>1, <1>4, TagFacts
  <2>2. k + 1 \in 1 .. l /\ k + 1 \in Nat
    BY <1>8
  <2> QED BY <2>1, <2>2
<1>10. EntryHere = tags[i].entries[n]
  BY <1>2, <1>5, <1>8, <1>9 DEF EntryHere
<1>11. EntryHere \in Entry
  BY <1>1, <1>9, <1>10, TagFacts
<1>12. Walking'
  <2>1. n \in 0 .. Len(tags[i].entries)
    BY <1>4, <1>8, <1>9
  <2>2. ent' = EntryPlace(ptr, n, tags[i].entry_size)
    BY <1>1, <1>4, <1>5, <1>8, <1>9
  <2>3. At(i)'
    BY <1>1, <1>3, <2>1, <2>2 DEF At, MapTags
  <2> QED BY <1>1, <2>3 DEF Walking
<1>13. \A j \in DOMAIN tags[i].entries : Passed(i, j) <=> j <= k
  <2> SUFFICES ASSUME NEW j \in DOMAIN tags[i].entries PROVE Passed(i, j) <=> j <= k
    OBVIOUS
  <2>1. PICK m \in Nat : m = j
    BY <1>1, TagFacts
  <2>2. ent >= EntryPlace(ptr, m, s) <=> m <= k
    BY <1>1, <1>6, EntryOrder
  <2>3. ~(ptr > tags[i].at)
    BY <1>1, <1>3
  <2> QED BY <1>1, <1>3, <1>4, <2>1, <2>2, <2>3 DEF Passed
<1>14. \A j \in DOMAIN tags[i].entries : Passed(i, j)' <=> j <= n
  <2> SUFFICES ASSUME NEW j \in DOMAIN tags[i].entries PROVE Passed(i, j)' <=> j <= n
    OBVIOUS
  <2>1. PICK m \in Nat : m = j
    BY <1>1, TagFacts
  <2>2. PICK e \in Nat : e = ent' /\ e = EntryPlace(ptr, n, s) /\ e # 0
    BY <1>1, <1>4, <1>5, <1>8, <1>9
  <2>3. e >= EntryPlace(ptr, m, s) <=> m <= n
    BY <1>1, <1>9, <2>2, EntryOrder
  <2>4. ~(ptr > tags[i].at)
    BY <1>1, <1>3
  <2> QED BY <1>1, <1>3, <1>4, <2>1, <2>2, <2>3, <2>4 DEF Passed
<1>15. \A p \in MapTags : p # i => \A j \in DOMAIN tags[p].entries : Passed(p, j)' <=> Passed(p, j)
  <2> SUFFICES ASSUME NEW p \in MapTags, p # i, NEW j \in DOMAIN tags[p].entries
               PROVE  Passed(p, j)' <=> Passed(p, j)
    OBVIOUS
  <2>1. p \in DOMAIN tags
    BY DEF MapTags
  <2>2. tags[p].at # tags[i].at
    BY <1>1, <2>1, TagOrder
  <2> QED BY <1>1, <1>3, <2>2 DEF Passed
<1>16. \A f : f \in FramesPassed' <=> f \in FramesPassed \cup UsableIn(EntryHere)
  <2> TAKE f
  <2>1. f \in FramesPassed' <=>
        \E p \in MapTags : \E j \in DOMAIN tags[p].entries : Passed(p, j)' /\ f \in UsableIn(tags[p].entries[j])
    BY <1>1 DEF FramesPassed, EntriesPassed, MapTags
  <2>2. \A j \in DOMAIN tags[i].entries : Passed(i, j)' <=> Passed(i, j) \/ j = n
    BY <1>1, <1>9, <1>13, <1>14, TagFacts
  <2> QED BY <1>3, <1>9, <1>10, <1>15, <2>1, <2>2, InPassed
<1>17. FramesPassed \cap UsableIn(EntryHere) = {}
  <2> SUFFICES ASSUME NEW f \in FramesPassed PROVE f \notin UsableIn(EntryHere)
    OBVIOUS
  <2>1. PICK p \in MapTags : \E j \in DOMAIN tags[p].entries : Passed(p, j) /\ f \in UsableIn(tags[p].entries[j])
    BY InPassed
  <2>2. PICK j \in DOMAIN tags[p].entries : Passed(p, j) /\ f \in UsableIn(tags[p].entries[j])
    BY <2>1
  <2>3. <<p, j>> # <<i, n>>
    BY <1>9, <1>13, <2>2
  <2>4. UsableIn(tags[p].entries[j]) \cap UsableIn(tags[i].entries[n]) = {}
    BY <1>1, <2>3, EntriesApart DEF MapTags
  <2> QED BY <1>10, <2>2, <2>4
<1>18. ptr' \in Nat /\ ent' \in Nat
  BY <1>1, <1>4, <1>5
<1> QED BY <1>11, <1>12, <1>16, <1>17, <1>18

(* pmm.c:71-103: the frames of an entry are those outside the kernel in what is
   left of it above the low memory; an entry that is not counted has none. *)
LEMMA UsableFramesOf ==
  ASSUME NEW e \in Entry, NEW start, start = IF e.addr < LowTop THEN LowTop ELSE e.addr
  PROVE  /\ Counted(e) => UsableIn(e) = Outside(start, e.addr + e.len)
         /\ ~Counted(e) => UsableIn(e) = {}
         /\ UsableIn(e) \subseteq Whole(e.addr, e.addr + e.len)
         /\ start \in Nat /\ e.addr + e.len \in Nat /\ e.addr \in Nat /\ e.len \in Nat
<1>1. /\ e.addr \in Nat /\ e.len \in Nat /\ e.usable \in BOOLEAN
      /\ PageSize \in Nat \ {0} /\ LowTop \in Nat \ {0} /\ KStart \in Nat /\ KEnd \in Nat
  BY PageAssumption, LayoutAssumption DEF Entry
<1>2. UsableIn(e) \subseteq Whole(e.addr, e.addr + e.len)
  <2> SUFFICES ASSUME NEW f \in UsableIn(e) PROVE f \in Whole(e.addr, e.addr + e.len)
    OBVIOUS
  <2>1. f \in e.addr .. e.addr + e.len - PageSize /\ OnPage(f)
    BY DEF UsableIn, OnPage
  <2> QED BY <1>1, <2>1 DEF Whole
<1>3. ASSUME ~Counted(e), NEW f \in UsableIn(e) PROVE FALSE
  <2>1. f \in e.addr .. e.addr + e.len - PageSize /\ e.usable /\ f >= LowTop
    BY DEF UsableIn
  <2> QED BY <1>1, <1>3, <2>1 DEF Counted
<1>4. ASSUME Counted(e) PROVE UsableIn(e) = Outside(start, e.addr + e.len)
  <2>1. e.usable
    BY <1>4 DEF Counted
  <2>2. ASSUME NEW f \in UsableIn(e) PROVE f \in Outside(start, e.addr + e.len)
    <3>1. /\ f \in e.addr .. e.addr + e.len - PageSize /\ OnPage(f) /\ f >= LowTop
          /\ f + PageSize <= KStart \/ f >= KEnd
      BY DEF UsableIn, OnPage
    <3> QED BY <1>1, <3>1 DEF Outside, Whole
  <2>3. ASSUME NEW f \in Outside(start, e.addr + e.len) PROVE f \in UsableIn(e)
    <3>1. /\ f \in Nat /\ OnPage(f) /\ start <= f /\ f + PageSize <= e.addr + e.len
          /\ f + PageSize <= KStart \/ f >= KEnd
      BY DEF Outside, Whole
    <3>2. f \in e.addr .. e.addr + e.len - PageSize /\ f >= LowTop
      BY <1>1, <3>1
    <3> QED BY <2>1, <3>1, <3>2 DEF UsableIn, OnPage
  <2> QED BY <2>2, <2>3
<1> QED BY <1>1, <1>2, <1>3, <1>4

(* The frames passed are whole frames of entries of the map. *)
LEMMA PassedFrames ==
  ASSUME tags \in Infos, NEW f \in FramesPassed
  PROVE  f \in Nat /\ OnPage(f) /\ f \in UsableFrames
<1>1. PICK i \in MapTags : \E j \in DOMAIN tags[i].entries : Passed(i, j) /\ f \in UsableIn(tags[i].entries[j])
  BY InPassed
<1>2. PICK j \in DOMAIN tags[i].entries : f \in UsableIn(tags[i].entries[j])
  BY <1>1
<1>3. tags[i].entries[j] \in Entry
  BY TagFacts DEF MapTags
<1>4. f \in Whole(tags[i].entries[j].addr, tags[i].entries[j].addr + tags[i].entries[j].len)
  BY <1>2, <1>3, UsableFramesOf
<1>5. tags[i].entries[j] \in Entries
  BY DEF Entries, MapTags
<1> QED BY <1>2, <1>4, <1>5 DEF Whole, UsableFrames

(* Once the map is parsed, every entry has been given to the callback. *)
LEMMA AllPassed ==
  ASSUME tags \in Infos, ptr \in Nat, Parsed
  PROVE  UsableFrames \subseteq FramesPassed
<1> SUFFICES ASSUME NEW f \in UsableFrames PROVE f \in FramesPassed
  OBVIOUS
<1>1. PICK e \in Entries : f \in UsableIn(e)
  BY DEF UsableFrames
<1>2. PICK i \in MapTags : \E j \in DOMAIN tags[i].entries : e = tags[i].entries[j]
  BY DEF Entries, MapTags
<1>3. PICK j \in DOMAIN tags[i].entries : e = tags[i].entries[j]
  BY <1>2
<1>4. Passed(i, j)
  <2>1. i \in DOMAIN tags
    BY DEF MapTags
  <2>2. tags[i].at < TotalSize /\ tags[i].at \in Nat /\ TotalSize \in Nat
    BY <2>1, TagFacts
  <2> QED BY <2>2 DEF Passed, Parsed
<1> QED BY <1>1, <1>3, <1>4, InPassed

-----------------------------------------------------------------------------
(* The steps.                                                              *)

LEMMA FreeAre == FreeFrames = FramesIn(regions)
BY DEF FreeFrames, FramesIn

(* What is given to the table and not held any more is free or dropped. *)
LEMMA Settled ==
  ASSUME NEW fs, Given(regions, regions', fs), Dropped(fs),
         FreeFrames \cap owned = {}, lost \cap (FreeFrames \cup owned) = {},
         fs \cap (FreeFrames \cup lost) = {}, owned' \subseteq owned, owned' \cap fs = {}
  PROVE  /\ Table(regions') /\ FreeFrames' \cap owned' = {} /\ lost' \cap (FreeFrames' \cup owned') = {}
         /\ FreeFrames' \cup lost' = FreeFrames \cup lost \cup fs
<1>1. FreeFrames' = FramesIn(regions') /\ FreeFrames = FramesIn(regions)
  BY DEF FreeFrames, FramesIn
<1>2. /\ Table(regions') /\ FreeFrames \subseteq FreeFrames' /\ FreeFrames' \subseteq FreeFrames \cup fs
      /\ fs \subseteq FreeFrames' \/ Len(regions') = MaxRegions
  BY <1>1 DEF Given
<1>3. lost' \subseteq lost \cup (fs \ FreeFrames') /\ lost \subseteq lost'
  BY DEF Dropped
<1>4. fs \subseteq FreeFrames' \cup lost'
  BY <1>2 DEF Dropped
<1> QED BY <1>2, <1>3, <1>4

LEMMA Initially == Init => IInv
<1> SUFFICES ASSUME Init PROVE IInv
  OBVIOUS
<1>1. /\ tags \in Infos /\ ptr = InfoHeader /\ ent = 0
      /\ regions = << >> /\ total_memory = 0 /\ owned = {} /\ lost = {}
  BY DEF Init, WalkInit
<1>2. ptr \in Nat
  BY <1>1 DEF InfoHeader
<1>3. regions \in Seq(Region) /\ Len(regions) = 0 /\ DOMAIN regions = {} /\ Len(regions) <= MaxRegions
  BY <1>1, RegionsAssumption
<1>4. TypeOK
  BY <1>1, <1>2, <1>3 DEF TypeOK
<1>5. ptr = tags[1].at /\ 1 \in DOMAIN tags
  BY <1>1, InfosAssumption, TagFacts
<1>6. Walking
  BY <1>1, <1>5 DEF Walking, At
<1>7. Table(regions) /\ FreeFrames = {}
  BY <1>3 DEF Table, FreeFrames
<1>8. FramesPassed = {}
  <2> SUFFICES ASSUME NEW f \in FramesPassed PROVE FALSE
    OBVIOUS
  <2>1. PICK i \in MapTags : \E j \in DOMAIN tags[i].entries : Passed(i, j)
    BY InPassed
  <2>2. i \in DOMAIN tags
    BY DEF MapTags
  <2>3. ~(tags[i].at < tags[1].at)
    <3>1. ~(i < 1)
      BY <1>1, <2>2, TagFacts
    <3> QED BY <1>1, <1>5, <2>2, <3>1, TagOrder
  <2>4. tags[i].at \in Nat
    BY <1>1, <2>2, TagFacts
  <2> QED BY <1>1, <1>2, <1>5, <2>1, <2>3, <2>4 DEF Passed
<1>9. IsFiniteSet(FramesPassed) /\ Cardinality(FramesPassed) * PageSize <= total_memory
  <2>1. IsFiniteSet({}) /\ Cardinality({}) = 0
    BY FS_EmptySet
  <2>2. 0 * PageSize = 0
    BY PageAssumption
  <2> QED BY <1>1, <1>8, <2>1, <2>2
<1> QED BY <1>1, <1>4, <1>6, <1>7, <1>8, <1>9 DEF IInv

(* pmm.c:66: the table and the counter after an entry of the map. *)
LEMMA EntryStep == ASSUME IInv, MmapEntry PROVE IInv'
<1>1. /\ TypeOK /\ Walking /\ Table(regions)
      /\ FreeFrames \cap owned = {} /\ lost \cap (FreeFrames \cup owned) = {}
      /\ FreeFrames \cup owned \cup lost = FramesPassed
      /\ IsFiniteSet(FramesPassed) /\ Cardinality(FramesPassed) * PageSize <= total_memory
  BY DEF IInv
<1>2. NextEntry /\ owned' = owned /\ tags' = tags
  BY DEF MmapEntry, NextEntry
<1> DEFINE e == EntryHere
           fs == UsableIn(e)
<1>3. /\ Walking' /\ ptr' \in Nat /\ ent' \in Nat /\ e \in Entry
      /\ FramesPassed' = FramesPassed \cup fs /\ FramesPassed \cap fs = {}
  BY <1>1, <1>2, EntryGiven
<1>4. PICK start : start = IF e.addr < LowTop THEN LowTop ELSE e.addr
  OBVIOUS
<1>5. /\ Counted(e) => fs = Outside(start, e.addr + e.len)
      /\ ~Counted(e) => fs = {}
      /\ fs \subseteq Whole(e.addr, e.addr + e.len)
      /\ start \in Nat /\ e.addr + e.len \in Nat /\ e.addr \in Nat /\ e.len \in Nat
  BY <1>3, <1>4, UsableFramesOf
<1>6. IF Counted(e)
      THEN /\ regions' = AddAroundKernel(regions, start, e.addr + e.len)
           /\ total_memory' = total_memory + e.len /\ Dropped(fs)
      ELSE regions' = regions /\ total_memory' = total_memory /\ lost' = lost
  BY <1>4 DEF MmapEntry
<1> HIDE DEF e, fs
<1>7. /\ Table(regions') /\ FreeFrames' \cap owned' = {} /\ lost' \cap (FreeFrames' \cup owned') = {}
      /\ FreeFrames' \cup lost' = FreeFrames \cup lost \cup fs
  <2>1. CASE Counted(e)
    <3>1. FramesIn(regions) \cap Outside(start, e.addr + e.len) = {}
      BY <1>1, <1>3, <1>5, <2>1, FreeAre
    <3>2. Given(regions, regions', fs)
      BY <1>1, <1>5, <1>6, <2>1, <3>1, AroundKernel
    <3>3. fs \cap (FreeFrames \cup lost) = {} /\ owned' \subseteq owned /\ owned' \cap fs = {}
      BY <1>1, <1>2, <1>3
    <3> QED BY <1>1, <1>6, <2>1, <3>2, <3>3, Settled
  <2>2. CASE ~Counted(e)
    <3>1. FreeFrames' = FreeFrames
      BY <1>6, <2>2 DEF FreeFrames
    <3> QED BY <1>1, <1>2, <1>5, <1>6, <2>2, <3>1
  <2> QED BY <2>1, <2>2
<1>8. FreeFrames' \cup owned' \cup lost' = FramesPassed'
  BY <1>1, <1>2, <1>3, <1>7
<1>9. total_memory' \in Nat /\ IsFiniteSet(FramesPassed') /\ Cardinality(FramesPassed') * PageSize <= total_memory'
  <2>1. IsFiniteSet(fs) /\ Cardinality(fs) \in Nat /\ Cardinality(fs) * PageSize <= e.len
    <3>1. /\ IsFiniteSet(Whole(e.addr, e.addr + e.len))
          /\ Cardinality(Whole(e.addr, e.addr + e.len)) \in Nat
          /\ Cardinality(Whole(e.addr, e.addr + e.len)) * PageSize <= e.len
      BY <1>5, WholeFrames
    <3>2. IsFiniteSet(fs) /\ Cardinality(fs) <= Cardinality(Whole(e.addr, e.addr + e.len))
      BY <1>5, <3>1, FS_Subset
    <3>3. PICK c \in Nat, w \in Nat : c = Cardinality(fs) /\ w = Cardinality(Whole(e.addr, e.addr + e.len))
      BY <3>1, <3>2, FS_CardinalityType
    <3>4. c * PageSize <= w * PageSize /\ c * PageSize \in Int
      <4>1. c \in Int /\ w \in Int /\ c <= w
        BY <3>2, <3>3
      <4> QED BY <4>1, Products, PageAssumption
    <3>5. w * PageSize <= e.len /\ w * PageSize \in Int
      BY <3>1, <3>3, PageAssumption
    <3> QED BY <1>5, <3>2, <3>3, <3>4, <3>5
  <2>2. IsFiniteSet(FramesPassed') /\ Cardinality(FramesPassed') = Cardinality(FramesPassed) + Cardinality(fs)
    <3>1. IsFiniteSet({}) /\ Cardinality({}) = 0
      BY FS_EmptySet
    <3>2. Cardinality(FramesPassed) \in Nat
      BY <1>1, FS_CardinalityType
    <3>3. /\ IsFiniteSet(FramesPassed \cup fs)
          /\ Cardinality(FramesPassed \cup fs)
               = Cardinality(FramesPassed) + Cardinality(fs) - Cardinality(FramesPassed \cap fs)
      BY <1>1, <2>1, FS_Union
    <3>4. Cardinality(FramesPassed \cap fs) = 0
      BY <1>3, <3>1
    <3> QED BY <1>3, <2>1, <3>2, <3>3, <3>4
  <2>3. PICK c \in Nat, d \in Nat : c = Cardinality(FramesPassed) /\ d = Cardinality(fs)
    BY <1>1, <2>1, FS_CardinalityType
  <2>4. (c + d) * PageSize = c * PageSize + d * PageSize /\ c * PageSize \in Nat /\ d * PageSize \in Nat
    BY PageAssumption
  <2>5. total_memory \in Nat
    BY <1>1 DEF TypeOK
  <2>6. CASE Counted(e)
    <3>1. total_memory' = total_memory + e.len
      BY <1>6, <2>6
    <3>2. c * PageSize <= total_memory /\ d * PageSize <= e.len
      BY <1>1, <2>1, <2>3
    <3>3. c * PageSize + d * PageSize <= total_memory + e.len
      BY <1>5, <2>4, <2>5, <3>2
    <3> QED BY <1>5, <2>2, <2>3, <2>4, <2>5, <3>1, <3>3
  <2>7. CASE ~Counted(e)
    BY <1>1, <1>3, <1>5, <1>6, <2>5, <2>7
  <2> QED BY <2>6, <2>7
<1>10. TypeOK'
  <2>1. tags' \in Infos
    BY <1>1, <1>2 DEF TypeOK
  <2>2. owned' \subseteq Nat /\ lost' \subseteq Nat
    <3>1. \A f \in FramesPassed : f \in Nat
      BY <1>1, PassedFrames DEF TypeOK
    <3>2. \A f \in fs : f \in Nat
      BY <1>5 DEF Whole
    <3> QED BY <1>3, <1>8, <3>1, <3>2
  <2>3. regions' \in Seq(Region) /\ Len(regions') <= MaxRegions
    BY <1>7 DEF Table
  <2> QED BY <1>3, <1>9, <2>1, <2>2, <2>3 DEF TypeOK
<1> QED BY <1>3, <1>7, <1>8, <1>9, <1>10 DEF IInv, Table

(* The steps between entries leave the table alone. *)
LEMMA WalkStep == ASSUME IInv, Walk PROVE IInv'
<1>1. TypeOK /\ Walking
  BY DEF IInv
<1>2. UNCHANGED pmmVars /\ tags' = tags
  BY DEF Walk, EnterMap, NextTag, EndTag
<1>3. Walking' /\ FramesPassed' = FramesPassed /\ ptr' \in Nat /\ ent' \in Nat
  BY <1>1, MapEntered, TagLeft, WalkEnded DEF Walk
<1>4. FreeFrames' = FreeFrames
  BY <1>2 DEF FreeFrames, pmmVars
<1> QED BY <1>2, <1>3, <1>4 DEF IInv, TypeOK, pmmVars, Table

(* What allocating and releasing has in common: the frames change hands, and
   there are no others. *)
LEMMA ChangeHands ==
  ASSUME IInv, UNCHANGED <<walkVars, total_memory>>, Table(regions'),
         FreeFrames' \cap owned' = {}, lost' \cap (FreeFrames' \cup owned') = {},
         FreeFrames' \cup owned' \cup lost' = FreeFrames \cup owned \cup lost
  PROVE  IInv'
<1>1. FramesPassed' = FramesPassed /\ tags' = tags /\ ptr' = ptr /\ ent' = ent /\ total_memory' = total_memory
  BY DEF FramesPassed, EntriesPassed, MapTags, Passed, walkVars
<1>2. Walking'
  BY <1>1 DEF IInv, Walking, Parsed, TotalSize, At, MapTags
<1>3. TypeOK'
  <2>1. FreeFrames \cup owned \cup lost = FramesPassed /\ TypeOK
    BY DEF IInv
  <2>2. \A f \in FramesPassed : f \in Nat
    BY <2>1, PassedFrames DEF TypeOK
  <2>3. owned' \subseteq Nat /\ lost' \subseteq Nat
    BY <2>1, <2>2
  <2> QED BY <1>1, <2>1, <2>3 DEF TypeOK, Table
<1> QED BY <1>1, <1>2, <1>3 DEF IInv

(* pmm_alloc_frame, pmm_alloc_frames: frames go from the table to a caller. *)
LEMMA TakeStep == ASSUME IInv, NEW n \in Nat \ {0}, Take(n) PROVE IInv'
<1>1. Table(regions) /\ regions \in Seq(Region) /\ FreeFrames \cap owned = {} /\ lost \cap (FreeFrames \cup owned) = {}
  BY DEF IInv, Table
<1>2. PICK i : i = Min(Fits(n))
  OBVIOUS
<1>3. i \in DOMAIN regions /\ n <= regions[i].frames
  <2>1. Fits(n) \subseteq 1 .. Len(regions) /\ Fits(n) # {} /\ Len(regions) \in Nat
    BY <1>1 DEF Take, Fits
  <2>2. i \in Fits(n)
    BY <1>2, <2>1, FirstIndex
  <2>3. i \in DOMAIN regions /\ regions[i].frames >= n
    BY <2>2 DEF Fits
  <2>4. regions[i].frames \in Nat
    <3>1. regions[i] \in Region
      BY <1>1, <2>3
    <3> QED BY <3>1 DEF Region
  <2> QED BY <2>3, <2>4
<1>4. /\ regions' = Shrunk(regions, i, n) /\ owned' = owned \cup Block(regions[i].addr, n)
      /\ UNCHANGED <<walkVars, total_memory, lost>>
  BY <1>2 DEF Take, Shrink, Shrunk
<1>5. /\ Table(regions') /\ FramesIn(regions') = FramesIn(regions) \ Block(regions[i].addr, n)
      /\ Block(regions[i].addr, n) \subseteq FramesIn(regions)
  BY <1>1, <1>3, <1>4, Taken
<1>6. FreeFrames' = FramesIn(regions') /\ FreeFrames = FramesIn(regions)
  BY DEF FreeFrames, FramesIn
<1>7. /\ FreeFrames' \cap owned' = {} /\ lost' \cap (FreeFrames' \cup owned') = {}
      /\ FreeFrames' \cup owned' \cup lost' = FreeFrames \cup owned \cup lost
  BY <1>1, <1>4, <1>5, <1>6
<1> QED BY <1>4, <1>5, <1>7, ChangeHands

(* Frames go back from a caller to the table, or are dropped. *)
LEMMA Released ==
  ASSUME IInv, NEW fs, fs \subseteq owned, Given(regions, regions', fs), Dropped(fs), owned' = owned \ fs,
         UNCHANGED <<walkVars, total_memory>>
  PROVE  IInv'
<1>1. FreeFrames \cap owned = {} /\ lost \cap (FreeFrames \cup owned) = {}
  BY DEF IInv
<1>2. /\ Table(regions') /\ FreeFrames' \cap owned' = {} /\ lost' \cap (FreeFrames' \cup owned') = {}
      /\ FreeFrames' \cup lost' = FreeFrames \cup lost \cup fs
  BY <1>1, Settled
<1>3. FreeFrames' \cup owned' \cup lost' = FreeFrames \cup owned \cup lost
  BY <1>2
<1> QED BY <1>2, <1>3, ChangeHands

(* What a caller holds is a whole frame, and is not in the table. *)
LEMMA HeldFrame ==
  ASSUME IInv, NEW f \in owned
  PROVE  f \in Nat /\ OnPage(f) /\ f \in FramesPassed
BY PassedFrames DEF IInv, TypeOK

(* pmm_free_frame *)
LEMMA FreeFrameStep == ASSUME IInv, NEW f \in owned, FreeFrame(f) PROVE IInv'
<1>1. f \in Nat /\ OnPage(f)
  BY HeldFrame
<1>2. Block(f, 1) = {f}
  <2>1. f + 0 * PageSize = f
    BY <1>1, PageAssumption
  <2> QED BY <2>1 DEF Block
<1>3. Table(regions) /\ FramesIn(regions) \cap Block(f, 1) = {}
  BY <1>2, FreeAre DEF IInv
<1>4. Given(regions, regions', {f})
  BY <1>1, <1>2, <1>3, Inserted DEF FreeFrame
<1> QED BY <1>4, Released DEF FreeFrame

(* pmm_free_frames *)
LEMMA FreeBlockStep == ASSUME IInv, NEW f \in owned, NEW n \in Nat \ {0}, FreeBlock(f, n) PROVE IInv'
<1>1. f \in Nat /\ OnPage(f) /\ n \in Nat
  BY HeldFrame
<1>2. PICK end \in Nat : end = f + n * PageSize /\ OnPage(end) /\ Block(f, n) = Span(f, end)
  BY <1>1, Blocks
<1>3. Span(f, end) = Whole(f, end)
  <2>1. \A g \in Nat : OnPage(g) => (g < end <=> g + PageSize <= end)
    BY <1>2, Multiples
  <2> QED BY <2>1 DEF Span, Whole
<1>4. Table(regions) /\ Block(f, n) \subseteq owned /\ FramesIn(regions) \cap Whole(f, end) = {}
  BY <1>2, <1>3, FreeAre DEF IInv, FreeBlock
<1>5. Given(regions, regions', Block(f, n))
  BY <1>1, <1>2, <1>3, <1>4, Added DEF FreeBlock
<1> QED BY <1>4, <1>5, Released DEF FreeBlock

LEMMA Inductive == IInv /\ [Next]_vars => IInv'
<1> SUFFICES ASSUME IInv, [Next]_vars PROVE IInv'
  OBVIOUS
<1>1. CASE MmapEntry
  BY <1>1, EntryStep
<1>2. CASE Walk
  BY <1>2, WalkStep
<1>3. CASE AllocFrame
  BY <1>3, TakeStep DEF AllocFrame
<1>4. CASE \E n \in 1 .. MaxAlloc : AllocFrames(n)
  BY <1>4, TakeStep, MaxAllocAssumption DEF AllocFrames
<1>5. CASE \E f \in owned : FreeFrame(f)
  BY <1>5, FreeFrameStep
<1>6. CASE \E f \in owned, n \in 1 .. MaxAlloc : FreeBlock(f, n)
  BY <1>6, FreeBlockStep, MaxAllocAssumption
<1>7. CASE UNCHANGED vars
  <2>1. FreeFrames' = FreeFrames
    BY <1>7 DEF FreeFrames, vars, pmmVars
  <2> QED BY <1>7, <2>1, ChangeHands DEF IInv, vars, pmmVars
<1> QED BY <1>1, <1>2, <1>3, <1>4, <1>5, <1>6, <1>7 DEF Next

-----------------------------------------------------------------------------
(* The theorems.                                                           *)

(* The inductive invariant holds throughout: in every state the frames of the
   entries parsed so far are divided into the free, the held and the dropped. *)
THEOREM Invariance == Spec => []IInv
BY Initially, Inductive, PTL DEF Spec

(* The variables of the walk and of the allocator stay within their types, and the
   table within its MAX_FREE_REGIONS entries (pmm.c:60). *)
THEOREM TypeCorrect == Spec => []TypeOK
<1>1. IInv => TypeOK
  BY DEF IInv
<1> QED BY <1>1, Invariance, PTL

(* No frame is in two regions, or both free and held: none can be handed out twice
   (pmm.c:147), however large the table and the blocks are. *)
THEOREM FramesInOnePlace == Spec => []NoDoubleUse
<1>1. IInv => NoDoubleUse
  BY DEF IInv, NoDoubleUse, Table
<1> QED BY <1>1, Invariance, PTL

(* The allocator has the frames the map leaves to it and no others, none is lost
   track of, and no more is free than was counted (pmm.c:37, :60, :202). *)
THEOREM FramesAccounted == Spec => []Accounted
<1>1. IInv => Accounted
  <2> SUFFICES ASSUME IInv PROVE Accounted
    OBVIOUS
  <2>1. tags \in Infos /\ ptr \in Nat /\ total_memory \in Nat
    BY DEF IInv, TypeOK
  <2>2. FreeFrames \cup owned \cup lost \subseteq UsableFrames
    BY <2>1, PassedFrames DEF IInv
  <2>3. Ready => UsableFrames \subseteq FreeFrames \cup owned \cup lost
    BY <2>1, AllPassed DEF IInv, Ready
  <2>4. Cardinality(FreeFrames) * PageSize <= total_memory
    <3>1. IsFiniteSet(FramesPassed) /\ FreeFrames \subseteq FramesPassed
      BY DEF IInv
    <3>2. IsFiniteSet(FreeFrames) /\ Cardinality(FreeFrames) <= Cardinality(FramesPassed)
      BY <3>1, FS_Subset
    <3>3. PICK c \in Nat, d \in Nat : c = Cardinality(FreeFrames) /\ d = Cardinality(FramesPassed)
      BY <3>1, <3>2, FS_CardinalityType
    <3>4. c * PageSize <= d * PageSize /\ c * PageSize \in Int /\ d * PageSize \in Int
      <4>1. c \in Int /\ d \in Int /\ c <= d
        BY <3>2, <3>3
      <4> QED BY <4>1, Products, PageAssumption
    <3>5. d * PageSize <= total_memory
      BY <3>3 DEF IInv
    <3> QED BY <2>1, <3>3, <3>4, <3>5
  <2> QED BY <2>2, <2>3, <2>4 DEF Accounted
<1> QED BY <1>1, Invariance, PTL
=============================================================================
