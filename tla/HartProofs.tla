----------------------------- MODULE HartProofs -----------------------------
(***************************************************************************)
(* Proofs about the hart and the runtime around it.                        *)
(*                                                                         *)
(* An operator of Mmu or Hart takes a hart and returns the next one.  For  *)
(* each of them a lemma says which fields it may change (Keeps); what the  *)
(* walk, the dirty bits and the timers need of it is derived from that.    *)
(* A step of the interpreter then is one that it counts as progress        *)
(* (RanStep) or one that it does not (MoveStep), and the inductive         *)
(* invariant HartInv is kept by each, by each step of the runtime and by   *)
(* each of the world around it.                                            *)
(***************************************************************************)
EXTENDS HartRuntime, OrderLemmas, TLAPS

Fields ==
  {"pc", "priv", "flags", "mpp", "mie", "mip", "mideleg", "medeleg", "mtvec", "stvec", "mepc", "sepc",
   "satp", "menvcfg", "senvcfg", "mcounteren", "scounteren", "stimecmp", "pmp", "power_down", "service",
   "reprogrammed", "ticks", "tlb", "mem", "dirty"}

\* The hart u differs from t in the fields of F only.
Keeps(t, u, F) == \A g \in Fields \ F : u[g] = t[g]

Slots == 0 .. TlbSize - 1
Places == 0 .. Span - 1

-----------------------------------------------------------------------------
(* The walk.                                                               *)

\* Tables have pages below them, and an address has an entry at each level.
LEMMA PagesPositive == \A k \in 0 .. Levels : PagesBelow[k] \in Nat \ {0}
<1> DEFINE step == [i \in 1 .. Levels |-> [x \in Nat \ {0} |-> Span * x]]
           Solves(g) == g = [k \in 0 .. Levels |-> IF k = 0 THEN 1 ELSE Span * g[k - 1]]
           f == CHOOSE g : Solves(g)
<1>1. Levels \in Nat /\ Span \in Nat \ {0}
  BY MmuAssumption
<1>2. step \in [1 .. Levels -> [Nat \ {0} -> Nat \ {0}]]
  <2>1. \A x \in Nat \ {0} : Span * x \in Nat \ {0}
    BY <1>1
  <2> QED
    BY <2>1
<1>3. PICK h : Follows(h, Levels, Nat \ {0}, 1, step)
  <2>1. 1 \in Nat \ {0}
    OBVIOUS
  <2> HIDE DEF step
  <2> QED
    BY <1>1, <1>2, <2>1, Recursion
<1>4. \A i \in 1 .. Levels : h[i] = Span * h[i - 1]
  <2> SUFFICES ASSUME NEW i \in 1 .. Levels PROVE h[i] = Span * h[i - 1]
    OBVIOUS
  <2>1. h[i - 1] \in Nat \ {0}
    BY <1>1, <1>3 DEF Follows
  <2>2. h[i] = step[i][h[i - 1]]
    <3> HIDE DEF step
    <3> QED
      BY <1>3 DEF Follows
  <2> QED
    BY <2>1, <2>2
<1>5. h \in [0 .. Levels -> Nat \ {0}] /\ h[0] = 1
  BY <1>3 DEF Follows
<1>6. Solves(h)
  BY <1>1, <1>4, <1>5
<1>7. Solves(f)
  <2> HIDE DEF Solves
  <2> QED
    BY <1>6, Zenon
<1>8. PagesBelow = f
  BY DEF PagesBelow
<1> HIDE DEF f
<1> DEFINE T == {k \in 0 .. Levels : f[k] \in Nat \ {0}}
<1>9. 0 \in T
  BY <1>1, <1>7
<1>10. ASSUME NEW k \in 0 .. Levels - 1, k \in T
       PROVE  k + 1 \in T
  <2>1. k + 1 \in 0 .. Levels /\ k + 1 # 0 /\ (k + 1) - 1 = k
    BY <1>1
  <2>2. f[k + 1] = Span * f[k]
    BY <1>7, <2>1
  <2> QED
    BY <1>1, <1>10, <2>1, <2>2
<1> HIDE DEF T
<1>11. \A k \in 0 .. Levels : k \in T
  BY <1>1, <1>9, <1>10, InductionUpTo
<1> QED
  BY <1>8, <1>11 DEF T

\* The place of an entry is a place of its table.
LEMMA EntryPlace ==
  ASSUME NEW v \in Nat, NEW i \in 0 .. Levels - 1
  PROVE  PteIndex(v, i) \in Places
<1>1. PICK n : n = PagesOf(i)
  OBVIOUS
<1>2. n \in Nat \ {0}
  <2>1. Levels - 1 - i \in 0 .. Levels
    BY MmuAssumption
  <2> QED
    BY <1>1, <2>1, PagesPositive DEF PagesOf
<1>3. v \div n \in Nat
  BY <1>2, DivMod
<1>4. Span \in Nat \ {0}
  BY MmuAssumption
<1>5. (v \div n) % Span \in 0 .. Span - 1
  BY <1>3, <1>4
<1> QED
  BY <1>1, <1>5 DEF PteIndex, Places

\* What the walk of a hart t may end in: a fault, or a leaf.
Leaves(t, v) == {p \in Frames \X (0 .. Levels - 1) : t.mem[p[1]][PteIndex(v, p[2])].xwr # {}}
Ends(t, v, a) ==
  {PageFault(t), AccessFault(t)}
    \union {UseLeaf(t, p[1], t.mem[p[1]][PteIndex(v, p[2])], v, p[2], a) : p \in Leaves(t, v)}

\* f is the table of the recursion over the levels that are left.
WalkTable(f, t, v, a) ==
  /\ f \in [0 .. Levels -> [Tables -> Ends(t, v, a)]]
  /\ f[0] = [table \in Tables |-> PageFault(t)]
  /\ \A n \in 1 .. Levels : f[n] = WalkLevel(t, v, a, Levels - n, f[n - 1])

\* What one level gives, without the recursion below it.
LEMMA LevelEnds ==
  ASSUME NEW t \in Harts, NEW v \in Nat, NEW a \in Access, NEW i \in 0 .. Levels - 1,
         NEW below \in [Tables -> Ends(t, v, a)]
  PROVE  WalkLevel(t, v, a, i, below) \in [Tables -> Ends(t, v, a)]
<1> SUFFICES ASSUME NEW table \in Tables
             PROVE  WalkLevel(t, v, a, i, below)[table] \in Ends(t, v, a)
  BY DEF WalkLevel
<1> DEFINE pte == t.mem[table][PteIndex(v, i)]
<1>1. CASE table = -1
  BY <1>1 DEF WalkLevel, Ends
<1>2. CASE table # -1
  <2>1. table \in Frames
    BY <1>2 DEF Tables
  <2>2. pte \in Words
    <3>1. t.mem \in [Frames -> [Places -> Words]]
      BY DEF Harts, Places
    <3> QED
      BY <2>1, <3>1, EntryPlace
  <2>3. pte.V \in BOOLEAN /\ pte.rsv \in BOOLEAN /\ pte.ppn \in Nat
    BY <2>2 DEF Words
  <2>4. TableAt(pte.ppn) \in Tables
    BY DEF TableAt, Tables
  <2>5. PageFault(t) \in Ends(t, v, a) /\ below[TableAt(pte.ppn)] \in Ends(t, v, a)
        /\ (pte.xwr # {} => UseLeaf(t, table, pte, v, i, a) \in Ends(t, v, a))
    <3>1. ASSUME pte.xwr # {} PROVE UseLeaf(t, table, pte, v, i, a) \in Ends(t, v, a)
      <4>1. <<table, i>> \in Leaves(t, v)
        BY <2>1, <3>1 DEF Leaves
      <4> QED
        BY <4>1 DEF Ends
    <3> QED
      BY <2>4, <3>1 DEF Ends
  <2>6. WalkLevel(t, v, a, i, below)[table] =
           CASE ~pte.V \/ pte.rsv -> PageFault(t)
             [] pte.V /\ ~pte.rsv /\ pte.xwr # {} ->
                  IF LeafPermits(t, pte, v, i, a)
                  THEN UseLeaf(t, table, pte, v, i, a) ELSE PageFault(t)
             [] pte.V /\ ~pte.rsv /\ pte.xwr = {} ->
                  IF PointerOk(pte) THEN below[TableAt(pte.ppn)] ELSE PageFault(t)
    BY <1>2 DEF WalkLevel
  <2> HIDE DEF pte
  <2>7. CASE ~pte.V \/ pte.rsv
    BY <2>5, <2>6, <2>7
  <2>8. CASE pte.V /\ ~pte.rsv /\ pte.xwr # {}
    BY <2>5, <2>6, <2>8
  <2>9. CASE pte.V /\ ~pte.rsv /\ pte.xwr = {}
    BY <2>5, <2>6, <2>9
  <2> QED
    BY <2>3, <2>7, <2>8, <2>9
<1> QED
  BY <1>1, <1>2

\* The recursive walk, level by level.
LEMMA WalkUnfolds ==
  ASSUME NEW t \in Harts, NEW v \in Nat, NEW a \in Access
  PROVE  \E f : /\ WalkTable(f, t, v, a)
                /\ get_phys_addr(t, v, a) =
                     IF get_effective_priv(t, a) = PRV_M \/ t.satp.mode = "bare" THEN Translated(t, v)
                     ELSE IF Canonical(v) THEN f[Levels][TableAt(t.satp.ppn)] ELSE PageFault(t)
<1> DEFINE S == [Tables -> Ends(t, v, a)]
           base == [table \in Tables |-> PageFault(t)]
           step == [n \in 1 .. Levels |-> [x \in S |-> WalkLevel(t, v, a, Levels - n, x)]]
           Value(g, n) == IF n = 0 THEN base ELSE WalkLevel(t, v, a, Levels - n, g[n - 1])
           Solves(g) == g = [n \in 0 .. Levels |-> Value(g, n)]
           f == CHOOSE g : Solves(g)
<1>1. Levels \in Nat
  BY MmuAssumption
<1>2. base \in S
  BY DEF Ends
<1> HIDE DEF base
<1>3. step \in [1 .. Levels -> [S -> S]]
  <2>1. ASSUME NEW n \in 1 .. Levels, NEW x \in S
        PROVE  WalkLevel(t, v, a, Levels - n, x) \in S
    <3>1. Levels - n \in 0 .. Levels - 1
      BY <1>1
    <3> QED
      BY <3>1, LevelEnds
  <2> HIDE DEF S
  <2> QED
    BY <2>1
<1> HIDE DEF S
<1>4. PICK h : Follows(h, Levels, S, base, step)
  <2> HIDE DEF step
  <2> QED
    BY <1>1, <1>2, <1>3, Recursion
<1>5. \A n \in 1 .. Levels : h[n] = WalkLevel(t, v, a, Levels - n, h[n - 1])
  <2> SUFFICES ASSUME NEW n \in 1 .. Levels
               PROVE  h[n] = WalkLevel(t, v, a, Levels - n, h[n - 1])
    OBVIOUS
  <2>1. h[n - 1] \in S /\ h[n] = step[n][h[n - 1]]
    BY <1>1, <1>4 DEF Follows
  <2> QED
    BY <2>1
<1>6. h \in [0 .. Levels -> S] /\ h[0] = base
  BY <1>4 DEF Follows
<1>7. Solves(h)
  <2>1. ASSUME NEW n \in 0 .. Levels PROVE h[n] = Value(h, n)
    <3>1. CASE n = 0
      BY <1>6, <3>1
    <3>2. CASE n \in 1 .. Levels
      BY <1>5, <3>2
    <3> QED
      BY <1>1, <3>1, <3>2
  <2> HIDE DEF Value
  <2> QED
    BY <1>6, <2>1
<1>8. Solves(f)
  <2> HIDE DEF Solves
  <2> QED
    BY <1>7, Zenon
<1> HIDE DEF f
<1>9. f[0] = base /\ \A n \in 1 .. Levels : f[n] = WalkLevel(t, v, a, Levels - n, f[n - 1])
  <2>1. \A n \in 0 .. Levels : f[n] = Value(f, n)
    <3> HIDE DEF Value
    <3> QED
      BY <1>8
  <2> QED
    BY <1>1, <2>1
<1> DEFINE T == {n \in 0 .. Levels : f[n] \in S}
<1>10. 0 \in T
  BY <1>1, <1>2, <1>9
<1>11. ASSUME NEW n \in 0 .. Levels - 1, n \in T
       PROVE  n + 1 \in T
  <2>1. n + 1 \in 1 .. Levels /\ (n + 1) - 1 = n /\ Levels - (n + 1) \in 0 .. Levels - 1
    BY <1>1
  <2>2. f[n + 1] = WalkLevel(t, v, a, Levels - (n + 1), f[n])
    BY <1>9, <2>1
  <2>3. f[n + 1] \in S
    BY <1>11, <2>1, <2>2, LevelEnds DEF S
  <2> QED
    BY <2>1, <2>3
<1> HIDE DEF T
<1>12. \A n \in 0 .. Levels : n \in T
  BY <1>1, <1>10, <1>11, InductionUpTo
<1>13. f \in [0 .. Levels -> S]
  <2>1. f = [n \in 0 .. Levels |-> Value(f, n)]
    BY <1>8
  <2>2. DOMAIN f = 0 .. Levels /\ f = [n \in 0 .. Levels |-> f[n]]
    <3> HIDE DEF Value
    <3> QED
      BY <2>1
  <2> QED
    BY <1>12, <2>2 DEF T
<1>14. WalkTable(f, t, v, a)
  BY <1>9, <1>13 DEF WalkTable, S, base
<1>15. get_phys_addr(t, v, a) =
         IF get_effective_priv(t, a) = PRV_M \/ t.satp.mode = "bare" THEN Translated(t, v)
         ELSE IF Canonical(v) THEN f[Levels][TableAt(t.satp.ppn)] ELSE PageFault(t)
  BY DEF get_phys_addr, f, base
<1> QED
  BY <1>14, <1>15

\* The word q is p, or the leaf p with A or D set.
MoreUsed(p, q) ==
  /\ q.V = p.V /\ q.xwr = p.xwr /\ q.U = p.U /\ q.ppn = p.ppn /\ q.pbmt = p.pbmt
  /\ q.N = p.N /\ q.rsv = p.rsv
  /\ p.A => q.A
  /\ p.D => q.D
  /\ p.xwr = {} => q.A = p.A /\ q.D = p.D
UsedMore(t, u) == \A f \in Frames, i \in Places : MoreUsed(t.mem[f][i], u.mem[f][i])

\* From t to u the tracked frames that change are marked, and no mark is lost.
Marks(t, u) ==
  /\ t.dirty \subseteq u.dirty
  /\ \A f \in Tracked : u.mem[f] # t.mem[f] => f \in u.dirty

\* What a walk does to a hart.
Walked(t, u) == u \in Harts /\ Keeps(t, u, {"mem", "dirty"}) /\ UsedMore(t, u) /\ Marks(t, u)

\* The types of RAM, the dirty bits and the TLBs.
LEMMA HartMemory ==
  ASSUME NEW t \in Harts
  PROVE  t.mem \in [Frames -> [Places -> Words]] /\ t.dirty \subseteq Tracked
         /\ t.tlb \in [Tlbs -> [Slots -> TlbEntries]]
BY DEF Harts, Places, Slots

LEMMA NothingWalked ==
  ASSUME NEW t \in Harts
  PROVE  Walked(t, t)
BY DEF Walked, Keeps, UsedMore, MoreUsed, Marks

\* A word of a frame is stored, and the frame marked.
LEMMA MarkedStore ==
  ASSUME NEW t \in Harts, NEW f \in Frames, NEW i \in Places, NEW w \in Words
  PROVE  LET u == PutWord(phys_mem_set_dirty_bit(t, f), f, i, w)
         IN  /\ u \in Harts /\ Keeps(t, u, {"mem", "dirty"}) /\ Marks(t, u)
             /\ u.mem = [t.mem EXCEPT ![f][i] = w]
             /\ u.dirty = t.dirty \union ({f} \intersect Tracked)
<1> DEFINE m == [t.mem EXCEPT ![f][i] = w]
           d == t.dirty \union ({f} \intersect Tracked)
           u == PutWord(phys_mem_set_dirty_bit(t, f), f, i, w)
<1>1. m \in [Frames -> [Places -> Words]] /\ \A g \in Frames : g # f => m[g] = t.mem[g]
  BY HartMemory
<1>2. d \in SUBSET Tracked
  BY HartMemory
<1>3. u = [[t EXCEPT !.dirty = d] EXCEPT !.mem = m]
  BY DEF PutWord, phys_mem_set_dirty_bit, Harts
<1> HIDE DEF m, d, u
<1>4. u \in Harts /\ Keeps(t, u, {"mem", "dirty"}) /\ u.mem = m /\ u.dirty = d
  BY <1>1, <1>2, <1>3 DEF Harts, Keeps, Fields, Places
<1>5. Marks(t, u)
  <2>1. t.dirty \subseteq d /\ (f \in Tracked => f \in d)
    BY DEF d
  <2>2. Tracked \subseteq Frames
    BY MmuAssumption
  <2> QED
    BY <1>1, <1>4, <2>1, <2>2 DEF Marks
<1> QED
  BY <1>4, <1>5 DEF m, d, u

\* Using a leaf sets its A and D bits and marks the table's frame.
LEMMA LeafEffect ==
  ASSUME NEW t \in Harts, NEW f \in Frames, NEW v \in Nat, NEW i \in 0 .. Levels - 1,
         NEW a \in Access, NEW pte, pte = t.mem[f][PteIndex(v, i)], pte.xwr # {}
  PROVE  LET r == UseLeaf(t, f, pte, v, i, a)
         IN  Walked(t, r.s) /\ r.res \in {"ok", "page", "access"}
<1> DEFINE j == PteIndex(v, i)
           w == [pte EXCEPT !.A = TRUE, !.D = @ \/ a = "w"]
           u == PutWord(phys_mem_set_dirty_bit(t, f), f, j, w)
           r == UseLeaf(t, f, pte, v, i, a)
<1>1. j \in Places
  BY EntryPlace
<1>2. pte \in Words
  BY <1>1, HartMemory
<1>3. w \in Words /\ MoreUsed(pte, w)
  BY <1>2 DEF Words, MoreUsed
<1>4. /\ u \in Harts /\ Keeps(t, u, {"mem", "dirty"}) /\ Marks(t, u)
      /\ u.mem = [t.mem EXCEPT ![f][j] = w]
  <2> HIDE DEF w, j
  <2> QED
    BY <1>1, <1>3, MarkedStore
<1>5. UsedMore(t, u)
  <2> SUFFICES ASSUME NEW g \in Frames, NEW k \in Places
               PROVE  MoreUsed(t.mem[g][k], u.mem[g][k])
    BY DEF UsedMore
  <2> HIDE DEF w, u, j
  <2>1. CASE g = f /\ k = j
    <3>1. u.mem[g][k] = w
      BY <1>1, <1>4, <2>1, HartMemory
    <3> QED
      BY <1>3, <2>1, <3>1 DEF j
  <2>2. CASE ~(g = f /\ k = j)
    <3>1. u.mem[g][k] = t.mem[g][k]
      BY <1>1, <1>4, <2>2, HartMemory
    <3> QED
      BY <3>1 DEF MoreUsed
  <2> QED
    BY <2>1, <2>2
<1>6. Walked(t, u)
  BY <1>4, <1>5 DEF Walked
<1>7. (r.s = t \/ r.s = u) /\ r.res \in {"ok", "page", "access"}
  <2> HIDE DEF u
  <2> QED
    BY DEF UseLeaf, PageFault, AccessFault, Translated, u, w, j
<1> HIDE DEF u, r
<1> QED
  BY <1>6, <1>7, NothingWalked DEF r

\* Whatever a walk ends in, it changed nothing but bits of a leaf.
LEMMA WalkEffect ==
  ASSUME NEW t \in Harts, NEW v \in Nat, NEW a \in Access
  PROVE  LET r == get_phys_addr(t, v, a)
         IN  Walked(t, r.s) /\ r.res \in {"ok", "page", "access"}
<1> DEFINE r == get_phys_addr(t, v, a)
<1>1. PICK f : /\ WalkTable(f, t, v, a)
               /\ r = IF get_effective_priv(t, a) = PRV_M \/ t.satp.mode = "bare"
                      THEN Translated(t, v)
                      ELSE IF Canonical(v) THEN f[Levels][TableAt(t.satp.ppn)] ELSE PageFault(t)
  BY WalkUnfolds
<1>2. f[Levels][TableAt(t.satp.ppn)] \in Ends(t, v, a)
  <2>1. TableAt(t.satp.ppn) \in Tables /\ Levels \in 0 .. Levels
    BY MmuAssumption DEF TableAt, Tables
  <2>2. f[Levels] \in [Tables -> Ends(t, v, a)]
    BY <1>1, <2>1 DEF WalkTable
  <2> QED
    BY <2>1, <2>2
<1> HIDE DEF r
<1>3. r = Translated(t, v) \/ r \in Ends(t, v, a)
  BY <1>1, <1>2 DEF Ends
<1>4. CASE r \in {Translated(t, v), PageFault(t), AccessFault(t)}
  <2>1. r.s = t /\ r.res \in {"ok", "page", "access"}
    BY <1>4 DEF Translated, PageFault, AccessFault
  <2> QED
    BY <2>1, NothingWalked DEF r
<1>5. CASE r \notin {Translated(t, v), PageFault(t), AccessFault(t)}
  <2>1. PICK p \in Leaves(t, v) : r = UseLeaf(t, p[1], t.mem[p[1]][PteIndex(v, p[2])], v, p[2], a)
    BY <1>3, <1>5 DEF Ends
  <2>2. /\ p[1] \in Frames /\ p[2] \in 0 .. Levels - 1
        /\ t.mem[p[1]][PteIndex(v, p[2])].xwr # {}
    BY <2>1 DEF Leaves
  <2>3. Walked(t, r.s) /\ r.res \in {"ok", "page", "access"}
    BY <2>1, <2>2, LeafEffect
  <2> QED
    BY <2>3 DEF r
<1> QED
  BY <1>4, <1>5


\* For an access of the kind a, u sees the page tables as t does, apart from
\* bits that were set meanwhile.
SameView(t, u, a) ==
  /\ get_effective_priv(u, a) = get_effective_priv(t, a)
  /\ u.satp = t.satp
  /\ \A x \in {"MXR", "SUM"} : x \in u.flags <=> x \in t.flags
  /\ \A x \in {"ADUE", "PBMTE"} : x \in u.menvcfg <=> x \in t.menvcfg
  /\ UsedMore(t, u)

\* A leaf that was permitted is permitted after A or D bits were set.
LEMMA LeafAgain ==
  ASSUME NEW t \in Harts, NEW u \in Harts, NEW a \in Access, SameView(t, u, a),
         NEW p \in Words, NEW q \in Words, MoreUsed(p, q), NEW f \in Frames, NEW v, NEW i,
         LeafPermits(t, p, v, i, a), UseLeaf(t, f, p, v, i, a).res = "ok"
  PROVE  /\ LeafPermits(u, q, v, i, a) /\ UseLeaf(u, f, q, v, i, a).res = "ok"
         /\ UseLeaf(u, f, q, v, i, a).frame = UseLeaf(t, f, p, v, i, a).frame
<1>1. LeafFrame(q, v, i) = LeafFrame(p, v, i)
  BY DEF MoreUsed, LeafFrame
<1>2. LeafPermits(u, q, v, i, a)
  BY DEF LeafPermits, MoreUsed, SameView
<1>3. NeedWrite(q, a) => NeedWrite(p, a)
  BY DEF NeedWrite, MoreUsed
<1>4. NeedWrite(p, a) => "ADUE" \in t.menvcfg /\ f \notin Rom
  BY DEF UseLeaf, PageFault, AccessFault
<1>5. NeedWrite(q, a) => "ADUE" \in u.menvcfg /\ f \notin Rom
  BY <1>3, <1>4 DEF SameView
<1>6. UseLeaf(t, f, p, v, i, a).frame = LeafFrame(p, v, i)
  BY <1>4 DEF UseLeaf, Translated
<1>7. UseLeaf(u, f, q, v, i, a).frame = LeafFrame(q, v, i) /\ UseLeaf(u, f, q, v, i, a).res = "ok"
  BY <1>5 DEF UseLeaf, Translated
<1> QED
  BY <1>1, <1>2, <1>6, <1>7

\* The results x and y of two walks: if the first is a frame, the second is it.
SameFrame(x, y) == x.res = "ok" => y.res = "ok" /\ y.frame = x.frame

\* A level leads to the same frame after A or D bits were set.
LEMMA LevelAgain ==
  ASSUME NEW t \in Harts, NEW u \in Harts, NEW v \in Nat, NEW a \in Access, SameView(t, u, a),
         NEW i \in 0 .. Levels - 1, NEW x, NEW y, \A table \in Tables : SameFrame(x[table], y[table]),
         NEW table \in Tables
  PROVE  SameFrame(WalkLevel(t, v, a, i, x)[table], WalkLevel(u, v, a, i, y)[table])
<1> DEFINE p == t.mem[table][PteIndex(v, i)]
           q == u.mem[table][PteIndex(v, i)]
           r == WalkLevel(t, v, a, i, x)[table]
           z == WalkLevel(u, v, a, i, y)[table]
<1> SUFFICES ASSUME r.res = "ok" PROVE z.res = "ok" /\ z.frame = r.frame
  BY DEF SameFrame
<1>1. table \in Frames /\ table # -1
  <2>1. table = -1 => r.res = "access"
    BY DEF WalkLevel, AccessFault
  <2> QED
    BY <2>1 DEF Tables
<1>2. p \in Words /\ q \in Words /\ MoreUsed(p, q)
  <2>1. PteIndex(v, i) \in Places
    BY EntryPlace
  <2> QED
    BY <1>1, <2>1, HartMemory DEF SameView, UsedMore
<1>3. r = CASE ~p.V \/ p.rsv -> PageFault(t)
            [] p.V /\ ~p.rsv /\ p.xwr # {} ->
                 IF LeafPermits(t, p, v, i, a) THEN UseLeaf(t, table, p, v, i, a) ELSE PageFault(t)
            [] p.V /\ ~p.rsv /\ p.xwr = {} ->
                 IF PointerOk(p) THEN x[TableAt(p.ppn)] ELSE PageFault(t)
  BY <1>1 DEF WalkLevel
<1>4. z = CASE ~q.V \/ q.rsv -> PageFault(u)
            [] q.V /\ ~q.rsv /\ q.xwr # {} ->
                 IF LeafPermits(u, q, v, i, a) THEN UseLeaf(u, table, q, v, i, a) ELSE PageFault(u)
            [] q.V /\ ~q.rsv /\ q.xwr = {} ->
                 IF PointerOk(q) THEN y[TableAt(q.ppn)] ELSE PageFault(u)
  BY <1>1 DEF WalkLevel
<1>5. PageFault(t).res # "ok"
  BY DEF PageFault
<1>6. /\ p.V \in BOOLEAN /\ p.rsv \in BOOLEAN /\ q.V = p.V /\ q.rsv = p.rsv /\ q.xwr = p.xwr
      /\ q.ppn = p.ppn
  BY <1>2 DEF Words, MoreUsed
<1> HIDE DEF p, q, r, z
<1>7. p.V /\ ~p.rsv
  BY <1>3, <1>5, <1>6
<1>8. CASE p.xwr # {}
  <2>1. r = IF LeafPermits(t, p, v, i, a) THEN UseLeaf(t, table, p, v, i, a) ELSE PageFault(t)
    BY <1>3, <1>7, <1>8
  <2>2. LeafPermits(t, p, v, i, a) /\ r = UseLeaf(t, table, p, v, i, a)
    BY <1>5, <2>1
  <2>3. /\ LeafPermits(u, q, v, i, a) /\ UseLeaf(u, table, q, v, i, a).res = "ok"
        /\ UseLeaf(u, table, q, v, i, a).frame = UseLeaf(t, table, p, v, i, a).frame
    BY <1>1, <1>2, <2>2, LeafAgain
  <2>4. z = UseLeaf(u, table, q, v, i, a)
    BY <1>4, <1>6, <1>7, <1>8, <2>3
  <2> QED
    BY <2>2, <2>3, <2>4
<1>9. CASE p.xwr = {}
  <2>1. r = IF PointerOk(p) THEN x[TableAt(p.ppn)] ELSE PageFault(t)
    BY <1>3, <1>7, <1>9
  <2>2. PointerOk(p) /\ r = x[TableAt(p.ppn)]
    BY <1>5, <2>1
  <2>3. PointerOk(q)
    BY <1>2, <1>9, <2>2 DEF PointerOk, MoreUsed
  <2>4. z = y[TableAt(p.ppn)]
    BY <1>4, <1>6, <1>7, <1>9, <2>3
  <2>5. TableAt(p.ppn) \in Tables
    BY DEF TableAt, Tables
  <2> QED
    BY <2>2, <2>4, <2>5 DEF SameFrame
<1> QED
  BY <1>8, <1>9

\* A translation that was found is found again, and is the same.
LEMMA WalkAgain ==
  ASSUME NEW t \in Harts, NEW u \in Harts, NEW v \in Nat, NEW a \in Access, SameView(t, u, a)
  PROVE  SameFrame(get_phys_addr(t, v, a), get_phys_addr(u, v, a))
<1>1. PICK f : /\ WalkTable(f, t, v, a)
               /\ get_phys_addr(t, v, a) =
                    IF get_effective_priv(t, a) = PRV_M \/ t.satp.mode = "bare" THEN Translated(t, v)
                    ELSE IF Canonical(v) THEN f[Levels][TableAt(t.satp.ppn)] ELSE PageFault(t)
  BY WalkUnfolds
<1>2. PICK g : /\ WalkTable(g, u, v, a)
               /\ get_phys_addr(u, v, a) =
                    IF get_effective_priv(u, a) = PRV_M \/ u.satp.mode = "bare" THEN Translated(u, v)
                    ELSE IF Canonical(v) THEN g[Levels][TableAt(u.satp.ppn)] ELSE PageFault(u)
  BY WalkUnfolds
<1>3. Levels \in Nat
  BY MmuAssumption
<1> DEFINE T == {n \in 0 .. Levels : \A table \in Tables : SameFrame(f[n][table], g[n][table])}
<1>4. 0 \in T
  <2>1. \A table \in Tables : f[0][table] = PageFault(t) /\ g[0][table] = PageFault(u)
    BY <1>1, <1>2 DEF WalkTable
  <2> QED
    BY <1>3, <2>1 DEF SameFrame, PageFault
<1>5. ASSUME NEW n \in 0 .. Levels - 1, n \in T
      PROVE  n + 1 \in T
  <2>1. n + 1 \in 1 .. Levels /\ n + 1 \in 0 .. Levels /\ (n + 1) - 1 = n
        /\ Levels - (n + 1) \in 0 .. Levels - 1
    BY <1>3
  <2>2. f[n + 1] = WalkLevel(t, v, a, Levels - (n + 1), f[n])
        /\ g[n + 1] = WalkLevel(u, v, a, Levels - (n + 1), g[n])
    BY <1>1, <1>2, <2>1 DEF WalkTable
  <2>3. \A table \in Tables : SameFrame(f[n][table], g[n][table])
    BY <1>5
  <2>4. ASSUME NEW table \in Tables PROVE SameFrame(f[n + 1][table], g[n + 1][table])
    BY <2>1, <2>2, <2>3, LevelAgain
  <2> QED
    BY <2>1, <2>4
<1> HIDE DEF T
<1>6. \A n \in 0 .. Levels : n \in T
  BY <1>3, <1>4, <1>5, InductionUpTo
<1>7. SameFrame(f[Levels][TableAt(t.satp.ppn)], g[Levels][TableAt(u.satp.ppn)])
  <2>1. TableAt(t.satp.ppn) \in Tables /\ u.satp = t.satp
    BY DEF TableAt, Tables, SameView
  <2>2. Levels \in T
    BY <1>3, <1>6
  <2> QED
    BY <2>1, <2>2 DEF T
<1>8. get_effective_priv(u, a) = get_effective_priv(t, a) /\ u.satp = t.satp
  BY DEF SameView
<1>9. CASE get_effective_priv(t, a) = PRV_M \/ t.satp.mode = "bare"
  BY <1>1, <1>2, <1>8, <1>9 DEF SameFrame, Translated
<1>10. CASE ~(get_effective_priv(t, a) = PRV_M \/ t.satp.mode = "bare") /\ Canonical(v)
  BY <1>1, <1>2, <1>7, <1>8, <1>10
<1>11. CASE ~(get_effective_priv(t, a) = PRV_M \/ t.satp.mode = "bare") /\ ~Canonical(v)
  BY <1>1, <1>2, <1>8, <1>11 DEF SameFrame, PageFault
<1> QED
  BY <1>9, <1>10, <1>11


-----------------------------------------------------------------------------
(* The TLBs.                                                               *)

\* What TlbCurrent says of a hart when no store to a page table is unfenced.
Current(t) ==
  \A x \in Tlbs, i \in Slots :
    t.tlb[x][i] # NoEntry /\ (x = "x" \/ "MPRV" \notin t.flags) =>
      /\ get_phys_addr(t, t.tlb[x][i].v, x).res = "ok"
      /\ get_phys_addr(t, t.tlb[x][i].v, x).frame = t.tlb[x][i].frame
Faithful(t, u) == Current(t) => Current(u)

\* A tracked frame that stores reach without being seen is marked.
WriteMarked(t) == \A i \in Slots : t.tlb["w"][i].frame \in Tracked => t.tlb["w"][i].frame \in t.dirty

\* A step that fills no TLB entry: all were dropped, or nothing changed that
\* they depend on.
SameWalk(t, u) ==
  /\ u.priv = t.priv /\ u.satp = t.satp /\ UsedMore(t, u)
  /\ \A x \in {"MPRV", "MXR", "SUM"} : x \in u.flags <=> x \in t.flags
  /\ \A x \in {"ADUE", "PBMTE"} : x \in u.menvcfg <=> x \in t.menvcfg
TlbKept(t, u) == u.tlb = tlb_init \/ (u.tlb = t.tlb /\ SameWalk(t, u))

LEMMA EntryTypes ==
  ASSUME NEW e \in TlbEntries, e # NoEntry
  PROVE  e.v \in Nat /\ e.frame \in Frames
BY DEF TlbEntries

LEMMA NoFrame == NoEntry.frame \notin Frames /\ NoEntry.frame \notin Tracked /\ NoEntry.v \notin Nat
                 /\ NoEntry \in TlbEntries
<1>1. -1 \notin Nat
  OBVIOUS
<1> QED
  BY <1>1, MmuAssumption DEF NoEntry, TlbEntries

\* An empty TLB is current and hides no store.
LEMMA EmptyTlb ==
  /\ tlb_init \in [Tlbs -> [Slots -> TlbEntries]]
  /\ \A t : t.tlb = tlb_init => Current(t) /\ WriteMarked(t)
<1>1. \A x \in Tlbs, i \in Slots : tlb_init[x][i] = NoEntry
  BY DEF tlb_init, Slots
<1>2. tlb_init \in [Tlbs -> [Slots -> TlbEntries]]
  BY NoFrame DEF tlb_init, Slots
<1>3. "w" \in Tlbs
  BY DEF Tlbs
<1> QED
  BY <1>1, <1>2, <1>3, NoFrame DEF Current, WriteMarked

\* What is cached stays current when no TLB entry is filled.
LEMMA CurrentKept ==
  ASSUME NEW t \in Harts, NEW u \in Harts, TlbKept(t, u)
  PROVE  Faithful(t, u)
<1>1. CASE u.tlb = tlb_init
  BY <1>1, EmptyTlb DEF Faithful
<1>2. CASE u.tlb = t.tlb /\ SameWalk(t, u)
  <2> SUFFICES ASSUME Current(t), NEW x \in Tlbs, NEW i \in Slots, NEW e, e = u.tlb[x][i],
                      e # NoEntry, x = "x" \/ "MPRV" \notin u.flags
               PROVE  get_phys_addr(u, e.v, x).res = "ok" /\ get_phys_addr(u, e.v, x).frame = e.frame
    BY DEF Faithful, Current
  <2>1. e = t.tlb[x][i] /\ (x = "x" \/ "MPRV" \notin t.flags)
    BY <1>2 DEF SameWalk
  <2>2. get_phys_addr(t, e.v, x).res = "ok" /\ get_phys_addr(t, e.v, x).frame = e.frame
    BY <2>1 DEF Current
  <2>3. e.v \in Nat /\ x \in Access
    BY <2>1, HartMemory, EntryTypes DEF Tlbs, Access
  <2>4. SameView(t, u, x)
    <3>1. get_effective_priv(u, x) = get_effective_priv(t, x)
      BY <1>2, <2>1 DEF get_effective_priv, SameWalk
    <3> QED
      BY <1>2, <3>1 DEF SameView, SameWalk
  <2>5. SameFrame(get_phys_addr(t, e.v, x), get_phys_addr(u, e.v, x))
    BY <2>3, <2>4, WalkAgain
  <2> QED
    BY <2>2, <2>5 DEF SameFrame
<1> QED
  BY <1>1, <1>2 DEF TlbKept

\* What an access does to a hart, besides the words it stores.
Accessed(t, u) ==
  /\ u \in Harts /\ Keeps(t, u, {"mem", "dirty", "tlb"}) /\ Marks(t, u) /\ WriteMarked(u)

\* A walk on its own leaves the TLBs current.
LEMMA WalkedKeeps ==
  ASSUME NEW t \in Harts, NEW u, Walked(t, u), WriteMarked(t)
  PROVE  Accessed(t, u) /\ Faithful(t, u) /\ u.tlb = t.tlb /\ SameWalk(t, u)
<1>1. u \in Harts /\ Keeps(t, u, {"mem", "dirty"}) /\ UsedMore(t, u) /\ Marks(t, u)
  BY DEF Walked
<1>2. u.tlb = t.tlb /\ Keeps(t, u, {"mem", "dirty", "tlb"})
  BY <1>1 DEF Keeps, Fields
<1>3. SameWalk(t, u)
  BY <1>1 DEF SameWalk, Keeps, Fields
<1>4. WriteMarked(u)
  BY <1>1, <1>2 DEF WriteMarked, Marks
<1> QED
  BY <1>1, <1>2, <1>3, <1>4, CurrentKept DEF Accessed, TlbKept

\* A frame that a walk found is cached.
LEMMA Cached ==
  ASSUME NEW t \in Harts, WriteMarked(t), NEW u \in Harts, Keeps(t, u, {"mem", "dirty"}),
         Marks(t, u), NEW x \in Tlbs, NEW v \in Nat, NEW f \in Frames,
         x = "w" /\ f \in Tracked => f \in u.dirty
  PROVE  LET n == TlbFill(u, x, v, f)
         IN  /\ Accessed(t, n) /\ n.tlb # tlb_init
             /\ n = [u EXCEPT !.tlb = [u.tlb EXCEPT ![x][TlbIndex(v)] = [v |-> v, frame |-> f]]]
             /\ Keeps(u, n, {"tlb"}) /\ n.tlb[x][TlbIndex(v)] = [v |-> v, frame |-> f]
             /\ \A y \in Tlbs, i \in Slots :
                  ~(y = x /\ i = TlbIndex(v)) => n.tlb[y][i] = t.tlb[y][i]
<1> DEFINE e == [v |-> v, frame |-> f]
           k == TlbIndex(v)
           b == [u.tlb EXCEPT ![x][k] = e]
           n == TlbFill(u, x, v, f)
<1>1. k \in Slots
  BY MmuAssumption DEF TlbIndex, Slots
<1>2. u.tlb = t.tlb /\ u.tlb \in [Tlbs -> [Slots -> TlbEntries]]
  BY HartMemory DEF Keeps, Fields
<1>3. e \in TlbEntries /\ e # NoEntry /\ e.v = v /\ e.frame = f
  BY NoFrame DEF TlbEntries
<1>4. n = [u EXCEPT !.tlb = b]
  BY DEF TlbFill, Harts
<1> HIDE DEF e, k
<1>5. /\ b \in [Tlbs -> [Slots -> TlbEntries]] /\ b[x][k] = e
      /\ \A y \in Tlbs, i \in Slots : ~(y = x /\ i = k) => b[y][i] = t.tlb[y][i]
  BY <1>1, <1>2, <1>3
<1> HIDE DEF b, n
<1>6. n \in Harts /\ n.tlb = b /\ Keeps(u, n, {"tlb"})
  BY <1>4, <1>5 DEF Harts, Keeps, Fields, Slots
<1>7. Keeps(t, n, {"mem", "dirty", "tlb"}) /\ n.mem = u.mem /\ n.dirty = u.dirty
  BY <1>6 DEF Keeps, Fields
<1>8. Marks(t, n)
  BY <1>7 DEF Marks
<1>9. WriteMarked(n)
  <2> SUFFICES ASSUME NEW i \in Slots, n.tlb["w"][i].frame \in Tracked
               PROVE  n.tlb["w"][i].frame \in n.dirty
    BY DEF WriteMarked
  <2>1. "w" \in Tlbs
    BY DEF Tlbs
  <2>2. CASE x = "w" /\ i = k
    BY <1>3, <1>5, <1>6, <1>7, <2>2
  <2>3. CASE ~(x = "w" /\ i = k)
    <3>1. n.tlb["w"][i] = t.tlb["w"][i]
      BY <1>5, <1>6, <2>1, <2>3
    <3> QED
      BY <1>7, <3>1 DEF WriteMarked, Marks
  <2> QED
    BY <2>2, <2>3
<1>10. n.tlb # tlb_init
  <2>1. tlb_init[x][k] = NoEntry
    BY <1>1 DEF tlb_init, Slots
  <2> QED
    BY <1>3, <1>5, <1>6, <2>1
<1> QED
  BY <1>4, <1>5, <1>6, <1>7, <1>8, <1>9, <1>10 DEF Accessed, n, b, e, k


\* An access that misses fills its slot with what the walk found.
LEMMA FoundCached ==
  ASSUME NEW t \in Harts, WriteMarked(t), NEW x \in {"r", "x"}, NEW v \in Nat,
         NEW r, r = get_phys_addr(t, v, x), r.res = "ok", r.frame \in Frames
  PROVE  LET n == TlbFill(r.s, x, v, r.frame) IN Accessed(t, n) /\ Faithful(t, n)
<1> DEFINE n == TlbFill(r.s, x, v, r.frame)
<1>1. x \in Tlbs /\ x \in Access /\ x # "w"
  BY DEF Tlbs, Access
<1>2. Walked(t, r.s)
  BY <1>1, WalkEffect
<1>3. r.s \in Harts /\ Keeps(t, r.s, {"mem", "dirty"}) /\ Marks(t, r.s) /\ UsedMore(t, r.s)
  BY <1>2 DEF Walked
<1>4. /\ Accessed(t, n) /\ Keeps(r.s, n, {"tlb"})
      /\ n.tlb[x][TlbIndex(v)] = [v |-> v, frame |-> r.frame]
      /\ \A y \in Tlbs, i \in Slots : ~(y = x /\ i = TlbIndex(v)) => n.tlb[y][i] = t.tlb[y][i]
  BY <1>1, <1>3, Cached
<1> HIDE DEF n
<1>5. n.mem = r.s.mem /\ n \in Harts /\ Keeps(t, n, {"mem", "dirty", "tlb"})
  BY <1>4 DEF Keeps, Fields, Accessed
<1>6. UsedMore(t, n)
  BY <1>3, <1>5 DEF UsedMore
<1>7. n.flags = t.flags /\ n.priv = t.priv /\ n.mpp = t.mpp /\ n.satp = t.satp /\ n.menvcfg = t.menvcfg
  BY <1>5 DEF Keeps, Fields
<1>8. \A y \in Access : SameView(t, n, y)
  BY <1>6, <1>7 DEF SameView, get_effective_priv
<1>9. Faithful(t, n)
  <2> SUFFICES ASSUME Current(t), NEW y \in Tlbs, NEW i \in Slots, NEW e, e = n.tlb[y][i],
                      e # NoEntry, y = "x" \/ "MPRV" \notin n.flags
               PROVE  get_phys_addr(n, e.v, y).res = "ok" /\ get_phys_addr(n, e.v, y).frame = e.frame
    BY DEF Faithful, Current
  <2>1. y \in Access
    BY DEF Tlbs, Access
  <2>2. CASE y = x /\ i = TlbIndex(v)
    <3>1. e.v = v /\ e.frame = r.frame
      BY <1>4, <2>2
    <3>2. SameFrame(r, get_phys_addr(n, v, x))
      BY <1>1, <1>5, <1>8, WalkAgain
    <3> QED
      BY <2>2, <3>1, <3>2 DEF SameFrame
  <2>3. CASE ~(y = x /\ i = TlbIndex(v))
    <3>1. e = t.tlb[y][i]
      BY <1>4, <2>3
    <3>2. get_phys_addr(t, e.v, y).res = "ok" /\ get_phys_addr(t, e.v, y).frame = e.frame
      BY <1>7, <3>1 DEF Current
    <3>3. e.v \in Nat
      BY <3>1, HartMemory, EntryTypes
    <3>4. SameFrame(get_phys_addr(t, e.v, y), get_phys_addr(n, e.v, y))
      BY <1>5, <1>8, <2>1, <3>3, WalkAgain
    <3> QED
      BY <3>2, <3>4 DEF SameFrame
  <2> QED
    BY <2>2, <2>3
<1> QED
  BY <1>4, <1>9 DEF n

\* A fault or a device leaves what the walk left.
LEMMA WalkUsed ==
  ASSUME NEW t \in Harts, WriteMarked(t), NEW a \in Access, NEW v \in Nat
  PROVE  LET u == get_phys_addr(t, v, a).s IN Accessed(t, u) /\ Faithful(t, u)
<1> DEFINE u == get_phys_addr(t, v, a).s
<1>1. Walked(t, u)
  BY WalkEffect
<1> HIDE DEF u
<1> QED
  BY <1>1, WalkedKeeps DEF u

LEMMA Unaccessed ==
  ASSUME NEW t \in Harts, WriteMarked(t)
  PROVE  Accessed(t, t) /\ Faithful(t, t)
BY NothingWalked, WalkedKeeps

\* Reads and fetches.
LEMMA ReadEffect ==
  ASSUME NEW t \in Harts, WriteMarked(t), NEW v \in Nat
  PROVE  LET r == target_read(t, v)
         IN  Accessed(t, r.s) /\ Faithful(t, r.s) /\ r.res \in {"ok", "page", "access", "io"}
<1>1. PICK w : w = get_phys_addr(t, v, "r")
  OBVIOUS
<1>2. "r" \in Access
  BY DEF Access
<1>3. Accessed(t, w.s) /\ Faithful(t, w.s) /\ w.res \in {"ok", "page", "access"}
  BY <1>1, <1>2, WalkUsed, WalkEffect
<1> DEFINE n == TlbFill(w.s, "r", v, w.frame)
           r == target_read(t, v)
<1>4. w.res = "ok" /\ w.frame \in Frames => Accessed(t, n) /\ Faithful(t, n)
  BY <1>1, FoundCached
<1>5. TlbHit(t, "r", v) \in BOOLEAN
  BY DEF TlbHit
<1>6. CASE TlbHit(t, "r", v)
  <2>1. r.s = t /\ r.res = "ok"
    BY <1>6 DEF target_read, Translated
  <2> QED
    BY <2>1, Unaccessed
<1>7. CASE ~TlbHit(t, "r", v) /\ w.res # "ok"
  <2>1. r = w
    BY <1>1, <1>7 DEF target_read
  <2> QED
    BY <1>3, <2>1
<1>8. CASE ~TlbHit(t, "r", v) /\ w.res = "ok" /\ w.frame \in Frames
  <2>1. r = [w EXCEPT !.s = n]
    BY <1>1, <1>8, MmuAssumption DEF target_read
  <2>2. r.s = n /\ r.res = "ok"
    BY <1>8, <2>1, <1>1
  <2> QED
    BY <1>4, <1>8, <2>2
<1>9. CASE ~TlbHit(t, "r", v) /\ w.res = "ok" /\ w.frame = DevFrame
  <2>1. r = [w EXCEPT !.res = "io"]
    BY <1>1, <1>9, MmuAssumption DEF target_read
  <2>2. r.s = w.s /\ r.res = "io"
    BY <2>1
  <2> QED
    BY <1>3, <2>2
<1>10. CASE ~TlbHit(t, "r", v) /\ w.res = "ok" /\ w.frame \notin Frames \union {DevFrame}
  <2>1. r = AccessFault(w.s)
    BY <1>1, <1>10, MmuAssumption DEF target_read
  <2>2. r.s = w.s /\ r.res = "access"
    BY <2>1 DEF AccessFault
  <2> QED
    BY <1>3, <2>2
<1> QED
  BY <1>5, <1>6, <1>7, <1>8, <1>9, <1>10


\* target_read_insn.
LEMMA FetchEffect ==
  ASSUME NEW t \in Harts, WriteMarked(t), NEW v \in Nat
  PROVE  LET r == target_read_insn(t, v)
         IN  Accessed(t, r.s) /\ Faithful(t, r.s) /\ r.res \in {"ok", "page", "access"}
<1>1. PICK w : w = get_phys_addr(t, v, "x")
  OBVIOUS
<1>2. "x" \in Access
  BY DEF Access
<1>3. Accessed(t, w.s) /\ Faithful(t, w.s) /\ w.res \in {"ok", "page", "access"}
  BY <1>1, <1>2, WalkUsed, WalkEffect
<1> DEFINE n == TlbFill(w.s, "x", v, w.frame)
           r == target_read_insn(t, v)
<1>4. w.res = "ok" /\ w.frame \in Frames => Accessed(t, n) /\ Faithful(t, n)
  BY <1>1, FoundCached
<1>5. TlbHit(t, "x", v) \in BOOLEAN
  BY DEF TlbHit
<1>6. CASE TlbHit(t, "x", v)
  <2>1. r.s = t /\ r.res = "ok"
    BY <1>6 DEF target_read_insn, Translated
  <2> QED
    BY <2>1, Unaccessed
<1>7. CASE ~TlbHit(t, "x", v) /\ w.res # "ok"
  <2>1. r = w
    BY <1>1, <1>7 DEF target_read_insn
  <2> QED
    BY <1>3, <2>1
<1>8. CASE ~TlbHit(t, "x", v) /\ w.res = "ok" /\ w.frame \in Frames
  <2>1. r = [w EXCEPT !.s = n]
    BY <1>1, <1>8 DEF target_read_insn
  <2>2. r.s = n /\ r.res = "ok"
    BY <1>8, <2>1
  <2> QED
    BY <1>4, <1>8, <2>2
<1>9. CASE ~TlbHit(t, "x", v) /\ w.res = "ok" /\ w.frame \notin Frames
  <2>1. r = AccessFault(w.s)
    BY <1>1, <1>9 DEF target_read_insn
  <2>2. r.s = w.s /\ r.res = "access"
    BY <2>1 DEF AccessFault
  <2> QED
    BY <1>3, <2>2
<1> QED
  BY <1>5, <1>6, <1>7, <1>8, <1>9

\* A store to a frame that is not marked here: one that is marked already, or is
\* not tracked.
LEMMA QuietStore ==
  ASSUME NEW t \in Harts, NEW f \in Frames, NEW i \in Places, NEW w \in Words,
         f \in Tracked => f \in t.dirty
  PROVE  LET u == PutWord(t, f, i, w)
         IN  /\ u \in Harts /\ Keeps(t, u, {"mem"}) /\ Marks(t, u)
<1> DEFINE m == [t.mem EXCEPT ![f][i] = w]
           u == PutWord(t, f, i, w)
<1>1. m \in [Frames -> [Places -> Words]] /\ \A g \in Frames : g # f => m[g] = t.mem[g]
  BY HartMemory
<1>2. u = [t EXCEPT !.mem = m]
  BY DEF PutWord, Harts
<1> HIDE DEF m, u
<1>3. u \in Harts /\ Keeps(t, u, {"mem"}) /\ u.mem = m /\ u.dirty = t.dirty
  BY <1>1, <1>2 DEF Harts, Keeps, Fields, Places
<1>4. Marks(t, u)
  BY <1>1, <1>3, MmuAssumption DEF Marks
<1> QED
  BY <1>3, <1>4 DEF u

LEMMA MarksThen ==
  ASSUME NEW t, NEW u, NEW n, Marks(t, u), Marks(u, n)
  PROVE  Marks(t, n)
BY DEF Marks

\* A frame that was reached through the write TLB is marked.
LEMMA KeepsMarked ==
  ASSUME NEW t, NEW u, Keeps(t, u, {"mem"}), WriteMarked(t)
  PROVE  WriteMarked(u)
<1>1. u.tlb = t.tlb /\ u.dirty = t.dirty
  BY DEF Keeps, Fields
<1> QED
  BY <1>1 DEF WriteMarked

\* The slow path marks and caches the frame, then stores.
LEMMA SlowStore ==
  ASSUME NEW t \in Harts, WriteMarked(t), NEW u, Walked(t, u), NEW v \in Nat, NEW f \in Frames,
         NEW i \in Places, NEW w \in Words
  PROVE  Accessed(t, PutWord(TlbFill(phys_mem_set_dirty_bit(u, f), "w", v, f), f, i, w))
<1>1. PICK d : d = phys_mem_set_dirty_bit(u, f)
  OBVIOUS
<1>2. PICK n : n = TlbFill(d, "w", v, f)
  OBVIOUS
<1>3. PICK z : z = PutWord(n, f, i, w)
  OBVIOUS
<1>4. u \in Harts /\ Keeps(t, u, {"mem", "dirty"}) /\ Marks(t, u)
  BY DEF Walked
<1>5. d \in Harts /\ Keeps(u, d, {"dirty"}) /\ d.dirty = u.dirty \union ({f} \intersect Tracked)
  <2>1. u.dirty \union ({f} \intersect Tracked) \in SUBSET Tracked
    BY <1>4, HartMemory
  <2> QED
    BY <1>1, <1>4, <2>1 DEF phys_mem_set_dirty_bit, Harts, Keeps, Fields
<1>6. Keeps(t, d, {"mem", "dirty"}) /\ d.mem = u.mem
  BY <1>4, <1>5 DEF Keeps, Fields
<1>7. Marks(t, d) /\ (f \in Tracked => f \in d.dirty)
  BY <1>4, <1>5, <1>6 DEF Marks
<1>8. "w" \in Tlbs
  BY DEF Tlbs
<1>9. Accessed(t, n) /\ Keeps(d, n, {"tlb"})
  BY <1>2, <1>5, <1>6, <1>7, <1>8, Cached
<1>10. n \in Harts /\ Marks(t, n) /\ WriteMarked(n) /\ n.dirty = d.dirty
       /\ Keeps(t, n, {"mem", "dirty", "tlb"})
  BY <1>9 DEF Accessed, Keeps, Fields
<1>11. z \in Harts /\ Keeps(n, z, {"mem"}) /\ Marks(n, z)
  BY <1>3, <1>7, <1>10, QuietStore
<1>12. Keeps(t, z, {"mem", "dirty", "tlb"})
  BY <1>10, <1>11 DEF Keeps
<1>13. Marks(t, z) /\ WriteMarked(z)
  BY <1>10, <1>11, MarksThen, KeepsMarked
<1> QED
  BY <1>1, <1>2, <1>3, <1>11, <1>12, <1>13 DEF Accessed

\* Stores through the write TLB, slow stores, faults and device registers.
LEMMA WriteEffect ==
  ASSUME NEW t \in Harts, WriteMarked(t), NEW v \in Nat, NEW i \in Places, NEW w \in Words
  PROVE  LET r == target_write(t, v, i, w)
         IN  /\ Accessed(t, r.s) /\ r.res \in {"ok", "page", "access", "io"}
             /\ r.res # "ok" => Faithful(t, r.s)
<1>1. PICK g : g = get_phys_addr(t, v, "w")
  OBVIOUS
<1>2. "w" \in Access /\ "w" \in Tlbs
  BY DEF Access, Tlbs
<1>3. Accessed(t, g.s) /\ Faithful(t, g.s) /\ g.res \in {"ok", "page", "access"} /\ Walked(t, g.s)
  BY <1>1, <1>2, WalkUsed, WalkEffect
<1> DEFINE n == PutWord(TlbFill(phys_mem_set_dirty_bit(g.s, g.frame), "w", v, g.frame), g.frame, i, w)
           r == target_write(t, v, i, w)
<1>4. g.frame \in Frames => Accessed(t, n)
  BY <1>3, SlowStore
<1>5. TlbHit(t, "w", v) \in BOOLEAN
  BY DEF TlbHit
<1>6. CASE TlbHit(t, "w", v)
  <2>1. PICK k : k = TlbIndex(v)
    OBVIOUS
  <2>2. k \in Slots
    BY <2>1, MmuAssumption DEF TlbIndex, Slots
  <2>3. PICK e : e = t.tlb["w"][k]
    OBVIOUS
  <2>4. e.v = v /\ e \in TlbEntries
    BY <1>2, <1>6, <2>1, <2>2, <2>3, HartMemory DEF TlbHit
  <2>5. e # NoEntry
    BY <2>4, NoFrame
  <2>6. e.frame \in Frames
    BY <2>4, <2>5, EntryTypes
  <2>7. e.frame \in Tracked => e.frame \in t.dirty
    BY <2>2, <2>3 DEF WriteMarked
  <2>8. PICK u : u = PutWord(t, e.frame, i, w)
    OBVIOUS
  <2>9. u \in Harts /\ Keeps(t, u, {"mem"}) /\ Marks(t, u)
    BY <2>6, <2>7, <2>8, QuietStore
  <2>10. WriteMarked(u) /\ Keeps(t, u, {"mem", "dirty", "tlb"})
    BY <2>9, KeepsMarked DEF Keeps
  <2>11. r = Translated(u, e.frame)
    BY <1>6, <2>1, <2>3, <2>8 DEF target_write
  <2>12. r.s = u /\ r.res = "ok"
    BY <2>11 DEF Translated
  <2> QED
    BY <2>9, <2>10, <2>12 DEF Accessed
<1>7. CASE ~TlbHit(t, "w", v) /\ g.res # "ok"
  <2>1. r = g
    BY <1>1, <1>7 DEF target_write
  <2> QED
    BY <1>3, <2>1
<1>8. CASE ~TlbHit(t, "w", v) /\ g.res = "ok" /\ g.frame \in Frames
  <2>1. r = [g EXCEPT !.s = n]
    BY <1>1, <1>8, MmuAssumption DEF target_write
  <2> HIDE DEF n
  <2>2. r.s = n /\ r.res = "ok"
    BY <1>8, <2>1
  <2> QED
    BY <1>4, <1>8, <2>2
<1>9. CASE ~TlbHit(t, "w", v) /\ g.res = "ok" /\ g.frame = DevFrame
  <2>1. r = [g EXCEPT !.res = "io"]
    BY <1>1, <1>9, MmuAssumption DEF target_write
  <2>2. r.s = g.s /\ r.res = "io"
    BY <2>1
  <2> QED
    BY <1>3, <2>2
<1>10. CASE ~TlbHit(t, "w", v) /\ g.res = "ok" /\ g.frame \notin Frames \union {DevFrame}
  <2>1. r = AccessFault(g.s)
    BY <1>1, <1>10, MmuAssumption DEF target_write
  <2>2. r.s = g.s /\ r.res = "access"
    BY <2>1 DEF AccessFault
  <2> QED
    BY <1>3, <2>2
<1> QED
  BY <1>5, <1>6, <1>7, <1>8, <1>9, <1>10

\* Cache block operations; those that leave memory alone leave translations.
LEMMA CacheBlockEffect ==
  ASSUME NEW t \in Harts, WriteMarked(t), NEW v \in Nat, NEW i \in Places, NEW zero \in BOOLEAN
  PROVE  LET r == CacheBlock(t, v, i, zero)
         IN  /\ Accessed(t, r.s) /\ r.res \in {"ok", "page", "access"}
             /\ r.s.mem = t.mem => Faithful(t, r.s)
<1>1. PICK a : a = IF zero THEN "w" ELSE "r"
  OBVIOUS
<1>2. PICK g : g = get_phys_addr(t, v, a)
  OBVIOUS
<1>3. a \in Access
  BY <1>1 DEF Access
<1>4. Accessed(t, g.s) /\ Faithful(t, g.s) /\ g.res \in {"ok", "page", "access"} /\ Walked(t, g.s)
  BY <1>2, <1>3, WalkUsed, WalkEffect
<1> DEFINE n == PutWord(phys_mem_set_dirty_bit(g.s, g.frame), g.frame, i, ZeroWord)
           r == CacheBlock(t, v, i, zero)
<1>5. r \in {g, AccessFault(g.s)} \/ (g.res = "ok" /\ g.frame \in Frames /\ r = [g EXCEPT !.s = n])
  BY <1>1, <1>2 DEF CacheBlock
<1>6. CASE r \in {g, AccessFault(g.s)}
  <2>1. r.s = g.s /\ r.res \in {"ok", "page", "access"}
    BY <1>4, <1>6 DEF AccessFault
  <2> QED
    BY <1>4, <2>1
<1>7. CASE g.res = "ok" /\ g.frame \in Frames /\ r = [g EXCEPT !.s = n]
  <2>1. PICK u : u = n
    OBVIOUS
  <2>2. ZeroWord \in Words
    BY DEF ZeroWord, Words
  <2>3. g.s \in Harts /\ Keeps(t, g.s, {"mem", "dirty"}) /\ Marks(t, g.s) /\ WriteMarked(g.s)
    BY <1>4 DEF Walked, Accessed
  <2>4. u \in Harts /\ Keeps(g.s, u, {"mem", "dirty"}) /\ Marks(g.s, u)
    BY <1>7, <2>1, <2>2, <2>3, MarkedStore
  <2>5. Keeps(t, u, {"mem", "dirty"}) /\ Marks(t, u)
    BY <2>3, <2>4, MarksThen DEF Keeps
  <2>6. Keeps(t, u, {"mem", "dirty", "tlb"}) /\ u.tlb = t.tlb
    BY <2>5 DEF Keeps, Fields, SameWalk
  <2>7. WriteMarked(u)
    BY <2>5, <2>6 DEF WriteMarked, Marks
  <2>8. u.mem = t.mem => Faithful(t, u)
    <3>1. ASSUME u.mem = t.mem PROVE SameWalk(t, u)
      <4>1. UsedMore(t, u)
        BY <3>1 DEF UsedMore, MoreUsed
      <4> QED
        BY <2>5, <4>1 DEF SameWalk, Keeps, Fields
    <3> QED
      BY <2>4, <2>6, <3>1, CurrentKept DEF TlbKept
  <2>9. r.s = u /\ r.res = "ok"
    BY <1>7, <2>1
  <2> QED
    BY <2>4, <2>5, <2>6, <2>7, <2>8, <2>9 DEF Accessed
<1> QED
  BY <1>5, <1>6, <1>7


-----------------------------------------------------------------------------
(* Modes, traps and returns.                                               *)

MprvOk(t) == "MPRV" \in t.flags => t.priv = PRV_M

\* What a trap or a return may change.
Switched(t, u) ==
  /\ u \in Harts /\ Keeps(t, u, {"pc", "priv", "flags", "mpp", "mepc", "sepc", "tlb"})
  /\ MprvOk(u) /\ TlbKept(t, u)

\* Updates of single fields.
LEMMA SetPc ==
  ASSUME NEW t \in Harts, NEW x \in Nat
  PROVE  [t EXCEPT !.pc = x] \in Harts /\ Keeps(t, [t EXCEPT !.pc = x], {"pc"})
BY DEF Harts, Keeps, Fields

LEMMA SetMepcPc ==
  ASSUME NEW t \in Harts, NEW x \in Nat, NEW y \in Nat, NEW u, u = [t EXCEPT !.mepc = x, !.pc = y]
  PROVE  u \in Harts /\ Keeps(t, u, {"mepc", "pc"})
BY DEF Harts, Keeps, Fields

LEMMA SetSepcPc ==
  ASSUME NEW t \in Harts, NEW x \in Nat, NEW y \in Nat, NEW u, u = [t EXCEPT !.sepc = x, !.pc = y]
  PROVE  u \in Harts /\ Keeps(t, u, {"sepc", "pc"})
BY DEF Harts, Keeps, Fields

LEMMA SetMpp ==
  ASSUME NEW t \in Harts, NEW x \in PRV_U .. PRV_M
  PROVE  [t EXCEPT !.mpp = x] \in Harts /\ Keeps(t, [t EXCEPT !.mpp = x], {"mpp"})
BY DEF Harts, Keeps, Fields

\* A step that changes one flag.
FlagStep(t, f, u) ==
  u \in Harts /\ Keeps(t, u, {"flags"}) /\ u.flags \ {f} = t.flags \ {f}

\* Setting or clearing a flag of mstatus.
LEMMA FlagEffect ==
  ASSUME NEW t \in Harts, NEW f \in MstatusFlags, NEW on
  PROVE  FlagStep(t, f, Flag(t, f, on))
<1>1. PICK x : x = IF on THEN t.flags \union {f} ELSE t.flags \ {f}
  OBVIOUS
<1>2. x \in SUBSET MstatusFlags /\ x \ {f} = t.flags \ {f}
  BY <1>1 DEF Harts
<1>3. PICK u : u = Flag(t, f, on)
  OBVIOUS
<1>4. u = [t EXCEPT !.flags = x]
  BY <1>1, <1>3 DEF Flag, Harts
<1>5. u \in Harts /\ Keeps(t, u, {"flags"}) /\ u.flags = x
  BY <1>2, <1>4 DEF Harts, Keeps, Fields
<1>6. FlagStep(t, f, u)
  BY <1>2, <1>5 DEF FlagStep
<1> QED
  BY <1>3, <1>6, Zenon

LEMMA FlagCleared ==
  ASSUME NEW t \in Harts, NEW f
  PROVE  f \notin Flag(t, f, FALSE).flags
BY DEF Flag, Harts

\* set_priv drops the TLBs when the mode changes.
LEMMA PrivEffect ==
  ASSUME NEW t \in Harts, NEW p \in PRV_U .. PRV_M
  PROVE  LET u == set_priv(t, p)
         IN  /\ u \in Harts /\ u.priv = p /\ Keeps(t, u, {"priv", "tlb"})
             /\ (t.priv = p => u = t) /\ (t.priv # p => u.tlb = tlb_init)
<1>1. tlb_init \in [Tlbs -> [0 .. TlbSize - 1 -> TlbEntries]]
  BY EmptyTlb DEF Slots
<1>2. PICK n : n = [t EXCEPT !.tlb = tlb_init]
  OBVIOUS
<1>3. PICK z : z = [n EXCEPT !.priv = p]
  OBVIOUS
<1>4. n \in Harts /\ Keeps(t, n, {"tlb"}) /\ n.tlb = tlb_init
  BY <1>1, <1>2 DEF Harts, Keeps, Fields
<1>5. z \in Harts /\ Keeps(n, z, {"priv"}) /\ z.priv = p /\ z.tlb = tlb_init
  BY <1>3, <1>4 DEF Harts, Keeps, Fields
<1>6. Keeps(t, z, {"priv", "tlb"})
  BY <1>4, <1>5 DEF Keeps
<1>7. set_priv(t, p) = IF t.priv # p THEN z ELSE t
  BY <1>2, <1>3 DEF set_priv, tlb_flush_all
<1> QED
  BY <1>5, <1>6, <1>7 DEF Keeps

\* Memory as it was.
LEMMA SameMemory ==
  ASSUME NEW t, NEW u, u.mem = t.mem
  PROVE  UsedMore(t, u)
BY DEF UsedMore, MoreUsed

\* A trap that is delegated to the supervisor.
LEMMA ToSupervisor ==
  ASSUME NEW t \in Harts, MprvOk(t), t.priv # PRV_M,
         NEW a, FlagStep(t, "SPIE", a), NEW b, FlagStep(a, "SPP", b), NEW c, FlagStep(b, "SIE", c),
         NEW u, u = [set_priv(c, PRV_S) EXCEPT !.sepc = t.pc, !.pc = t.stvec]
  PROVE  /\ Switched(t, u) /\ u.priv = PRV_S /\ Keeps(t, u, {"pc", "priv", "flags", "sepc", "tlb"})
         /\ u.flags \ SstatusFlags = t.flags \ SstatusFlags
<1>4. PICK d : d = set_priv(c, PRV_S)
  OBVIOUS
<1>5. /\ {"SPIE", "SPP", "SIE"} \subseteq SstatusFlags /\ SstatusFlags \subseteq MstatusFlags
      /\ "MPRV" \notin SstatusFlags /\ PRV_S \in PRV_U .. PRV_M /\ PRV_S # PRV_M
  BY DEF SstatusFlags, MstatusFlags, PRV_U, PRV_S, PRV_M
<1>6. a \in Harts /\ Keeps(t, a, {"flags"}) /\ a.flags \ {"SPIE"} = t.flags \ {"SPIE"}
  BY DEF FlagStep
<1>7. b \in Harts /\ Keeps(a, b, {"flags"}) /\ b.flags \ {"SPP"} = a.flags \ {"SPP"}
  BY DEF FlagStep
<1>8. c \in Harts /\ Keeps(b, c, {"flags"}) /\ c.flags \ {"SIE"} = b.flags \ {"SIE"}
  BY DEF FlagStep
<1>9. /\ d \in Harts /\ d.priv = PRV_S /\ Keeps(c, d, {"priv", "tlb"})
      /\ (c.priv = PRV_S => d = c) /\ (c.priv # PRV_S => d.tlb = tlb_init)
  BY <1>4, <1>5, <1>8, PrivEffect
<1>10. Keeps(t, c, {"flags"}) /\ Keeps(t, d, {"priv", "flags", "tlb"})
  BY <1>6, <1>7, <1>8, <1>9 DEF Keeps
<1>11. t.pc \in Nat /\ t.stvec \in Nat
  BY DEF Harts
<1>12. u = [d EXCEPT !.sepc = t.pc, !.pc = t.stvec]
  BY <1>4
<1>13. u \in Harts /\ Keeps(d, u, {"sepc", "pc"})
  BY <1>9, <1>11, <1>12, SetSepcPc
<1>14. Keeps(t, u, {"pc", "priv", "flags", "sepc", "tlb"})
  BY <1>10, <1>13 DEF Keeps
<1>15. u.priv = PRV_S /\ u.flags = c.flags /\ u.tlb = d.tlb /\ c.priv = t.priv /\ c.tlb = t.tlb
  BY <1>9, <1>10, <1>13 DEF Keeps, Fields
<1>16. u.flags \ SstatusFlags = t.flags \ SstatusFlags
       /\ \A x \in {"MPRV", "MXR", "SUM"} : x \in u.flags <=> x \in t.flags
  BY <1>5, <1>6, <1>7, <1>8, <1>15
<1>17. "MPRV" \notin u.flags
  <2>2. "MPRV" \notin t.flags
    BY DEF MprvOk
  <2> QED
    BY <1>16, <2>2
<1>18. TlbKept(t, u)
  <2>1. CASE t.priv = PRV_S
    <3>1. u.tlb = t.tlb /\ u.priv = t.priv
      BY <1>9, <1>15, <2>1
    <3>2. u.satp = t.satp /\ u.menvcfg = t.menvcfg /\ u.mem = t.mem
      BY <1>14 DEF Keeps, Fields
    <3> QED
      BY <1>16, <3>1, <3>2, SameMemory DEF TlbKept, SameWalk
  <2>2. CASE t.priv # PRV_S
    BY <1>9, <1>15, <2>2 DEF TlbKept
  <2> QED
    BY <2>1, <2>2
<1>19. Keeps(t, u, {"pc", "priv", "flags", "mpp", "mepc", "sepc", "tlb"})
  BY <1>14 DEF Keeps
<1> QED
  BY <1>13, <1>14, <1>15, <1>16, <1>17, <1>18, <1>19 DEF Switched, MprvOk


\* A trap into M mode.
LEMMA ToMachine ==
  ASSUME NEW t \in Harts, NEW a, FlagStep(t, "MPIE", a), NEW b, FlagStep(a, "MIE", b),
         NEW u, u = [set_priv([b EXCEPT !.mpp = t.priv], PRV_M) EXCEPT !.mepc = t.pc, !.pc = t.mtvec]
  PROVE  Switched(t, u) /\ u.priv = PRV_M
<1>3. PICK c : c = [b EXCEPT !.mpp = t.priv]
  OBVIOUS
<1>4. PICK d : d = set_priv(c, PRV_M)
  OBVIOUS
<1>5. PRV_M \in PRV_U .. PRV_M
  BY DEF PRV_U, PRV_M
<1>6. a \in Harts /\ Keeps(t, a, {"flags"}) /\ a.flags \ {"MPIE"} = t.flags \ {"MPIE"}
  BY DEF FlagStep
<1>7. b \in Harts /\ Keeps(a, b, {"flags"}) /\ b.flags \ {"MIE"} = a.flags \ {"MIE"}
  BY DEF FlagStep
<1>8. t.priv \in PRV_U .. PRV_M /\ t.pc \in Nat /\ t.mtvec \in Nat
  BY DEF Harts
<1>9. c \in Harts /\ Keeps(b, c, {"mpp"})
  BY <1>3, <1>7, <1>8, SetMpp
<1>10. /\ d \in Harts /\ d.priv = PRV_M /\ Keeps(c, d, {"priv", "tlb"})
       /\ (c.priv = PRV_M => d = c) /\ (c.priv # PRV_M => d.tlb = tlb_init)
  BY <1>4, <1>5, <1>9, PrivEffect
<1>11. u = [d EXCEPT !.mepc = t.pc, !.pc = t.mtvec]
  BY <1>3, <1>4
<1>12. u \in Harts /\ Keeps(d, u, {"mepc", "pc"})
  BY <1>8, <1>10, <1>11, SetMepcPc
<1>13. Keeps(t, c, {"flags", "mpp"}) /\ Keeps(t, u, {"pc", "priv", "flags", "mpp", "mepc", "sepc", "tlb"})
  BY <1>6, <1>7, <1>9, <1>10, <1>12 DEF Keeps
<1>14. /\ u.priv = PRV_M /\ u.flags = b.flags /\ u.tlb = d.tlb /\ c.priv = t.priv /\ c.tlb = t.tlb
       /\ u.satp = t.satp /\ u.menvcfg = t.menvcfg /\ u.mem = t.mem
  BY <1>9, <1>10, <1>12, <1>13 DEF Keeps, Fields
<1>15. \A x \in {"MPRV", "MXR", "SUM"} : x \in u.flags <=> x \in t.flags
  BY <1>6, <1>7, <1>14
<1>16. TlbKept(t, u)
  <2>1. CASE t.priv = PRV_M
    BY <1>10, <1>14, <1>15, <2>1, SameMemory DEF TlbKept, SameWalk
  <2>2. CASE t.priv # PRV_M
    BY <1>10, <1>14, <2>2 DEF TlbKept
  <2> QED
    BY <2>1, <2>2
<1> QED
  BY <1>12, <1>13, <1>14, <1>16 DEF Switched, MprvOk

\* A trap goes to the machine, or to the supervisor with the machine's state
\* as it is.
Trapped(t, u) ==
  /\ Switched(t, u)
  /\ \/ u.priv = PRV_M
     \/ /\ u.priv = PRV_S /\ Keeps(t, u, {"pc", "priv", "flags", "sepc", "tlb"})
        /\ u.flags \ SstatusFlags = t.flags \ SstatusFlags

\* raise_exception2.
LEMMA RaiseEffect ==
  ASSUME NEW t \in Harts, MprvOk(t), NEW delegated
  PROVE  Trapped(t, raise_exception(t, delegated))
<1>1. PICK was : was = (EnableOf(t.priv) \in t.flags)
  OBVIOUS
<1>2. PICK inner : inner = (t.priv = PRV_S)
  OBVIOUS
<1>3. PICK u : u = raise_exception(t, delegated)
  OBVIOUS
<1>4. /\ "SPIE" \in MstatusFlags /\ "SPP" \in MstatusFlags /\ "SIE" \in MstatusFlags
      /\ "MPIE" \in MstatusFlags /\ "MIE" \in MstatusFlags
  BY DEF MstatusFlags, SstatusFlags
<1>5. CASE t.priv <= PRV_S /\ delegated
  <2>1. PICK a : a = Flag(t, "SPIE", was)
    OBVIOUS
  <2>2. PICK b : b = Flag(a, "SPP", inner)
    OBVIOUS
  <2>3. PICK c : c = Flag(b, "SIE", FALSE)
    OBVIOUS
  <2>4. u = [set_priv(c, PRV_S) EXCEPT !.sepc = t.pc, !.pc = t.stvec]
    BY <1>1, <1>2, <1>3, <1>5, <2>1, <2>2, <2>3 DEF raise_exception
  <2>5. FlagStep(t, "SPIE", a)
    BY <1>4, <2>1, FlagEffect, Zenon
  <2>6. FlagStep(a, "SPP", b)
    BY <1>4, <2>2, <2>5, FlagEffect, Zenon DEF FlagStep
  <2>7. FlagStep(b, "SIE", c)
    BY <1>4, <2>3, <2>6, FlagEffect, Zenon DEF FlagStep
  <2>8. t.priv # PRV_M
    BY <1>5 DEF PRV_S, PRV_M
  <2>9. Trapped(t, u)
    BY <2>4, <2>5, <2>6, <2>7, <2>8, ToSupervisor DEF Trapped
  <2> QED
    BY <1>3, <2>9, Zenon
<1>6. CASE ~(t.priv <= PRV_S /\ delegated)
  <2>1. PICK a : a = Flag(t, "MPIE", was)
    OBVIOUS
  <2>2. PICK b : b = Flag(a, "MIE", FALSE)
    OBVIOUS
  <2>3. u = [set_priv([b EXCEPT !.mpp = t.priv], PRV_M) EXCEPT !.mepc = t.pc, !.pc = t.mtvec]
    BY <1>1, <1>3, <1>6, <2>1, <2>2 DEF raise_exception
  <2>4. FlagStep(t, "MPIE", a)
    BY <1>4, <2>1, FlagEffect, Zenon
  <2>5. FlagStep(a, "MIE", b)
    BY <1>4, <2>2, <2>4, FlagEffect, Zenon DEF FlagStep
  <2>6. Trapped(t, u)
    BY <2>3, <2>4, <2>5, ToMachine DEF Trapped
  <2> QED
    BY <1>3, <2>6, Zenon
<1> QED
  BY <1>5, <1>6

\* handle_sret.
LEMMA SretEffect ==
  ASSUME NEW t \in Harts, MprvOk(t), t.priv >= PRV_S
  PROVE  LET u == handle_sret(t)
         IN  /\ Switched(t, u) /\ Keeps(t, u, {"pc", "priv", "flags", "tlb"})
             /\ u.flags \ (SstatusFlags \union {"MPRV"}) = t.flags \ (SstatusFlags \union {"MPRV"})
             /\ "MPRV" \notin u.flags
<1>1. PICK a : a = Flag(t, "SIE", "SPIE" \in t.flags)
  OBVIOUS
<1>2. PICK b : b = Flag(a, "SPIE", TRUE)
  OBVIOUS
<1>3. PICK c : c = Flag(b, "SPP", FALSE)
  OBVIOUS
<1>4. PICK d : d = Flag(c, "MPRV", FALSE)
  OBVIOUS
<1>5. PICK back : back = IF "SPP" \in t.flags THEN PRV_S ELSE PRV_U
  OBVIOUS
<1>6. PICK e : e = set_priv(d, back)
  OBVIOUS
<1>7. PICK u : u = handle_sret(t)
  OBVIOUS
<1>8. /\ {"SPIE", "SPP", "SIE"} \subseteq SstatusFlags /\ SstatusFlags \subseteq MstatusFlags
      /\ "MPRV" \in MstatusFlags
  BY DEF SstatusFlags, MstatusFlags
<1>9. back \in PRV_U .. PRV_M /\ back # PRV_M
  BY <1>5 DEF PRV_U, PRV_S, PRV_M
<1>10. /\ "SPIE" \in MstatusFlags /\ "SPP" \in MstatusFlags /\ "SIE" \in MstatusFlags
       /\ "MPRV" \in MstatusFlags
  BY <1>8
<1>11. a \in Harts /\ Keeps(t, a, {"flags"}) /\ a.flags \ {"SIE"} = t.flags \ {"SIE"}
  BY <1>1, <1>10, FlagEffect, Zenon DEF FlagStep
<1>12. b \in Harts /\ Keeps(a, b, {"flags"}) /\ b.flags \ {"SPIE"} = a.flags \ {"SPIE"}
  BY <1>2, <1>10, <1>11, FlagEffect, Zenon DEF FlagStep
<1>13. c \in Harts /\ Keeps(b, c, {"flags"}) /\ c.flags \ {"SPP"} = b.flags \ {"SPP"}
  BY <1>3, <1>10, <1>12, FlagEffect, Zenon DEF FlagStep
<1>14. d \in Harts /\ Keeps(c, d, {"flags"}) /\ d.flags \ {"MPRV"} = c.flags \ {"MPRV"} /\ "MPRV" \notin d.flags
  BY <1>4, <1>13, <1>10, FlagEffect, FlagCleared, Zenon DEF FlagStep
<1>15. /\ e \in Harts /\ e.priv = back /\ Keeps(d, e, {"priv", "tlb"})
       /\ (d.priv = back => e = d) /\ (d.priv # back => e.tlb = tlb_init)
  BY <1>6, <1>9, <1>14, PrivEffect
<1>16. u = [e EXCEPT !.pc = t.sepc] /\ t.sepc \in Nat
  BY <1>1, <1>2, <1>3, <1>4, <1>5, <1>6, <1>7 DEF handle_sret, Harts
<1>17. u \in Harts /\ Keeps(e, u, {"pc"})
  BY <1>15, <1>16, SetPc
<1>18. Keeps(t, d, {"flags"}) /\ Keeps(t, u, {"pc", "priv", "flags", "tlb"})
       /\ Keeps(t, u, {"pc", "priv", "flags", "mpp", "mepc", "sepc", "tlb"})
  BY <1>11, <1>12, <1>13, <1>14, <1>15, <1>17 DEF Keeps
<1>19. /\ u.priv = back /\ u.flags = d.flags /\ u.tlb = e.tlb /\ d.priv = t.priv /\ d.tlb = t.tlb
       /\ u.satp = t.satp /\ u.menvcfg = t.menvcfg /\ u.mem = t.mem
  BY <1>14, <1>15, <1>17, <1>18 DEF Keeps, Fields
<1>20. /\ u.flags \ (SstatusFlags \union {"MPRV"}) = t.flags \ (SstatusFlags \union {"MPRV"})
       /\ "MPRV" \notin u.flags
       /\ \A x \in {"MXR", "SUM"} : x \in u.flags <=> x \in t.flags
  BY <1>8, <1>11, <1>12, <1>13, <1>14, <1>19
<1>21. TlbKept(t, u)
  <2>1. CASE t.priv = back
    <3>1. "MPRV" \notin t.flags
      BY <1>9, <2>1 DEF MprvOk
    <3> QED
      BY <1>15, <1>19, <1>20, <2>1, <3>1, SameMemory DEF TlbKept, SameWalk
  <2>2. CASE t.priv # back
    BY <1>15, <1>19, <2>2 DEF TlbKept
  <2> QED
    BY <2>1, <2>2
<1> QED
  BY <1>7, <1>17, <1>18, <1>20, <1>21 DEF Switched, MprvOk

\* handle_mret: MPRV goes with the return to a lower mode.
LEMMA MretEffect ==
  ASSUME NEW t \in Harts, MprvOk(t), t.priv = PRV_M
  PROVE  Switched(t, handle_mret(t))
<1>1. PICK a : a = Flag(t, "MIE", "MPIE" \in t.flags)
  OBVIOUS
<1>2. PICK b : b = Flag(a, "MPIE", TRUE)
  OBVIOUS
<1>3. PICK c : c = IF t.mpp < PRV_M THEN Flag(b, "MPRV", FALSE) ELSE b
  OBVIOUS
<1>4. PICK d : d = [c EXCEPT !.mpp = PRV_U]
  OBVIOUS
<1>5. PICK e : e = set_priv(d, t.mpp)
  OBVIOUS
<1>6. PICK u : u = handle_mret(t)
  OBVIOUS
<1>7. {"MIE", "MPIE", "MPRV"} \subseteq MstatusFlags /\ PRV_U \in PRV_U .. PRV_M
  BY DEF MstatusFlags, PRV_U, PRV_M
<1>8. t.mpp \in PRV_U .. PRV_M /\ t.mepc \in Nat
  BY DEF Harts
<1>9. "MIE" \in MstatusFlags /\ "MPIE" \in MstatusFlags
  BY <1>7
<1>10. a \in Harts /\ Keeps(t, a, {"flags"}) /\ a.flags \ {"MIE"} = t.flags \ {"MIE"}
  BY <1>1, <1>9, FlagEffect, Zenon DEF FlagStep
<1>11. b \in Harts /\ Keeps(a, b, {"flags"}) /\ b.flags \ {"MPIE"} = a.flags \ {"MPIE"}
  BY <1>2, <1>9, <1>10, FlagEffect, Zenon DEF FlagStep
<1>12. /\ c \in Harts /\ Keeps(b, c, {"flags"})
       /\ (t.mpp < PRV_M => "MPRV" \notin c.flags) /\ (~(t.mpp < PRV_M) => c = b)
  <2>1. CASE t.mpp < PRV_M
    <3>1. c = Flag(b, "MPRV", FALSE) /\ "MPRV" \in MstatusFlags
      BY <1>3, <1>7, <2>1
    <3>2. c \in Harts /\ Keeps(b, c, {"flags"}) /\ "MPRV" \notin c.flags
      BY <1>11, <3>1, FlagEffect, FlagCleared, Zenon DEF FlagStep
    <3> QED
      BY <2>1, <3>2
  <2>2. CASE ~(t.mpp < PRV_M)
    BY <1>3, <1>11, <2>2 DEF Keeps
  <2> QED
    BY <2>1, <2>2
<1>13. d \in Harts /\ Keeps(c, d, {"mpp"})
  BY <1>4, <1>7, <1>12, SetMpp
<1>14. /\ e \in Harts /\ e.priv = t.mpp /\ Keeps(d, e, {"priv", "tlb"})
       /\ (d.priv = t.mpp => e = d) /\ (d.priv # t.mpp => e.tlb = tlb_init)
  BY <1>5, <1>8, <1>13, PrivEffect
<1>15. u = [e EXCEPT !.pc = t.mepc]
  BY <1>1, <1>2, <1>3, <1>4, <1>5, <1>6 DEF handle_mret
<1>16. u \in Harts /\ Keeps(e, u, {"pc"})
  BY <1>8, <1>14, <1>15, SetPc
<1>17. Keeps(t, d, {"flags", "mpp"}) /\ Keeps(t, u, {"pc", "priv", "flags", "mpp", "mepc", "sepc", "tlb"})
  BY <1>10, <1>11, <1>12, <1>13, <1>14, <1>16 DEF Keeps
<1>18. /\ u.priv = t.mpp /\ u.flags = c.flags /\ u.tlb = e.tlb /\ d.priv = t.priv /\ d.tlb = t.tlb
       /\ u.satp = t.satp /\ u.menvcfg = t.menvcfg /\ u.mem = t.mem
  BY <1>13, <1>14, <1>16, <1>17 DEF Keeps, Fields
<1>19. CASE t.mpp < PRV_M
  <2>1. t.mpp # t.priv
    BY <1>19 DEF PRV_M
  <2>2. u.tlb = tlb_init /\ "MPRV" \notin u.flags
    BY <1>12, <1>14, <1>18, <1>19, <2>1
  <2> QED
    BY <1>6, <1>16, <1>17, <2>2 DEF Switched, MprvOk, TlbKept
<1>20. CASE ~(t.mpp < PRV_M)
  <2>1. t.mpp = PRV_M
    BY <1>8, <1>20 DEF PRV_U, PRV_M
  <2>2. u.tlb = t.tlb /\ u.priv = t.priv /\ u.flags = b.flags
    BY <1>12, <1>14, <1>18, <1>20, <2>1
  <2>3. \A x \in {"MPRV", "MXR", "SUM"} : x \in u.flags <=> x \in t.flags
    BY <1>10, <1>11, <2>2
  <2>4. TlbKept(t, u)
    BY <1>18, <2>2, <2>3, SameMemory DEF TlbKept, SameWalk
  <2> QED
    BY <1>6, <1>16, <1>17, <2>2, <2>4 DEF Switched, MprvOk
<1> QED
  BY <1>19, <1>20

-----------------------------------------------------------------------------
(* Interrupts and the supervisor timer.                                    *)

\* With Sstc, the pending bit is what the timer and the hart's time say.
TimerExact(t) ==
  "STCE" \in t.menvcfg => (MIP_STIP \in t.mip <=> (t.stimecmp # Never /\ t.ticks >= t.stimecmp))

\* The deadline of the timer stays, or the host is asked to look at it.
TimerKept(t, u) ==
  /\ u.ticks = t.ticks
  /\ t.service => u.service
  /\ TimerExact(t) => TimerExact(u) /\ (u.service \/ stimecmp(u) = stimecmp(t))

LEMMA TimerSame ==
  ASSUME NEW t, NEW u, u.menvcfg = t.menvcfg, u.stimecmp = t.stimecmp, u.ticks = t.ticks,
         u.service = t.service, MIP_STIP \in u.mip <=> MIP_STIP \in t.mip
  PROVE  TimerKept(t, u)
BY DEF TimerKept, TimerExact, stimecmp

\* An interrupt line changes, and the hart may wake.
Signalled(t, u) ==
  /\ u \in Harts /\ Keeps(t, u, {"mip", "power_down"})
  /\ ~t.power_down => ~u.power_down

LEMMA SetMip ==
  ASSUME NEW t \in Harts, NEW x \in SUBSET Irqs
  PROVE  [t EXCEPT !.mip = x] \in Harts /\ Keeps(t, [t EXCEPT !.mip = x], {"mip"})
         /\ [t EXCEPT !.mip = x].mip = x
BY DEF Harts, Keeps, Fields

LEMMA WokenEffect ==
  ASSUME NEW t \in Harts
  PROVE  LET u == Woken(t)
         IN  u \in Harts /\ Keeps(t, u, {"power_down"}) /\ (~t.power_down => ~u.power_down)
<1>1. PICK n : n = [t EXCEPT !.power_down = FALSE]
  OBVIOUS
<1>2. n \in Harts /\ Keeps(t, n, {"power_down"}) /\ ~n.power_down
  BY <1>1 DEF Harts, Keeps, Fields
<1>3. Woken(t) = n \/ Woken(t) = t
  BY <1>1 DEF Woken
<1>4. Keeps(t, t, {"power_down"})
  BY DEF Keeps
<1> QED
  BY <1>2, <1>3, <1>4

\* riscv_cpu_set_mip.
LEMMA SetMipEffect ==
  ASSUME NEW t \in Harts, NEW mask \in SUBSET Irqs
  PROVE  Signalled(t, set_mip(t, mask)) /\ set_mip(t, mask).mip = t.mip \union mask
<1>1. PICK n : n = [t EXCEPT !.mip = t.mip \union mask]
  OBVIOUS
<1>2. t.mip \union mask \in SUBSET Irqs
  BY DEF Harts
<1>3. n \in Harts /\ Keeps(t, n, {"mip"}) /\ n.mip = t.mip \union mask
  BY <1>1, <1>2, SetMip
<1>4. PICK u : u = Woken(n)
  OBVIOUS
<1>5. u \in Harts /\ Keeps(n, u, {"power_down"}) /\ (~n.power_down => ~u.power_down)
  BY <1>3, <1>4, WokenEffect
<1>6. Keeps(t, u, {"mip", "power_down"})
  BY <1>3, <1>5 DEF Keeps
<1>7. u.mip = n.mip /\ n.power_down = t.power_down
  BY <1>3, <1>5 DEF Keeps, Fields
<1>8. set_mip(t, mask) = u
  BY <1>1, <1>4 DEF set_mip, Harts
<1> QED
  BY <1>3, <1>5, <1>6, <1>7, <1>8 DEF Signalled

\* The external lines leave the timer's bit alone.
LEMMA SetInterruptsEffect ==
  ASSUME NEW t \in Harts, NEW mask
  PROVE  LET u == set_interrupts(t, mask)
         IN  Signalled(t, u) /\ (MIP_STIP \in u.mip <=> MIP_STIP \in t.mip)
<1>1. PICK n : n = [t EXCEPT !.mip = t.mip \ ExternalIrqs]
  OBVIOUS
<1>2. t.mip \ ExternalIrqs \in SUBSET Irqs
  BY DEF Harts
<1>3. n \in Harts /\ Keeps(t, n, {"mip"}) /\ n.mip = t.mip \ ExternalIrqs
  BY <1>1, <1>2, SetMip
<1>4. mask \intersect ExternalIrqs \in SUBSET Irqs /\ MIP_STIP \notin ExternalIrqs
  BY DEF ExternalIrqs, Irqs, MIP_SSIP, MIP_MSIP, MIP_STIP, MIP_MTIP, MIP_SEIP, MIP_MEIP
<1>5. PICK u : u = set_mip(n, mask \intersect ExternalIrqs)
  OBVIOUS
<1>6. Signalled(n, u) /\ u.mip = n.mip \union (mask \intersect ExternalIrqs)
  BY <1>3, <1>4, <1>5, SetMipEffect
<1>7. u \in Harts /\ Keeps(n, u, {"mip", "power_down"}) /\ (~n.power_down => ~u.power_down)
  BY <1>6 DEF Signalled
<1>8. Keeps(t, u, {"mip", "power_down"}) /\ n.power_down = t.power_down
  BY <1>3, <1>7 DEF Keeps, Fields
<1>9. set_interrupts(t, mask) = u
  BY <1>1, <1>5 DEF set_interrupts, Harts
<1>10. MIP_STIP \in u.mip <=> MIP_STIP \in t.mip
  BY <1>3, <1>4, <1>6
<1> QED
  BY <1>7, <1>8, <1>9, <1>10 DEF Signalled

LEMMA SignalledOnce ==
  ASSUME NEW t \in Harts
  PROVE  Signalled(t, t)
BY DEF Signalled, Keeps

\* riscv_cpu_update_time makes the timer's bit exact.
LEMMA UpdateTimeEffect ==
  ASSUME NEW t \in Harts, NEW time \in Nat
  PROVE  LET u == riscv_cpu_update_time(t, time)
         IN  /\ Signalled(t, u)
             /\ "STCE" \in t.menvcfg =>
                  (MIP_STIP \in u.mip <=> (t.stimecmp # Never /\ time >= t.stimecmp))
<1>1. PICK n : n = [t EXCEPT !.mip = t.mip \ {MIP_STIP}]
  OBVIOUS
<1>2. n \in Harts /\ Keeps(t, n, {"mip"}) /\ n.mip = t.mip \ {MIP_STIP}
  <2>1. t.mip \ {MIP_STIP} \in SUBSET Irqs
    BY DEF Harts
  <2> QED
    BY <1>1, <2>1, SetMip
<1>3. Signalled(t, n) /\ MIP_STIP \notin n.mip
  <2>1. n.power_down = t.power_down /\ Keeps(t, n, {"mip", "power_down"})
    BY <1>2 DEF Keeps, Fields
  <2> QED
    BY <1>2, <2>1 DEF Signalled
<1>4. PICK z : z = set_mip(t, {MIP_STIP})
  OBVIOUS
<1>5. {MIP_STIP} \in SUBSET Irqs
  BY DEF Irqs
<1>6. Signalled(t, z) /\ MIP_STIP \in z.mip
  BY <1>4, <1>5, SetMipEffect
<1>7. PICK u : u = riscv_cpu_update_time(t, time)
  OBVIOUS
<1>8. u = IF "STCE" \notin t.menvcfg THEN t
          ELSE IF t.stimecmp # Never /\ time >= t.stimecmp THEN z ELSE n
  BY <1>1, <1>4, <1>7 DEF riscv_cpu_update_time, Harts
<1> QED
  BY <1>3, <1>6, <1>7, <1>8, SignalledOnce

\* The same, for a time the host presents.
LEMMA SetTimeEffect ==
  ASSUME NEW t \in Harts, NEW time \in Nat
  PROVE  LET u == set_guest_timer_ticks(t, time)
         IN  /\ u \in Harts /\ Keeps(t, u, {"ticks", "mip", "power_down"}) /\ u.ticks = time
             /\ TimerExact(u) /\ (~t.power_down => ~u.power_down)
<1>1. PICK n : n = [t EXCEPT !.ticks = time]
  OBVIOUS
<1>2. n \in Harts /\ Keeps(t, n, {"ticks"}) /\ n.ticks = time
  BY <1>1 DEF Harts, Keeps, Fields
<1>3. PICK u : u = riscv_cpu_update_time(n, time)
  OBVIOUS
<1>4. /\ Signalled(n, u)
      /\ "STCE" \in n.menvcfg => (MIP_STIP \in u.mip <=> (n.stimecmp # Never /\ time >= n.stimecmp))
  BY <1>2, <1>3, UpdateTimeEffect
<1>5. u \in Harts /\ Keeps(n, u, {"mip", "power_down"}) /\ (~n.power_down => ~u.power_down)
  BY <1>4 DEF Signalled
<1>6. Keeps(t, u, {"ticks", "mip", "power_down"})
  BY <1>2, <1>5 DEF Keeps
<1>7. /\ u.ticks = time /\ n.power_down = t.power_down
      /\ u.menvcfg = n.menvcfg /\ u.stimecmp = n.stimecmp
  BY <1>2, <1>5 DEF Keeps, Fields
<1>8. TimerExact(u)
  BY <1>4, <1>7 DEF TimerExact
<1>9. set_guest_timer_ticks(t, time) = u
  BY <1>1, <1>3 DEF set_guest_timer_ticks
<1> QED
  BY <1>5, <1>6, <1>7, <1>8, <1>9

-----------------------------------------------------------------------------
(* Control and status registers.                                           *)

\* A locked entry, and the bound below it, stay.
PmpKept(t, u) ==
  \A e \in PmpEntries :
    /\ t.pmp[e].lock => u.pmp[e] = t.pmp[e]
    /\ t.pmp[e].lock /\ t.pmp[e].a = "tor" /\ e - 1 \in PmpEntries =>
         u.pmp[e - 1].addr = t.pmp[e - 1].addr

\* What Confined says of an instruction.
Confines(t, u) ==
  /\ t.priv < PRV_M /\ u.priv < PRV_M => MachineState(u) = MachineState(t)
  /\ t.priv = PRV_U /\ u.priv = PRV_U => SupervisorState(u) = SupervisorState(t)
  /\ t.priv = PRV_S =>
       /\ u.stimecmp # t.stimecmp => "STCE" \in t.menvcfg /\ 1 \in t.mcounteren
       /\ u.satp # t.satp => "TVM" \notin t.flags
  /\ PmpKept(t, u)

\* Fields that belong to no mode.
Plain == {"pc", "priv", "mip", "ticks", "power_down", "service", "reprogrammed", "tlb", "mem", "dirty"}

LEMMA PlainConfines ==
  ASSUME NEW t, NEW u, Keeps(t, u, Plain)
  PROVE  Confines(t, u)
<1>1. /\ u.flags = t.flags /\ u.mpp = t.mpp /\ u.mie = t.mie /\ u.mideleg = t.mideleg
      /\ u.medeleg = t.medeleg /\ u.mtvec = t.mtvec /\ u.mepc = t.mepc /\ u.menvcfg = t.menvcfg
      /\ u.mcounteren = t.mcounteren /\ u.pmp = t.pmp /\ u.satp = t.satp /\ u.stvec = t.stvec
      /\ u.sepc = t.sepc /\ u.scounteren = t.scounteren /\ u.senvcfg = t.senvcfg
      /\ u.stimecmp = t.stimecmp
  BY DEF Keeps, Fields, Plain
<1> QED
  BY <1>1 DEF Confines, MachineState, SupervisorState, PmpKept

\* What a step of the hart does that does not touch memory.
Controls(t, u) ==
  /\ u \in Harts /\ MprvOk(u) /\ TlbKept(t, u) /\ u.mem = t.mem /\ u.dirty = t.dirty
  /\ TimerKept(t, u) /\ Confines(t, u)

\* The same for one that keeps what the TLBs depend on.
LEMMA PlainControls ==
  ASSUME NEW t \in Harts, MprvOk(t), NEW u \in Harts,
         Keeps(t, u, {"pc", "mip", "power_down"}), MIP_STIP \in u.mip <=> MIP_STIP \in t.mip
  PROVE  Controls(t, u)
<1>1. /\ u.tlb = t.tlb /\ u.mem = t.mem /\ u.dirty = t.dirty /\ u.priv = t.priv /\ u.satp = t.satp
      /\ u.flags = t.flags /\ u.menvcfg = t.menvcfg /\ u.stimecmp = t.stimecmp /\ u.ticks = t.ticks
      /\ u.service = t.service
  BY DEF Keeps, Fields
<1>2. Keeps(t, u, Plain)
  BY DEF Keeps, Plain
<1>3. TlbKept(t, u)
  BY <1>1, SameMemory DEF TlbKept, SameWalk
<1> QED
  BY <1>1, <1>2, <1>3, PlainConfines, TimerSame DEF Controls, MprvOk

\* A trap changes what belongs to other modes only by entering them.
LEMMA TrapControls ==
  ASSUME NEW t \in Harts, MprvOk(t), NEW delegated
  PROVE  Controls(t, raise_exception(t, delegated))
<1>1. PICK u : u = raise_exception(t, delegated)
  OBVIOUS
<1>2. Trapped(t, u)
  BY <1>1, RaiseEffect, Zenon
<1>3. /\ u \in Harts /\ MprvOk(u) /\ TlbKept(t, u)
      /\ Keeps(t, u, {"pc", "priv", "flags", "mpp", "mepc", "sepc", "tlb"})
  BY <1>2 DEF Trapped, Switched
<1>4. /\ u.mem = t.mem /\ u.dirty = t.dirty /\ u.ticks = t.ticks /\ u.service = t.service
      /\ u.menvcfg = t.menvcfg /\ u.stimecmp = t.stimecmp /\ u.mip = t.mip /\ u.pmp = t.pmp
      /\ u.satp = t.satp
  BY <1>3 DEF Keeps, Fields
<1>5. Confines(t, u)
  <2>1. CASE u.priv = PRV_M
    BY <1>4, <2>1 DEF Confines, PmpKept, PRV_M, PRV_U
  <2>2. CASE /\ u.priv = PRV_S /\ Keeps(t, u, {"pc", "priv", "flags", "sepc", "tlb"})
             /\ u.flags \ SstatusFlags = t.flags \ SstatusFlags
    <3>1. /\ u.mpp = t.mpp /\ u.mie = t.mie /\ u.mideleg = t.mideleg /\ u.medeleg = t.medeleg
          /\ u.mtvec = t.mtvec /\ u.mepc = t.mepc /\ u.mcounteren = t.mcounteren
      BY <2>2 DEF Keeps, Fields
    <3>2. MachineState(u) = MachineState(t)
      BY <1>4, <2>2, <3>1 DEF MachineState
    <3> QED
      BY <1>4, <2>2, <3>2 DEF Confines, PmpKept, PRV_U, PRV_S
  <2> QED
    BY <1>2, <2>1, <2>2 DEF Trapped
<1>6. TimerKept(t, u)
  BY <1>4, TimerSame
<1>7. Controls(t, u)
  BY <1>3, <1>4, <1>5, <1>6 DEF Controls
<1> QED
  BY <1>1, <1>7, Zenon

\* A return of the supervisor.
LEMMA SretControls ==
  ASSUME NEW t \in Harts, MprvOk(t), t.priv >= PRV_S
  PROVE  Controls(t, handle_sret(t))
<1>1. PICK u : u = handle_sret(t)
  OBVIOUS
<1>2. /\ Switched(t, u) /\ Keeps(t, u, {"pc", "priv", "flags", "tlb"})
      /\ u.flags \ (SstatusFlags \union {"MPRV"}) = t.flags \ (SstatusFlags \union {"MPRV"})
      /\ "MPRV" \notin u.flags
  BY <1>1, SretEffect
<1>3. u \in Harts /\ MprvOk(u) /\ TlbKept(t, u)
  BY <1>2 DEF Switched
<1>4. /\ u.mem = t.mem /\ u.dirty = t.dirty /\ u.ticks = t.ticks /\ u.service = t.service
      /\ u.menvcfg = t.menvcfg /\ u.stimecmp = t.stimecmp /\ u.mip = t.mip /\ u.pmp = t.pmp
      /\ u.satp = t.satp /\ u.mpp = t.mpp /\ u.mie = t.mie /\ u.mideleg = t.mideleg
      /\ u.medeleg = t.medeleg /\ u.mtvec = t.mtvec /\ u.mepc = t.mepc /\ u.mcounteren = t.mcounteren
  BY <1>2 DEF Keeps, Fields
<1>5. t.priv < PRV_M => MachineState(u) = MachineState(t)
  <2>1. ASSUME t.priv < PRV_M PROVE "MPRV" \notin t.flags
    BY <2>1 DEF MprvOk, PRV_M
  <2>2. ASSUME t.priv < PRV_M PROVE u.flags \ SstatusFlags = t.flags \ SstatusFlags
    BY <1>2, <2>1, <2>2
  <2> QED
    BY <1>4, <2>2 DEF MachineState
<1>6. Confines(t, u)
  <2>1. t.priv # PRV_U
    BY DEF PRV_U, PRV_S
  <2> QED
    BY <1>4, <1>5, <2>1 DEF Confines, PmpKept
<1>7. TimerKept(t, u)
  BY <1>4, TimerSame
<1> QED
  BY <1>1, <1>3, <1>4, <1>6, <1>7 DEF Controls

\* A return of the machine.
LEMMA MretControls ==
  ASSUME NEW t \in Harts, MprvOk(t), t.priv = PRV_M
  PROVE  Controls(t, handle_mret(t))
<1>1. PICK u : u = handle_mret(t)
  OBVIOUS
<1>2. /\ u \in Harts /\ MprvOk(u) /\ TlbKept(t, u)
      /\ Keeps(t, u, {"pc", "priv", "flags", "mpp", "mepc", "sepc", "tlb"})
  BY <1>1, MretEffect DEF Switched
<1>3. /\ u.mem = t.mem /\ u.dirty = t.dirty /\ u.ticks = t.ticks /\ u.service = t.service
      /\ u.menvcfg = t.menvcfg /\ u.stimecmp = t.stimecmp /\ u.mip = t.mip /\ u.pmp = t.pmp
  BY <1>2 DEF Keeps, Fields
<1>4. Confines(t, u)
  BY <1>3 DEF Confines, PmpKept, PRV_M, PRV_S, PRV_U
<1>5. TimerKept(t, u)
  BY <1>3, TimerSame
<1> QED
  BY <1>1, <1>2, <1>3, <1>4, <1>5 DEF Controls

\* Where the interpreter goes on after an instruction.
Going == {"insn", "block", "loop"}
Continues(t, r) == Controls(t, r.s) /\ r.then \in Going

LEMMA FlushEffect ==
  ASSUME NEW t \in Harts
  PROVE  LET u == tlb_flush_all(t)
         IN  u \in Harts /\ Keeps(t, u, {"tlb"}) /\ u.tlb = tlb_init
<1>1. tlb_init \in [Tlbs -> [0 .. TlbSize - 1 -> TlbEntries]]
  BY EmptyTlb DEF Slots
<1>2. PICK n : n = [t EXCEPT !.tlb = tlb_init]
  OBVIOUS
<1>3. n \in Harts /\ Keeps(t, n, {"tlb"}) /\ n.tlb = tlb_init
  BY <1>1, <1>2 DEF Harts, Keeps, Fields
<1> QED
  BY <1>2, <1>3 DEF tlb_flush_all

\* tlb_flush_all.
LEMMA FlushControls ==
  ASSUME NEW t \in Harts, MprvOk(t)
  PROVE  Controls(t, tlb_flush_all(t))
<1>1. PICK u : u = tlb_flush_all(t)
  OBVIOUS
<1>2. u \in Harts /\ Keeps(t, u, {"tlb"}) /\ u.tlb = tlb_init
  BY <1>1, FlushEffect
<1>3. /\ u.mem = t.mem /\ u.dirty = t.dirty /\ u.ticks = t.ticks /\ u.service = t.service
      /\ u.menvcfg = t.menvcfg /\ u.stimecmp = t.stimecmp /\ u.mip = t.mip /\ u.flags = t.flags
      /\ u.priv = t.priv
  BY <1>2 DEF Keeps, Fields
<1>4. Keeps(t, u, Plain)
  BY <1>2 DEF Keeps, Plain
<1> QED
  BY <1>1, <1>2, <1>3, <1>4, PlainConfines, TimerSame DEF Controls, MprvOk, TlbKept

Statuses == [flags : SUBSET MstatusFlags, mpp : PRV_U .. PRV_M]

\* set_mstatus flushes when the TLBs depend on what changes.
LEMMA StatusEffect ==
  ASSUME NEW t \in Harts, NEW val \in Statuses
  PROVE  LET u == set_mstatus(t, val)
         IN  /\ u \in Harts /\ Keeps(t, u, {"flags", "mpp", "tlb"}) /\ TlbKept(t, u)
             /\ u.flags = val.flags /\ u.mpp = val.mpp
<1>1. PICK differ : differ = (t.flags \ val.flags) \union (val.flags \ t.flags)
  OBVIOUS
<1>2. PICK n : n = IF differ \intersect {"MPRV", "SUM", "MXR"} # {}
                      \/ ("MPRV" \in t.flags /\ val.mpp # t.mpp)
                   THEN tlb_flush_all(t) ELSE t
  OBVIOUS
<1>3. n \in Harts /\ Keeps(t, n, {"tlb"}) /\ (n.tlb = tlb_init \/ n = t)
  BY <1>2, FlushEffect DEF Keeps
<1>4. PICK u : u = [n EXCEPT !.flags = val.flags, !.mpp = val.mpp]
  OBVIOUS
<1>5. val.flags \in SUBSET MstatusFlags /\ val.mpp \in PRV_U .. PRV_M
  BY DEF Statuses
<1>6. u \in Harts /\ Keeps(n, u, {"flags", "mpp"}) /\ u.flags = val.flags /\ u.mpp = val.mpp
  BY <1>3, <1>4, <1>5 DEF Harts, Keeps, Fields
<1>7. Keeps(t, u, {"flags", "mpp", "tlb"})
  BY <1>3, <1>6 DEF Keeps
<1>8. u.tlb = n.tlb /\ u.priv = t.priv /\ u.satp = t.satp /\ u.mem = t.mem /\ u.menvcfg = t.menvcfg
  BY <1>6, <1>7 DEF Keeps, Fields
<1>9. TlbKept(t, u)
  <2>1. CASE differ \intersect {"MPRV", "SUM", "MXR"} # {} \/ ("MPRV" \in t.flags /\ val.mpp # t.mpp)
    BY <1>2, <1>8, <2>1, FlushEffect DEF TlbKept
  <2>2. CASE ~(differ \intersect {"MPRV", "SUM", "MXR"} # {} \/ ("MPRV" \in t.flags /\ val.mpp # t.mpp))
    <3>1. \A x \in {"MPRV", "MXR", "SUM"} : x \in u.flags <=> x \in t.flags
      BY <1>1, <1>6, <2>2
    <3>2. n = t
      BY <1>2, <2>2
    <3> QED
      BY <1>8, <3>1, <3>2, SameMemory DEF TlbKept, SameWalk
  <2> QED
    BY <2>1, <2>2
<1>10. set_mstatus(t, val) = u
  BY <1>1, <1>2, <1>4 DEF set_mstatus
<1> QED
  BY <1>6, <1>7, <1>9, <1>10

\* A status is written by the machine, or by the supervisor within its bits.
LEMMA WriteStatusControls ==
  ASSUME NEW t \in Harts, MprvOk(t), NEW val \in Statuses, NEW enable, NEW irqs,
         \/ t.priv = PRV_M
         \/ /\ t.priv # PRV_U /\ val.mpp = t.mpp
            /\ val.flags \ SstatusFlags = t.flags \ SstatusFlags
  PROVE  Continues(t, WriteStatus(t, val, enable, irqs))
<1>1. PICK u : u = set_mstatus(t, val)
  OBVIOUS
<1>2. /\ u \in Harts /\ Keeps(t, u, {"flags", "mpp", "tlb"}) /\ TlbKept(t, u)
      /\ u.flags = val.flags /\ u.mpp = val.mpp
  BY <1>1, StatusEffect
<1>3. /\ u.mem = t.mem /\ u.dirty = t.dirty /\ u.ticks = t.ticks /\ u.service = t.service
      /\ u.menvcfg = t.menvcfg /\ u.stimecmp = t.stimecmp /\ u.mip = t.mip /\ u.pmp = t.pmp
      /\ u.satp = t.satp /\ u.mie = t.mie /\ u.mideleg = t.mideleg /\ u.priv = t.priv
      /\ u.medeleg = t.medeleg /\ u.mtvec = t.mtvec /\ u.mepc = t.mepc /\ u.mcounteren = t.mcounteren
  BY <1>2 DEF Keeps, Fields
<1>4. MprvOk(u) /\ Confines(t, u)
  <2>1. CASE t.priv = PRV_M
    BY <1>3, <2>1 DEF MprvOk, Confines, PmpKept, PRV_M, PRV_S, PRV_U
  <2>2. CASE /\ t.priv # PRV_U /\ val.mpp = t.mpp
             /\ val.flags \ SstatusFlags = t.flags \ SstatusFlags
    <3>1. "MPRV" \in val.flags <=> "MPRV" \in t.flags
      <4>1. "MPRV" \notin SstatusFlags
        BY DEF SstatusFlags
      <4> QED
        BY <2>2, <4>1
    <3>2. MachineState(u) = MachineState(t)
      BY <1>2, <1>3, <2>2 DEF MachineState
    <3> QED
      BY <1>2, <1>3, <2>2, <3>1, <3>2 DEF MprvOk, Confines, PmpKept
  <2> QED
    BY <2>1, <2>2
<1>5. Controls(t, u)
  BY <1>2, <1>3, <1>4, TimerSame DEF Controls
<1>6. WriteStatus(t, val, enable, irqs) \in {Interrupt(u), Proceed(u)}
  BY <1>1 DEF WriteStatus
<1> QED
  BY <1>5, <1>6 DEF Interrupt, Proceed, Continues, Going

\* csr_write of sstatus.
LEMMA SstatusWrite ==
  ASSUME NEW t \in Harts, MprvOk(t), t.priv >= PRV_S, NEW val \in Statuses
  PROVE  Continues(t, WriteStatus(t, [flags |-> Masked(t.flags, val.flags, SstatusFlags), mpp |-> t.mpp],
                                  "SIE", t.mideleg))
<1>1. PICK x : x = [flags |-> Masked(t.flags, val.flags, SstatusFlags), mpp |-> t.mpp]
  OBVIOUS
<1>2. x.flags = Masked(t.flags, val.flags, SstatusFlags) /\ x.mpp = t.mpp
  BY <1>1
<1>3. t.flags \in SUBSET MstatusFlags /\ t.mpp \in PRV_U .. PRV_M
  BY DEF Harts
<1>4. SstatusFlags \subseteq MstatusFlags
  BY DEF SstatusFlags, MstatusFlags
<1>5. x.flags \in SUBSET MstatusFlags /\ x.flags \ SstatusFlags = t.flags \ SstatusFlags
  BY <1>2, <1>3, <1>4 DEF Masked
<1>6. x \in Statuses
  BY <1>1, <1>2, <1>3, <1>5 DEF Statuses
<1>7. t.priv # PRV_U
  BY DEF PRV_U, PRV_S
<1>8. Continues(t, WriteStatus(t, x, "SIE", t.mideleg))
  BY <1>2, <1>5, <1>6, <1>7, WriteStatusControls
<1> QED
  BY <1>1, <1>8

\* The host is asked to look at the timers.
LEMMA Requested ==
  ASSUME NEW t \in Harts, NEW u, u = [t EXCEPT !.service = TRUE, !.reprogrammed = TRUE]
  PROVE  u \in Harts /\ Keeps(t, u, {"service", "reprogrammed"}) /\ u.service
BY DEF Harts, Keeps, Fields

\* csr_write of stimecmp: the host is asked to look at the deadline.
LEMMA StimecmpWrite ==
  ASSUME NEW t \in Harts, MprvOk(t), NEW val \in Nat \union {Never},
         t.priv # PRV_U, t.priv = PRV_M \/ ("STCE" \in t.menvcfg /\ 1 \in t.mcounteren)
  PROVE  Continues(t, WriteStimecmp(t, val))
<1>1. PICK a : a = [t EXCEPT !.stimecmp = val]
  OBVIOUS
<1>2. a \in Harts /\ Keeps(t, a, {"stimecmp"}) /\ a.stimecmp = val
  BY <1>1 DEF Harts, Keeps, Fields
<1>3. PICK b : b = update_stimecmp_irq(a)
  OBVIOUS
<1>4. a.ticks \in Nat
  BY <1>2 DEF Harts
<1>5. /\ Signalled(a, b)
      /\ "STCE" \in a.menvcfg => (MIP_STIP \in b.mip <=> (a.stimecmp # Never /\ a.ticks >= a.stimecmp))
  BY <1>2, <1>3, <1>4, UpdateTimeEffect DEF update_stimecmp_irq
<1>6. b \in Harts /\ Keeps(a, b, {"mip", "power_down"})
  BY <1>5 DEF Signalled
<1>7. PICK u : u = [b EXCEPT !.service = TRUE, !.reprogrammed = TRUE]
  OBVIOUS
<1>8. u \in Harts /\ Keeps(b, u, {"service", "reprogrammed"}) /\ u.service
  BY <1>6, <1>7, Requested
<1>9. Keeps(t, u, {"stimecmp", "mip", "power_down", "service", "reprogrammed"})
  BY <1>2, <1>6, <1>8 DEF Keeps
<1>10. /\ u.mem = t.mem /\ u.dirty = t.dirty /\ u.ticks = t.ticks /\ u.menvcfg = t.menvcfg
       /\ u.pmp = t.pmp /\ u.satp = t.satp /\ u.mie = t.mie /\ u.mideleg = t.mideleg
       /\ u.priv = t.priv /\ u.tlb = t.tlb /\ u.flags = t.flags /\ u.mpp = t.mpp
       /\ u.medeleg = t.medeleg /\ u.mtvec = t.mtvec /\ u.mepc = t.mepc /\ u.mcounteren = t.mcounteren
  BY <1>9 DEF Keeps, Fields
<1>11. /\ u.mip = b.mip /\ u.stimecmp = a.stimecmp /\ u.ticks = a.ticks /\ u.menvcfg = a.menvcfg
  BY <1>6, <1>8 DEF Keeps, Fields
<1>12. TimerKept(t, u)
  BY <1>5, <1>8, <1>10, <1>11 DEF TimerKept, TimerExact
<1>13. Confines(t, u)
  <2>1. MachineState(u) = MachineState(t)
    BY <1>10 DEF MachineState
  <2> QED
    BY <1>10, <2>1 DEF Confines, PmpKept, PRV_S, PRV_M
<1>14. TlbKept(t, u)
  BY <1>10, SameMemory DEF TlbKept, SameWalk
<1>15. Controls(t, u)
  BY <1>8, <1>10, <1>12, <1>13, <1>14 DEF Controls, MprvOk
<1>16. WriteStimecmp(t, val) = Interrupt(u)
  BY <1>1, <1>3, <1>7 DEF WriteStimecmp
<1> QED
  BY <1>15, <1>16 DEF Interrupt, Continues, Going

\* csr_write of satp.
LEMMA SatpWrite ==
  ASSUME NEW t \in Harts, MprvOk(t), NEW x \in [mode : {"bare", "sv39"}, ppn : Nat], t.priv # PRV_U,
         t.priv = PRV_S => "TVM" \notin t.flags
  PROVE  Continues(t, FlushTlb([t EXCEPT !.satp = x]))
<1>1. PICK a : a = [t EXCEPT !.satp = x]
  OBVIOUS
<1>2. a \in Harts /\ Keeps(t, a, {"satp"})
  BY <1>1 DEF Harts, Keeps, Fields
<1>3. PICK u : u = tlb_flush_all(a)
  OBVIOUS
<1>4. u \in Harts /\ Keeps(a, u, {"tlb"}) /\ u.tlb = tlb_init
  BY <1>2, <1>3, FlushEffect
<1>5. Keeps(t, u, {"satp", "tlb"})
  BY <1>2, <1>4 DEF Keeps
<1>6. /\ u.mem = t.mem /\ u.dirty = t.dirty /\ u.ticks = t.ticks /\ u.menvcfg = t.menvcfg
      /\ u.pmp = t.pmp /\ u.stimecmp = t.stimecmp /\ u.mie = t.mie /\ u.mideleg = t.mideleg
      /\ u.priv = t.priv /\ u.flags = t.flags /\ u.mpp = t.mpp /\ u.mip = t.mip /\ u.service = t.service
      /\ u.medeleg = t.medeleg /\ u.mtvec = t.mtvec /\ u.mepc = t.mepc /\ u.mcounteren = t.mcounteren
  BY <1>5 DEF Keeps, Fields
<1>7. Confines(t, u)
  <2>1. MachineState(u) = MachineState(t)
    BY <1>6 DEF MachineState
  <2> QED
    BY <1>6, <2>1 DEF Confines, PmpKept
<1>8. TimerKept(t, u)
  BY <1>6, TimerSame
<1>9. Controls(t, u)
  BY <1>4, <1>6, <1>7, <1>8 DEF Controls, MprvOk, TlbKept
<1>10. FlushTlb([t EXCEPT !.satp = x]) = [s |-> u, then |-> "block"]
  BY <1>1, <1>3 DEF FlushTlb
<1> QED
  BY <1>9, <1>10 DEF Continues, Going

\* The machine writes a register that the walk may depend on.
LEMMA MachineControls ==
  ASSUME NEW t \in Harts, MprvOk(t), t.priv = PRV_M, NEW u \in Harts, u.priv = t.priv,
         u.mem = t.mem, u.dirty = t.dirty, TlbKept(t, u), TimerKept(t, u), PmpKept(t, u)
  PROVE  Controls(t, u)
BY DEF Controls, MprvOk, Confines, PRV_M, PRV_S, PRV_U

\* csr_write of menvcfg: the timer may start or stop, the walk may change.
LEMMA MenvcfgWrite ==
  ASSUME NEW t \in Harts, MprvOk(t), t.priv = PRV_M, NEW val \in SUBSET MenvcfgFlags
  PROVE  Continues(t, WriteMenvcfg(t, val))
<1>1. PICK differ : differ = (t.menvcfg \ val) \union (val \ t.menvcfg)
  OBVIOUS
<1>2. PICK a : a = [t EXCEPT !.menvcfg = val]
  OBVIOUS
<1>3. a \in Harts /\ Keeps(t, a, {"menvcfg"}) /\ a.menvcfg = val
  BY <1>2 DEF Harts, Keeps, Fields
<1>4. PICK b : b = IF "STCE" \in val THEN update_stimecmp_irq(a) ELSE [a EXCEPT !.mip = @ \ {MIP_STIP}]
  OBVIOUS
<1>5. /\ b \in Harts /\ Keeps(a, b, {"mip", "power_down"})
      /\ "STCE" \in val => (MIP_STIP \in b.mip <=> (a.stimecmp # Never /\ a.ticks >= a.stimecmp))
  <2>1. CASE "STCE" \in val
    <3>1. a.ticks \in Nat
      BY <1>3 DEF Harts
    <3>2. b = riscv_cpu_update_time(a, a.ticks)
      BY <1>4, <2>1 DEF update_stimecmp_irq
    <3> QED
      BY <1>3, <3>1, <3>2, UpdateTimeEffect DEF Signalled
  <2>2. CASE "STCE" \notin val
    <3>1. a.mip \ {MIP_STIP} \in SUBSET Irqs
      BY <1>3 DEF Harts
    <3>2. b = [a EXCEPT !.mip = a.mip \ {MIP_STIP}]
      BY <1>3, <1>4, <2>2 DEF Harts
    <3>3. b \in Harts /\ Keeps(a, b, {"mip"})
      BY <1>3, <3>1, <3>2, SetMip
    <3> QED
      BY <2>2, <3>3 DEF Keeps
  <2> QED
    BY <2>1, <2>2
<1>6. PICK c : c = IF "STCE" \in differ THEN [b EXCEPT !.service = TRUE, !.reprogrammed = TRUE] ELSE b
  OBVIOUS
<1>7. /\ c \in Harts /\ Keeps(b, c, {"service", "reprogrammed"})
      /\ "STCE" \in differ => c.service
      /\ "STCE" \notin differ => c.service = b.service
  <2>1. CASE "STCE" \in differ
    BY <1>5, <1>6, <2>1, Requested
  <2>2. CASE "STCE" \notin differ
    BY <1>5, <1>6, <2>2 DEF Keeps
  <2> QED
    BY <2>1, <2>2
<1>8. Keeps(t, c, {"menvcfg", "mip", "power_down", "service", "reprogrammed"})
  BY <1>3, <1>5, <1>7 DEF Keeps
<1>9. /\ c.mem = t.mem /\ c.dirty = t.dirty /\ c.ticks = t.ticks /\ c.pmp = t.pmp /\ c.satp = t.satp
      /\ c.priv = t.priv /\ c.tlb = t.tlb /\ c.flags = t.flags /\ c.stimecmp = t.stimecmp
  BY <1>8 DEF Keeps, Fields
<1>10. /\ c.mip = b.mip /\ c.menvcfg = val /\ b.service = t.service
       /\ a.stimecmp = t.stimecmp /\ a.ticks = t.ticks
  BY <1>3, <1>5, <1>7 DEF Keeps, Fields
<1>11. "STCE" \notin differ => ("STCE" \in val <=> "STCE" \in t.menvcfg)
  BY <1>1
<1>12. TimerKept(t, c)
  <2>1. TimerExact(c)
    BY <1>5, <1>9, <1>10 DEF TimerExact
  <2>2. ASSUME TimerExact(t), ~c.service PROVE stimecmp(c) = stimecmp(t)
    <3>1. "STCE" \in val <=> "STCE" \in t.menvcfg
      BY <1>7, <1>11, <2>2
    <3>2. CASE "STCE" \notin val
      BY <1>10, <3>1, <3>2 DEF stimecmp
    <3>3. CASE "STCE" \in val
      <4>1. MIP_STIP \in c.mip <=> MIP_STIP \in t.mip
        BY <1>5, <1>10, <2>2, <3>1, <3>3 DEF TimerExact
      <4> QED
        BY <1>9, <1>10, <3>1, <3>3, <4>1 DEF stimecmp
    <3> QED
      BY <3>2, <3>3
  <2>3. t.service => c.service
    BY <1>7, <1>10
  <2> QED
    BY <1>9, <2>1, <2>2, <2>3 DEF TimerKept
<1>13. PICK r : r = WriteMenvcfg(t, val)
  OBVIOUS
<1>14. r = IF differ = {} THEN Proceed(t)
           ELSE IF differ \intersect {"ADUE", "PBMTE"} # {} THEN FlushTlb(c) ELSE Interrupt(c)
  BY <1>1, <1>2, <1>4, <1>6, <1>13 DEF WriteMenvcfg
<1>15. CASE differ = {}
  <2>1. Controls(t, t)
    BY PlainControls DEF Keeps
  <2> QED
    BY <1>13, <1>14, <1>15, <2>1 DEF Proceed, Continues, Going
<1>16. CASE differ # {} /\ differ \intersect {"ADUE", "PBMTE"} # {}
  <2>1. PICK u : u = tlb_flush_all(c)
    OBVIOUS
  <2>2. u \in Harts /\ Keeps(c, u, {"tlb"}) /\ u.tlb = tlb_init
    BY <1>7, <2>1, FlushEffect
  <2>3. /\ u.mem = c.mem /\ u.dirty = c.dirty /\ u.ticks = c.ticks /\ u.pmp = c.pmp /\ u.priv = c.priv
        /\ u.menvcfg = c.menvcfg /\ u.stimecmp = c.stimecmp /\ u.mip = c.mip /\ u.service = c.service
    BY <2>2 DEF Keeps, Fields
  <2>4. TimerKept(t, u)
    BY <1>12, <2>3 DEF TimerKept, TimerExact, stimecmp
  <2>5. Controls(t, u)
    BY <1>9, <2>2, <2>3, <2>4, MachineControls DEF TlbKept, PmpKept
  <2>6. r = [s |-> u, then |-> "block"]
    BY <1>14, <1>16, <2>1 DEF FlushTlb
  <2> QED
    BY <1>13, <2>5, <2>6 DEF Continues, Going
<1>17. CASE differ # {} /\ differ \intersect {"ADUE", "PBMTE"} = {}
  <2>1. \A x \in {"ADUE", "PBMTE"} : x \in c.menvcfg <=> x \in t.menvcfg
    BY <1>1, <1>10, <1>17
  <2>2. TlbKept(t, c)
    BY <1>9, <2>1, SameMemory DEF TlbKept, SameWalk
  <2>3. Controls(t, c)
    BY <1>7, <1>9, <1>12, <2>2, MachineControls DEF PmpKept
  <2>4. r = Interrupt(c)
    BY <1>14, <1>17
  <2> QED
    BY <1>13, <2>3, <2>4 DEF Interrupt, Continues, Going
<1> QED
  BY <1>15, <1>16, <1>17

Entries == [lock : BOOLEAN, a : PmpModes, rwx : SUBSET {"R", "W", "X"}, addr : Nat]
Configs == [lock : BOOLEAN, a : PmpModes, rwx : SUBSET {"R", "W", "X"}]

LEMMA SetPmp ==
  ASSUME NEW t \in Harts, NEW x \in [PmpEntries -> Entries], NEW u, u = [t EXCEPT !.pmp = x]
  PROVE  u \in Harts /\ Keeps(t, u, {"pmp"}) /\ u.pmp = x
BY DEF Harts, Keeps, Fields, Entries

LEMMA LegalConfig ==
  ASSUME NEW c \in Configs
  PROVE  Legal(c) \in Configs
<1>1. PICK x : x = IF "W" \in c.rwx /\ "R" \notin c.rwx THEN c.rwx \ {"W"} ELSE c.rwx
  OBVIOUS
<1>2. x \in SUBSET {"R", "W", "X"}
  BY <1>1 DEF Configs
<1>3. Legal(c) = [c EXCEPT !.rwx = x]
  BY <1>1 DEF Legal, Configs
<1> QED
  BY <1>2, <1>3 DEF Configs

\* set_pmpcfg leaves locked entries.
LEMMA PmpcfgEffect ==
  ASSUME NEW t \in Harts, NEW cfgs \in [PmpEntries -> Configs]
  PROVE  LET u == set_pmpcfg(t, cfgs) IN u \in Harts /\ Keeps(t, u, {"pmp"}) /\ PmpKept(t, u)
<1> DEFINE New(e) == LET c == Legal(cfgs[e])
                     IN  [t.pmp[e] EXCEPT !.lock = c.lock, !.a = c.a, !.rwx = c.rwx]
           x == [e \in PmpEntries |-> IF t.pmp[e].lock THEN t.pmp[e] ELSE New(e)]
<1>1. t.pmp \in [PmpEntries -> Entries]
  BY DEF Harts, Entries
<1>2. ASSUME NEW e \in PmpEntries PROVE New(e) \in Entries /\ New(e).addr = t.pmp[e].addr
  <2>1. PICK c : c = Legal(cfgs[e])
    OBVIOUS
  <2>2. c \in Configs
    BY <2>1, LegalConfig
  <2>3. t.pmp[e] \in Entries
    BY <1>1
  <2>4. New(e) = [t.pmp[e] EXCEPT !.lock = c.lock, !.a = c.a, !.rwx = c.rwx]
    BY <2>1
  <2> HIDE DEF New
  <2> QED
    BY <2>2, <2>3, <2>4 DEF Entries, Configs
<1>3. set_pmpcfg(t, cfgs) = [t EXCEPT !.pmp = x]
  BY DEF set_pmpcfg, Harts
<1> HIDE DEF New
<1>4. x \in [PmpEntries -> Entries]
  BY <1>1, <1>2
<1>5. \A e \in PmpEntries : /\ t.pmp[e].lock => x[e] = t.pmp[e]
                            /\ x[e].addr = t.pmp[e].addr
  BY <1>2
<1> HIDE DEF x
<1>6. PICK u : u = [t EXCEPT !.pmp = x]
  OBVIOUS
<1>7. u \in Harts /\ Keeps(t, u, {"pmp"}) /\ u.pmp = x
  BY <1>4, <1>6, SetPmp
<1>8. PmpKept(t, u)
  BY <1>5, <1>7 DEF PmpKept
<1> QED
  BY <1>3, <1>6, <1>7, <1>8

\* set_pmpaddr leaves locked entries and the bound below a locked range.
LEMMA PmpaddrEffect ==
  ASSUME NEW t \in Harts, NEW e \in PmpEntries, NEW addr \in Nat
  PROVE  LET u == set_pmpaddr(t, e, addr) IN u \in Harts /\ Keeps(t, u, {"pmp"}) /\ PmpKept(t, u)
<1>1. CASE t.pmp[e].lock \/ (e + 1 \in PmpEntries /\ t.pmp[e + 1].lock /\ t.pmp[e + 1].a = "tor")
  <2>1. set_pmpaddr(t, e, addr) = t
    BY <1>1 DEF set_pmpaddr
  <2> QED
    BY <2>1 DEF Keeps, PmpKept
<1>2. CASE ~(t.pmp[e].lock \/ (e + 1 \in PmpEntries /\ t.pmp[e + 1].lock /\ t.pmp[e + 1].a = "tor"))
  <2>1. t.pmp \in [PmpEntries -> Entries]
    BY DEF Harts, Entries
  <2>2. PICK x : x = [t.pmp EXCEPT ![e].addr = addr]
    OBVIOUS
  <2>3. x \in [PmpEntries -> Entries] /\ \A d \in PmpEntries : d # e => x[d] = t.pmp[d]
    BY <2>1, <2>2 DEF Entries
  <2>4. PICK u : u = [t EXCEPT !.pmp = x]
    OBVIOUS
  <2>5. u \in Harts /\ Keeps(t, u, {"pmp"}) /\ u.pmp = x
    BY <2>3, <2>4, SetPmp
  <2>6. set_pmpaddr(t, e, addr) = u
    BY <1>2, <2>2, <2>4 DEF set_pmpaddr, Harts
  <2>7. PmpKept(t, u)
    <3> SUFFICES ASSUME NEW d \in PmpEntries
                 PROVE  /\ t.pmp[d].lock => x[d] = t.pmp[d]
                        /\ t.pmp[d].lock /\ t.pmp[d].a = "tor" /\ d - 1 \in PmpEntries =>
                             x[d - 1].addr = t.pmp[d - 1].addr
      BY <2>5 DEF PmpKept
    <3>1. d \in Nat /\ e \in Nat
      BY HartAssumption
    <3>2. d - 1 = e => d = e + 1
      BY <3>1
    <3> QED
      BY <1>2, <2>3, <3>2
  <2> QED
    BY <2>5, <2>6, <2>7
<1> QED
  BY <1>1, <1>2

\* csr_write of the memory protection registers.
LEMMA PmpWrite ==
  ASSUME NEW t \in Harts, MprvOk(t), t.priv = PRV_M, NEW a \in Harts, Keeps(t, a, {"pmp"}), PmpKept(t, a)
  PROVE  Continues(t, WritePmp(t, a))
<1>1. PICK u : u = tlb_flush_all(a)
  OBVIOUS
<1>2. u \in Harts /\ Keeps(a, u, {"tlb"}) /\ u.tlb = tlb_init
  BY <1>1, FlushEffect
<1>3. Keeps(t, u, {"pmp", "tlb"})
  BY <1>2 DEF Keeps
<1>4. /\ u.mem = t.mem /\ u.dirty = t.dirty /\ u.ticks = t.ticks /\ u.priv = t.priv /\ u.pmp = a.pmp
      /\ u.menvcfg = t.menvcfg /\ u.stimecmp = t.stimecmp /\ u.mip = t.mip /\ u.service = t.service
  BY <1>2, <1>3 DEF Keeps, Fields
<1>5. PmpKept(t, u) /\ TimerKept(t, u)
  BY <1>4, TimerSame DEF PmpKept
<1>6. Controls(t, u)
  BY <1>2, <1>4, <1>5, MachineControls DEF TlbKept
<1>7. Controls(t, t)
  BY PlainControls DEF Keeps
<1>8. WritePmp(t, a) = Proceed(t) \/ WritePmp(t, a) = [s |-> u, then |-> "block"]
  BY <1>1 DEF WritePmp, FlushTlb
<1> QED
  BY <1>6, <1>7, <1>8 DEF Proceed, Continues, Going

\* The registers that only hold what was written.
Held == {"stvec", "sepc", "scounteren", "senvcfg", "mtvec", "mepc", "mcounteren", "medeleg", "mideleg",
         "mie", "mip"}

\* Registers that neither the TLBs nor the timer depend on.
LEMMA HeldControls ==
  ASSUME NEW t \in Harts, MprvOk(t), t.priv # PRV_U, NEW u \in Harts, Keeps(t, u, Held),
         "STCE" \in t.menvcfg => (MIP_STIP \in u.mip <=> MIP_STIP \in t.mip),
         t.priv < PRV_M => MachineState(u) = MachineState(t)
  PROVE  Continues(t, Proceed(u))
<1>1. /\ u.tlb = t.tlb /\ u.mem = t.mem /\ u.dirty = t.dirty /\ u.priv = t.priv /\ u.satp = t.satp
      /\ u.flags = t.flags /\ u.menvcfg = t.menvcfg /\ u.stimecmp = t.stimecmp /\ u.ticks = t.ticks
      /\ u.service = t.service /\ u.pmp = t.pmp
  BY DEF Keeps, Fields, Held
<1>2. TlbKept(t, u)
  BY <1>1, SameMemory DEF TlbKept, SameWalk
<1>3. TimerKept(t, u)
  BY <1>1 DEF TimerKept, TimerExact, stimecmp
<1>4. Confines(t, u)
  BY <1>1 DEF Confines, PmpKept
<1>5. Controls(t, u)
  BY <1>1, <1>2, <1>3, <1>4 DEF Controls, MprvOk
<1> QED
  BY <1>5 DEF Proceed, Continues, Going

\* What the supervisor may write, and what only the machine may.
LEMMA SupervisorHeld ==
  ASSUME NEW t \in Harts, MprvOk(t), t.priv >= PRV_S, NEW u \in Harts,
         Keeps(t, u, {"stvec", "sepc", "scounteren", "senvcfg"})
  PROVE  Continues(t, Proceed(u))
<1>1. /\ u.mip = t.mip /\ u.flags = t.flags /\ u.mpp = t.mpp /\ u.mie = t.mie /\ u.mideleg = t.mideleg
      /\ u.medeleg = t.medeleg /\ u.mtvec = t.mtvec /\ u.mepc = t.mepc /\ u.menvcfg = t.menvcfg
      /\ u.mcounteren = t.mcounteren /\ u.pmp = t.pmp
  BY DEF Keeps, Fields
<1>2. MachineState(u) = MachineState(t)
  BY <1>1 DEF MachineState
<1>3. Keeps(t, u, Held)
  BY DEF Keeps, Held
<1>4. t.priv # PRV_U
  BY DEF PRV_U, PRV_S
<1> QED
  BY <1>1, <1>2, <1>3, <1>4, HeldControls

\* A register of the machine.
LEMMA MachineHeld ==
  ASSUME NEW t \in Harts, MprvOk(t), t.priv = PRV_M, NEW u \in Harts,
         Keeps(t, u, {"mtvec", "mepc", "mcounteren", "medeleg", "mideleg", "mie"})
  PROVE  Continues(t, Proceed(u))
<1>1. u.mip = t.mip
  BY DEF Keeps, Fields
<1>2. Keeps(t, u, Held)
  BY DEF Keeps, Held
<1>3. t.priv # PRV_U /\ ~(t.priv < PRV_M)
  BY DEF PRV_U, PRV_M
<1> QED
  BY <1>1, <1>2, <1>3, HeldControls

\* The timer owns its pending bit when it is on.
LEMMA PendingHeld ==
  ASSUME NEW t \in Harts, MprvOk(t), t.priv # PRV_U, NEW mask \in SUBSET Irqs, NEW val,
         NEW u, u = [t EXCEPT !.mip = Masked(t.mip, val, mask \ TimerOwnedIp(t))]
  PROVE  Continues(t, Proceed(u))
<1>1. PICK x : x = Masked(t.mip, val, mask \ TimerOwnedIp(t))
  OBVIOUS
<1>2. x \in SUBSET Irqs
  BY <1>1 DEF Masked, Harts
<1>3. "STCE" \in t.menvcfg => (MIP_STIP \in x <=> MIP_STIP \in t.mip)
  BY <1>1 DEF Masked, TimerOwnedIp
<1>4. u \in Harts /\ Keeps(t, u, {"mip"}) /\ u.mip = x
  BY <1>1, <1>2, SetMip
<1>5. Keeps(t, u, Held)
  BY <1>4 DEF Keeps, Held
<1>6. /\ u.flags = t.flags /\ u.mpp = t.mpp /\ u.mie = t.mie /\ u.mideleg = t.mideleg
      /\ u.medeleg = t.medeleg /\ u.mtvec = t.mtvec /\ u.mepc = t.mepc /\ u.menvcfg = t.menvcfg
      /\ u.mcounteren = t.mcounteren /\ u.pmp = t.pmp
  BY <1>4 DEF Keeps, Fields
<1>7. MachineState(u) = MachineState(t)
  BY <1>6 DEF MachineState
<1> QED
  BY <1>3, <1>4, <1>5, <1>7, HeldControls

HeldCsrs == {"stvec", "mtvec", "sepc", "mepc", "scounteren", "mcounteren", "senvcfg", "medeleg",
             "mideleg", "mie", "sie", "mip", "sip"}

\* csr_write of a register that holds what it is given.
LEMMA KeepControls ==
  ASSUME NEW t \in Harts, MprvOk(t), NEW csr \in HeldCsrs, t.priv >= CsrPriv(csr), NEW val,
         csr \in {"stvec", "mtvec", "sepc", "mepc"} => val \in Nat
  PROVE  Continues(t, Proceed(Keep(t, csr, val)))
<1>1. PICK u : u = Keep(t, csr, val)
  OBVIOUS
<1>2. t.priv \in 0 .. 3
  BY DEF Harts, PRV_U, PRV_M
<1>3. csr \in {"stvec", "sepc", "scounteren", "senvcfg", "sie", "sip"} => t.priv >= PRV_S /\ t.priv # PRV_U
  BY <1>2 DEF CsrPriv, PRV_S, PRV_U
<1>4. csr \in {"mtvec", "mepc", "mcounteren", "medeleg", "mideleg", "mie", "mip"} => t.priv = PRV_M
  BY <1>2 DEF CsrPriv, PRV_M
<1>5. CASE csr = "stvec"
  <2>1. PICK x : x = val
    OBVIOUS
  <2>2. x \in Nat
    BY <1>5, <2>1
  <2>3. u = [t EXCEPT !.stvec = x]
    BY <1>1, <1>5, <2>1 DEF Keep, Harts
  <2>4. u \in Harts /\ Keeps(t, u, {"stvec"})
    BY <2>2, <2>3 DEF Harts, Keeps, Fields
  <2>5. Keeps(t, u, {"stvec", "sepc", "scounteren", "senvcfg"})
    BY <2>4 DEF Keeps
  <2> QED
    BY <1>1, <1>3, <1>5, <2>4, <2>5, SupervisorHeld
<1>6. CASE csr = "sepc"
  <2>1. PICK x : x = val
    OBVIOUS
  <2>2. x \in Nat
    BY <1>6, <2>1
  <2>3. u = [t EXCEPT !.sepc = x]
    BY <1>1, <1>6, <2>1 DEF Keep, Harts
  <2>4. u \in Harts /\ Keeps(t, u, {"sepc"})
    BY <2>2, <2>3 DEF Harts, Keeps, Fields
  <2>5. Keeps(t, u, {"stvec", "sepc", "scounteren", "senvcfg"})
    BY <2>4 DEF Keeps
  <2> QED
    BY <1>1, <1>3, <1>6, <2>4, <2>5, SupervisorHeld
<1>7. CASE csr = "scounteren"
  <2>1. PICK x : x = val \intersect (0 .. 2)
    OBVIOUS
  <2>2. x \in SUBSET (0 .. 2)
    BY <1>7, <2>1
  <2>3. u = [t EXCEPT !.scounteren = x]
    BY <1>1, <1>7, <2>1 DEF Keep, Harts
  <2>4. u \in Harts /\ Keeps(t, u, {"scounteren"})
    BY <2>2, <2>3 DEF Harts, Keeps, Fields
  <2>5. Keeps(t, u, {"stvec", "sepc", "scounteren", "senvcfg"})
    BY <2>4 DEF Keeps
  <2> QED
    BY <1>1, <1>3, <1>7, <2>4, <2>5, SupervisorHeld
<1>8. CASE csr = "senvcfg"
  <2>1. PICK x : x = val \intersect EnvcfgCbo
    OBVIOUS
  <2>2. x \in SUBSET EnvcfgCbo
    BY <1>8, <2>1
  <2>3. u = [t EXCEPT !.senvcfg = x]
    BY <1>1, <1>8, <2>1 DEF Keep, Harts
  <2>4. u \in Harts /\ Keeps(t, u, {"senvcfg"})
    BY <2>2, <2>3 DEF Harts, Keeps, Fields
  <2>5. Keeps(t, u, {"stvec", "sepc", "scounteren", "senvcfg"})
    BY <2>4 DEF Keeps
  <2> QED
    BY <1>1, <1>3, <1>8, <2>4, <2>5, SupervisorHeld
<1>9. CASE csr = "mtvec"
  <2>1. PICK x : x = val
    OBVIOUS
  <2>2. x \in Nat
    BY <1>9, <2>1
  <2>3. u = [t EXCEPT !.mtvec = x]
    BY <1>1, <1>9, <2>1 DEF Keep, Harts
  <2>4. u \in Harts /\ Keeps(t, u, {"mtvec"})
    BY <2>2, <2>3 DEF Harts, Keeps, Fields
  <2>5. Keeps(t, u, {"mtvec", "mepc", "mcounteren", "medeleg", "mideleg", "mie"})
    BY <2>4 DEF Keeps
  <2> QED
    BY <1>1, <1>4, <1>9, <2>4, <2>5, MachineHeld
<1>10. CASE csr = "mepc"
  <2>1. PICK x : x = val
    OBVIOUS
  <2>2. x \in Nat
    BY <1>10, <2>1
  <2>3. u = [t EXCEPT !.mepc = x]
    BY <1>1, <1>10, <2>1 DEF Keep, Harts
  <2>4. u \in Harts /\ Keeps(t, u, {"mepc"})
    BY <2>2, <2>3 DEF Harts, Keeps, Fields
  <2>5. Keeps(t, u, {"mtvec", "mepc", "mcounteren", "medeleg", "mideleg", "mie"})
    BY <2>4 DEF Keeps
  <2> QED
    BY <1>1, <1>4, <1>10, <2>4, <2>5, MachineHeld
<1>11. CASE csr = "mcounteren"
  <2>1. PICK x : x = val \intersect (0 .. 2)
    OBVIOUS
  <2>2. x \in SUBSET (0 .. 2)
    BY <1>11, <2>1
  <2>3. u = [t EXCEPT !.mcounteren = x]
    BY <1>1, <1>11, <2>1 DEF Keep, Harts
  <2>4. u \in Harts /\ Keeps(t, u, {"mcounteren"})
    BY <2>2, <2>3 DEF Harts, Keeps, Fields
  <2>5. Keeps(t, u, {"mtvec", "mepc", "mcounteren", "medeleg", "mideleg", "mie"})
    BY <2>4 DEF Keeps
  <2> QED
    BY <1>1, <1>4, <1>11, <2>4, <2>5, MachineHeld
<1>12. CASE csr = "medeleg"
  <2>1. PICK x : x = val \intersect Causes
    OBVIOUS
  <2>2. x \in SUBSET Causes
    BY <1>12, <2>1
  <2>3. u = [t EXCEPT !.medeleg = x]
    BY <1>1, <1>12, <2>1 DEF Keep, Harts
  <2>4. u \in Harts /\ Keeps(t, u, {"medeleg"})
    BY <2>2, <2>3 DEF Harts, Keeps, Fields
  <2>5. Keeps(t, u, {"mtvec", "mepc", "mcounteren", "medeleg", "mideleg", "mie"})
    BY <2>4 DEF Keeps
  <2> QED
    BY <1>1, <1>4, <1>12, <2>4, <2>5, MachineHeld
<1>13. CASE csr = "mideleg"
  <2>1. PICK x : x = val \intersect DelegableIrqs
    OBVIOUS
  <2>2. x \in SUBSET DelegableIrqs
    BY <1>13, <2>1
  <2>3. u = [t EXCEPT !.mideleg = x]
    BY <1>1, <1>13, <2>1 DEF Keep, Harts
  <2>4. u \in Harts /\ Keeps(t, u, {"mideleg"})
    BY <2>2, <2>3 DEF Harts, Keeps, Fields
  <2>5. Keeps(t, u, {"mtvec", "mepc", "mcounteren", "medeleg", "mideleg", "mie"})
    BY <2>4 DEF Keeps
  <2> QED
    BY <1>1, <1>4, <1>13, <2>4, <2>5, MachineHeld
<1>14. CASE csr = "mie"
  <2>1. PICK x : x = Masked(t.mie, val, Irqs \ {MIP_MEIP})
    OBVIOUS
  <2>2. x \in SUBSET Irqs
    BY <1>14, <2>1 DEF Masked, Harts
  <2>3. u = [t EXCEPT !.mie = x]
    BY <1>1, <1>14, <2>1 DEF Keep, Harts
  <2>4. u \in Harts /\ Keeps(t, u, {"mie"})
    BY <2>2, <2>3 DEF Harts, Keeps, Fields
  <2>5. Keeps(t, u, {"mtvec", "mepc", "mcounteren", "medeleg", "mideleg", "mie"})
    BY <2>4 DEF Keeps
  <2> QED
    BY <1>1, <1>4, <1>14, <2>4, <2>5, MachineHeld
<1>15. CASE csr = "sie"
  <2>1. PICK x : x = Masked(t.mie, val, t.mideleg)
    OBVIOUS
  <2>2. x \in SUBSET Irqs /\ x \ t.mideleg = t.mie \ t.mideleg
    <3>1. t.mideleg \subseteq Irqs /\ t.mie \subseteq Irqs
      BY DEF Harts, DelegableIrqs, Irqs
    <3> QED
      BY <2>1, <3>1 DEF Masked
  <2>3. u = [t EXCEPT !.mie = x]
    BY <1>1, <1>15, <2>1 DEF Keep, Harts
  <2>4. u \in Harts /\ Keeps(t, u, {"mie"}) /\ u.mie = x
    BY <2>2, <2>3 DEF Harts, Keeps, Fields
  <2>5. /\ u.flags = t.flags /\ u.mpp = t.mpp /\ u.mideleg = t.mideleg /\ u.mip = t.mip
        /\ u.medeleg = t.medeleg /\ u.mtvec = t.mtvec /\ u.mepc = t.mepc /\ u.menvcfg = t.menvcfg
        /\ u.mcounteren = t.mcounteren /\ u.pmp = t.pmp
    BY <2>4 DEF Keeps, Fields
  <2>6. MachineState(u) = MachineState(t)
    BY <2>2, <2>4, <2>5 DEF MachineState
  <2>7. Keeps(t, u, Held)
    BY <2>4 DEF Keeps, Held
  <2> QED
    BY <1>1, <1>3, <1>15, <2>4, <2>5, <2>6, <2>7, HeldControls
<1>16. CASE csr = "mip"
  <2>1. {MIP_SSIP, MIP_STIP} \in SUBSET Irqs
    BY DEF Irqs
  <2>2. u = [t EXCEPT !.mip = Masked(t.mip, val, {MIP_SSIP, MIP_STIP} \ TimerOwnedIp(t))]
    BY <1>1, <1>16 DEF Keep, Harts
  <2>3. t.priv # PRV_U
    BY <1>4, <1>16 DEF PRV_U, PRV_M
  <2> QED
    BY <1>1, <2>1, <2>2, <2>3, PendingHeld
<1>17. CASE csr = "sip"
  <2>1. t.mideleg \in SUBSET Irqs
    BY DEF Harts, DelegableIrqs, Irqs
  <2>2. u = [t EXCEPT !.mip = Masked(t.mip, val, t.mideleg \ TimerOwnedIp(t))]
    BY <1>1, <1>17 DEF Keep, Harts
  <2> QED
    BY <1>1, <1>3, <1>17, <2>1, <2>2, PendingHeld
<1> QED
  BY <1>5, <1>6, <1>7, <1>8, <1>9, <1>10, <1>11, <1>12, <1>13, <1>14, <1>15, <1>16, <1>17 DEF HeldCsrs

\* csr_write, for a register the mode may write.
LEMMA CsrWriteControls ==
  ASSUME NEW t \in Harts, MprvOk(t), NEW csr \in Csrs, NEW val, CsrTakes(csr, val),
         CsrAllowed(t, csr, TRUE)
  PROVE  Continues(t, csr_write(t, csr, val))
<1>1. PICK r : r = csr_write(t, csr, val)
  OBVIOUS
<1>2. t.priv >= CsrPriv(csr) /\ csr \notin ReadOnlyCsrs /\ t.priv \in 0 .. 3
  BY DEF CsrAllowed, Harts, PRV_U, PRV_M
<1>3. csr \in {"sstatus", "stimecmp", "satp"} => t.priv >= PRV_S /\ t.priv # PRV_U
  BY <1>2 DEF CsrPriv, PRV_S, PRV_U
<1>4. csr \in {"mstatus", "menvcfg", "pmpcfg", "pmpaddr"} => t.priv = PRV_M
  BY <1>2 DEF CsrPriv, PRV_M
<1>5. CASE csr = "sstatus"
  <2>1. val \in Statuses
    BY <1>5 DEF CsrTakes, Statuses
  <2>2. r = WriteStatus(t, [flags |-> Masked(t.flags, val.flags, SstatusFlags), mpp |-> t.mpp], "SIE",
                        t.mideleg)
    BY <1>1, <1>5 DEF csr_write
  <2> QED
    BY <1>1, <1>3, <1>5, <2>1, <2>2, SstatusWrite
<1>6. CASE csr = "mstatus"
  <2>1. val \in Statuses
    BY <1>6 DEF CsrTakes, Statuses
  <2>2. r = WriteStatus(t, val, "MIE", Irqs \ t.mideleg)
    BY <1>1, <1>6 DEF csr_write
  <2> QED
    BY <1>1, <1>4, <1>6, <2>1, <2>2, WriteStatusControls
<1>7. CASE csr = "stimecmp"
  <2>1. val \in Nat \union {Never} /\ (t.priv = PRV_M \/ ("STCE" \in t.menvcfg /\ 1 \in t.mcounteren))
    BY <1>7 DEF CsrTakes, CsrAllowed
  <2>2. r = WriteStimecmp(t, val)
    BY <1>1, <1>7 DEF csr_write
  <2> QED
    BY <1>1, <1>3, <1>7, <2>1, <2>2, StimecmpWrite
<1>8. CASE csr = "satp"
  <2>1. PICK x : x = [mode |-> IF val.mode \in {"bare", "sv39"} THEN val.mode ELSE t.satp.mode,
                      ppn |-> val.ppn]
    OBVIOUS
  <2>2. x \in [mode : {"bare", "sv39"}, ppn : Nat]
    BY <1>8, <2>1 DEF CsrTakes, Harts
  <2>3. t.priv = PRV_S => "TVM" \notin t.flags
    BY <1>8 DEF CsrAllowed
  <2>4. r = FlushTlb([t EXCEPT !.satp = x])
    BY <1>1, <1>8, <2>1 DEF csr_write, Harts
  <2> QED
    BY <1>1, <1>3, <1>8, <2>2, <2>3, <2>4, SatpWrite
<1>9. CASE csr = "menvcfg"
  <2>1. PICK x : x = val \intersect MenvcfgFlags
    OBVIOUS
  <2>2. r = WriteMenvcfg(t, x) /\ x \in SUBSET MenvcfgFlags
    BY <1>1, <1>9, <2>1 DEF csr_write
  <2> QED
    BY <1>1, <1>4, <1>9, <2>2, MenvcfgWrite
<1>10. CASE csr = "pmpcfg"
  <2>1. val \in [PmpEntries -> Configs]
    BY <1>10 DEF CsrTakes, Configs
  <2>2. PICK a : a = set_pmpcfg(t, val)
    OBVIOUS
  <2>3. a \in Harts /\ Keeps(t, a, {"pmp"}) /\ PmpKept(t, a)
    BY <2>1, <2>2, PmpcfgEffect
  <2>4. r = WritePmp(t, a)
    BY <1>1, <1>10, <2>2 DEF csr_write
  <2> QED
    BY <1>1, <1>4, <1>10, <2>3, <2>4, PmpWrite
<1>11. CASE csr = "pmpaddr"
  <2>1. val.entry \in PmpEntries /\ val.addr \in Nat
    BY <1>11 DEF CsrTakes
  <2>2. PICK a : a = set_pmpaddr(t, val.entry, val.addr)
    OBVIOUS
  <2>3. a \in Harts /\ Keeps(t, a, {"pmp"}) /\ PmpKept(t, a)
    BY <2>1, <2>2, PmpaddrEffect
  <2>4. r = WritePmp(t, a)
    BY <1>1, <1>11, <2>2 DEF csr_write
  <2> QED
    BY <1>1, <1>4, <1>11, <2>3, <2>4, PmpWrite
<1>12. CASE csr \in HeldCsrs
  <2>1. r = Proceed(Keep(t, csr, val))
    BY <1>1, <1>12 DEF csr_write, HeldCsrs
  <2>2. csr \in {"stvec", "mtvec", "sepc", "mepc"} => val \in Nat
    BY DEF CsrTakes
  <2> QED
    BY <1>1, <1>2, <1>12, <2>1, <2>2, KeepControls
<1> QED
  BY <1>2, <1>5, <1>6, <1>7, <1>8, <1>9, <1>10, <1>11, <1>12 DEF Csrs, ReadOnlyCsrs, HeldCsrs

-----------------------------------------------------------------------------
(* Instructions.                                                           *)

\* An instruction that traps.
LEMMA TrapContinues ==
  ASSUME NEW t \in Harts, MprvOk(t), NEW cause
  PROVE  Continues(t, Trap(t, cause))
<1>1. PICK on : on = (cause \in t.medeleg)
  OBVIOUS
<1>2. PICK u : u = raise_exception(t, on)
  OBVIOUS
<1>3. Controls(t, u)
  BY <1>2, TrapControls
<1>4. Trap(t, cause) = [s |-> u, then |-> "loop"]
  BY <1>1, <1>2 DEF Trap
<1> QED
  BY <1>3, <1>4 DEF Continues, Going

LEMMA NothingControls ==
  ASSUME NEW t \in Harts, MprvOk(t)
  PROVE  Controls(t, t)
BY PlainControls DEF Keeps

\* A CSR instruction: refused, written or read.
LEMMA CsrContinues ==
  ASSUME NEW t \in Harts, MprvOk(t), NEW i, i.csr \in Csrs, i.write \in BOOLEAN,
         i.write => CsrTakes(i.csr, i.val)
  PROVE  Continues(t, Csr(t, i))
<1>1. CASE ~CsrAllowed(t, i.csr, i.write)
  <2>1. Csr(t, i) = Trap(t, "illegal")
    BY <1>1 DEF Csr, Illegal
  <2> QED
    BY <2>1, TrapContinues
<1>2. CASE CsrAllowed(t, i.csr, i.write) /\ i.write
  <2>1. CsrAllowed(t, i.csr, TRUE)
    BY <1>2 DEF CsrAllowed
  <2>2. Csr(t, i) = csr_write(t, i.csr, i.val)
    BY <1>2 DEF Csr
  <2> QED
    BY <1>2, <2>1, <2>2, CsrWriteControls
<1>3. CASE CsrAllowed(t, i.csr, i.write) /\ ~i.write
  <2>1. Csr(t, i) = Proceed(t)
    BY <1>3 DEF Csr
  <2> QED
    BY <2>1, NothingControls DEF Proceed, Continues, Going
<1> QED
  BY <1>1, <1>2, <1>3

\* The other instructions of the SYSTEM opcode.
LEMMA SystemContinues ==
  ASSUME NEW t \in Harts, MprvOk(t)
  PROVE  /\ Continues(t, Ecall(t)) /\ Continues(t, Sret(t)) /\ Continues(t, Mret(t))
         /\ Continues(t, Wfi(t)) /\ Continues(t, SfenceVma(t))
<1>1. t.priv \in 0 .. 3
  BY DEF Harts, PRV_U, PRV_M
<1>2. Continues(t, Illegal(t)) /\ Continues(t, Ecall(t))
  BY TrapContinues DEF Illegal, Ecall
<1>3. Continues(t, Sret(t))
  <2>1. CASE t.priv < PRV_S \/ (t.priv = PRV_S /\ "TSR" \in t.flags)
    <3>1. Sret(t) = Illegal(t)
      BY <2>1 DEF Sret
    <3> QED
      BY <1>2, <3>1
  <2>2. CASE ~(t.priv < PRV_S \/ (t.priv = PRV_S /\ "TSR" \in t.flags))
    <3>1. Sret(t) = Interrupt(handle_sret(t))
      BY <2>2 DEF Sret
    <3>2. t.priv >= PRV_S
      BY <1>1, <2>2 DEF PRV_S
    <3> QED
      BY <3>1, <3>2, SretControls DEF Interrupt, Continues, Going
  <2> QED
    BY <2>1, <2>2
<1>4. Continues(t, Mret(t))
  <2>1. CASE t.priv < PRV_M
    <3>1. Mret(t) = Illegal(t)
      BY <2>1 DEF Mret
    <3> QED
      BY <1>2, <3>1
  <2>2. CASE ~(t.priv < PRV_M)
    <3>1. Mret(t) = Interrupt(handle_mret(t))
      BY <2>2 DEF Mret
    <3>2. t.priv = PRV_M
      BY <1>1, <2>2 DEF PRV_M
    <3> QED
      BY <3>1, <3>2, MretControls DEF Interrupt, Continues, Going
  <2> QED
    BY <2>1, <2>2
<1>5. Continues(t, Wfi(t))
  <2>1. PICK u : u = [t EXCEPT !.power_down = TRUE]
    OBVIOUS
  <2>2. u \in Harts /\ Keeps(t, u, {"power_down"})
    BY <2>1 DEF Harts, Keeps, Fields
  <2>3. u.mip = t.mip /\ Keeps(t, u, {"pc", "mip", "power_down"})
    BY <2>2 DEF Keeps, Fields
  <2>4. Controls(t, u)
    BY <2>2, <2>3, PlainControls
  <2>5. Wfi(t) \in {Illegal(t), Interrupt(u), Proceed(t)}
    BY <2>1 DEF Wfi
  <2>6. Continues(t, Interrupt(u)) /\ Continues(t, Proceed(t))
    BY <2>4, NothingControls DEF Interrupt, Proceed, Continues, Going
  <2> QED
    BY <1>2, <2>5, <2>6
<1>6. Continues(t, SfenceVma(t))
  <2>1. SfenceVma(t) \in {Illegal(t), FlushTlb(t)}
    BY DEF SfenceVma
  <2>2. Continues(t, FlushTlb(t))
    BY FlushControls DEF FlushTlb, Continues, Going
  <2> QED
    BY <1>2, <2>1, <2>2
<1> QED
  BY <1>2, <1>3, <1>4, <1>5, <1>6

LEMMA JumpContinues ==
  ASSUME NEW t \in Harts, MprvOk(t), NEW pc \in Nat
  PROVE  Continues(t, Jumped(t, pc))
<1>1. PICK u : u = [t EXCEPT !.pc = pc]
  OBVIOUS
<1>2. u \in Harts /\ Keeps(t, u, {"pc"})
  BY <1>1, SetPc
<1>3. u.mip = t.mip /\ Keeps(t, u, {"pc", "mip", "power_down"})
  BY <1>2 DEF Keeps, Fields
<1>4. Controls(t, u)
  BY <1>2, <1>3, PlainControls
<1> QED
  BY <1>1, <1>4 DEF Jumped, Continues, Going

\* What a step of the interpreter does to the hart.
Executes(t, u) ==
  /\ u \in Harts /\ MprvOk(u) /\ WriteMarked(u) /\ Marks(t, u) /\ TimerKept(t, u) /\ Confines(t, u)
Runs(t, r) == Executes(t, r.s) /\ r.then \in Going

LEMMA ControlsExecute ==
  ASSUME NEW t \in Harts, WriteMarked(t), NEW u, Controls(t, u)
  PROVE  Executes(t, u) /\ Faithful(t, u)
<1>1. /\ u \in Harts /\ MprvOk(u) /\ TlbKept(t, u) /\ u.mem = t.mem /\ u.dirty = t.dirty
      /\ TimerKept(t, u) /\ Confines(t, u)
  BY DEF Controls
<1>2. Marks(t, u)
  BY <1>1 DEF Marks
<1>3. WriteMarked(u)
  BY <1>1, EmptyTlb DEF TlbKept, WriteMarked
<1> QED
  BY <1>1, <1>2, <1>3, CurrentKept DEF Executes

LEMMA AccessExecutes ==
  ASSUME NEW t \in Harts, MprvOk(t), NEW u, Accessed(t, u)
  PROVE  Executes(t, u)
<1>1. u \in Harts /\ Keeps(t, u, {"mem", "dirty", "tlb"}) /\ Marks(t, u) /\ WriteMarked(u)
  BY DEF Accessed
<1>2. /\ u.flags = t.flags /\ u.priv = t.priv /\ u.menvcfg = t.menvcfg /\ u.stimecmp = t.stimecmp
      /\ u.ticks = t.ticks /\ u.service = t.service /\ u.mip = t.mip
  BY <1>1 DEF Keeps, Fields
<1>3. Keeps(t, u, Plain)
  BY <1>1 DEF Keeps, Plain
<1> QED
  BY <1>1, <1>2, <1>3, PlainConfines, TimerSame DEF Executes, MprvOk

\* An access, then a step that leaves memory alone.
LEMMA AccessThen ==
  ASSUME NEW t \in Harts, MprvOk(t), NEW a, Accessed(t, a), NEW u, Controls(a, u)
  PROVE  Executes(t, u) /\ Faithful(a, u)
<1>1. a \in Harts /\ Keeps(t, a, {"mem", "dirty", "tlb"}) /\ Marks(t, a) /\ WriteMarked(a)
  BY DEF Accessed
<1>2. Executes(a, u) /\ Faithful(a, u)
  BY <1>1, ControlsExecute
<1>3. /\ u \in Harts /\ MprvOk(u) /\ WriteMarked(u) /\ Marks(a, u) /\ TimerKept(a, u)
      /\ Confines(a, u)
  BY <1>2 DEF Executes
<1>4. Marks(t, u)
  BY <1>1, <1>3, MarksThen
<1>5. /\ a.flags = t.flags /\ a.mpp = t.mpp /\ a.mie = t.mie /\ a.mideleg = t.mideleg
      /\ a.medeleg = t.medeleg /\ a.mtvec = t.mtvec /\ a.mepc = t.mepc /\ a.menvcfg = t.menvcfg
      /\ a.mcounteren = t.mcounteren /\ a.pmp = t.pmp /\ a.satp = t.satp /\ a.stvec = t.stvec
      /\ a.sepc = t.sepc /\ a.scounteren = t.scounteren /\ a.senvcfg = t.senvcfg
      /\ a.stimecmp = t.stimecmp /\ a.priv = t.priv /\ a.mip = t.mip /\ a.ticks = t.ticks
      /\ a.service = t.service
  BY <1>1 DEF Keeps, Fields
<1>6. MachineState(a) = MachineState(t) /\ SupervisorState(a) = SupervisorState(t)
  BY <1>5 DEF MachineState, SupervisorState
<1>7. Confines(t, u)
  BY <1>3, <1>5, <1>6 DEF Confines, PmpKept
<1>8. TimerKept(t, u)
  BY <1>3, <1>5 DEF TimerKept, TimerExact, stimecmp
<1> QED
  BY <1>2, <1>3, <1>4, <1>7, <1>8 DEF Executes

LEMMA FaithfulThen ==
  ASSUME NEW t, NEW a, NEW u, Faithful(t, a), Faithful(a, u)
  PROVE  Faithful(t, u)
BY DEF Faithful

\* An access that ends in a fault.
LEMMA AccessTraps ==
  ASSUME NEW t \in Harts, MprvOk(t), NEW a, Accessed(t, a), NEW cause
  PROVE  Runs(t, Trap(a, cause)) /\ Faithful(a, Trap(a, cause).s) /\ Trap(a, cause).s.mem = a.mem
<1>1. a \in Harts /\ MprvOk(a)
  BY AccessExecutes DEF Executes
<1>2. PICK r : r = Trap(a, cause)
  OBVIOUS
<1>3. Controls(a, r.s) /\ r.then \in Going
  BY <1>1, <1>2, TrapContinues DEF Continues
<1>4. Executes(t, r.s) /\ Faithful(a, r.s)
  BY <1>3, AccessThen
<1>5. r.s.mem = a.mem
  BY <1>3 DEF Controls
<1> QED
  BY <1>2, <1>3, <1>4, <1>5 DEF Runs

\* A load from RAM or a device, or its fault.
LEMMA LoadRuns ==
  ASSUME NEW t \in Harts, MprvOk(t), WriteMarked(t), NEW v \in Nat, NEW mask,
         NEW g, g = target_read(t, v),
         NEW r, r = CASE g.res = "ok" -> Proceed(g.s)
                      [] g.res = "io" -> Proceed(set_interrupts(g.s, mask))
                      [] g.res \in {"page", "access"} -> Trap(g.s, FaultCause("r", g.res))
  PROVE  Runs(t, r) /\ Faithful(t, r.s)
<1>1. Accessed(t, g.s) /\ Faithful(t, g.s) /\ g.res \in {"ok", "page", "access", "io"}
  BY ReadEffect
<1>2. Executes(t, g.s)
  BY <1>1, AccessExecutes
<1>3. CASE g.res = "ok"
  <2>1. r = Proceed(g.s)
    BY <1>3
  <2>2. r.s = g.s /\ r.then = "insn"
    BY ONLY <2>1 DEF Proceed
  <2> QED
    BY <1>1, <1>2, <2>2 DEF Runs, Going
<1>4. CASE g.res = "io"
  <2>1. PICK u : u = set_interrupts(g.s, mask)
    OBVIOUS
  <2>2. r = Proceed(u)
    BY <1>4, <2>1
  <2>3. r.s = u /\ r.then = "insn"
    BY ONLY <2>2 DEF Proceed
  <2>4. g.s \in Harts /\ MprvOk(g.s)
    BY <1>2 DEF Executes
  <2>5. u \in Harts /\ Keeps(g.s, u, {"mip", "power_down"}) /\ (MIP_STIP \in u.mip <=> MIP_STIP \in g.s.mip)
    BY <2>1, <2>4, SetInterruptsEffect DEF Signalled
  <2>6. Keeps(g.s, u, {"pc", "mip", "power_down"})
    BY <2>5 DEF Keeps
  <2>7. Controls(g.s, u)
    BY <2>4, <2>5, <2>6, PlainControls
  <2> QED
    BY <1>1, <2>3, <2>7, AccessThen, FaithfulThen DEF Runs, Going
<1>5. CASE g.res \in {"page", "access"}
  <2>1. r = Trap(g.s, FaultCause("r", g.res))
    BY <1>5
  <2> QED
    BY <1>1, <2>1, AccessTraps, FaithfulThen
<1> QED
  BY <1>1, <1>3, <1>4, <1>5

\* A store conditional that fails.
LEMMA ScFailRuns ==
  ASSUME NEW t \in Harts, MprvOk(t), WriteMarked(t), NEW v \in Nat,
         NEW g, g = target_write_check(t, v),
         NEW r, r = IF g.res = "ok" THEN Proceed(g.s) ELSE Trap(g.s, FaultCause("w", g.res))
  PROVE  Runs(t, r) /\ Faithful(t, r.s)
<1>1. Accessed(t, g.s) /\ Faithful(t, g.s)
  <2>1. "w" \in Access
    BY DEF Access
  <2> QED
    BY <2>1, WalkUsed DEF target_write_check
<1>2. Executes(t, g.s)
  BY <1>1, AccessExecutes
<1>3. CASE g.res = "ok"
  <2>1. r.s = g.s /\ r.then = "insn"
    BY <1>3 DEF Proceed
  <2> QED
    BY <1>1, <1>2, <2>1 DEF Runs, Going
<1>4. CASE g.res # "ok"
  <2>1. r = Trap(g.s, FaultCause("w", g.res))
    BY <1>4
  <2> QED
    BY <1>1, <2>1, AccessTraps, FaithfulThen
<1> QED
  BY <1>3, <1>4

\* A step that leaves memory as it was leaves translations as they were.
LEMMA CboRuns ==
  ASSUME NEW t \in Harts, MprvOk(t), WriteMarked(t), NEW i, i.v \in Nat, i.i \in Places
  PROVE  Runs(t, Cbo(t, i)) /\ (Cbo(t, i).s.mem = t.mem => Faithful(t, Cbo(t, i).s))
<1>1. PICK zero \in BOOLEAN : zero = (i.kind = "CBZE")
  OBVIOUS
<1>2. PICK g : g = CacheBlock(t, i.v, i.i, zero)
  OBVIOUS
<1>3. Accessed(t, g.s) /\ (g.s.mem = t.mem => Faithful(t, g.s))
  BY <1>2, CacheBlockEffect
<1>4. PICK r : r = Cbo(t, i)
  OBVIOUS
<1>5. r \in {Illegal(t), Proceed(g.s), Trap(g.s, FaultCause("w", g.res))}
  BY <1>1, <1>2, <1>4 DEF Cbo
<1>6. CASE r = Illegal(t)
  <2>1. Continues(t, r)
    BY <1>6, TrapContinues DEF Illegal
  <2> QED
    BY <1>4, <2>1, ControlsExecute DEF Continues, Runs
<1>7. CASE r = Proceed(g.s)
  <2>1. r.s = g.s /\ r.then = "insn"
    BY <1>7 DEF Proceed
  <2> QED
    BY <1>3, <1>4, <2>1, AccessExecutes DEF Runs, Going
<1>8. CASE r = Trap(g.s, FaultCause("w", g.res))
  BY <1>3, <1>4, <1>8, AccessTraps, FaithfulThen
<1> QED
  BY <1>5, <1>6, <1>7, <1>8

\* A store to RAM, or its fault.
LEMMA StoreRuns ==
  ASSUME NEW t \in Harts, MprvOk(t), WriteMarked(t), NEW v \in Nat, NEW i \in Places, NEW w \in Words,
         NEW g, g = target_write(t, v, i, w)
  PROVE  /\ g.res = "ok" => Executes(t, g.s)
         /\ g.res \notin {"ok", "io"} =>
              /\ Runs(t, Trap(g.s, FaultCause("w", g.res)))
              /\ Faithful(t, Trap(g.s, FaultCause("w", g.res)).s)
<1>1. Accessed(t, g.s) /\ (g.res # "ok" => Faithful(t, g.s))
  BY WriteEffect
<1> QED
  BY <1>1, AccessExecutes, AccessTraps, FaithfulThen

\* The first instruction of a block: only a fault counts as an instruction.
LEMMA FetchRuns ==
  ASSUME NEW t \in Harts, MprvOk(t), WriteMarked(t), NEW g, g = target_read_insn(t, t.pc)
  PROVE  /\ Executes(t, g.s) /\ Faithful(t, g.s) /\ Keeps(t, g.s, {"mem", "dirty", "tlb"})
         /\ Runs(t, Trap(g.s, FaultCause("x", g.res)))
         /\ Faithful(t, Trap(g.s, FaultCause("x", g.res)).s)
<1>1. t.pc \in Nat
  BY DEF Harts
<1>2. Accessed(t, g.s) /\ Faithful(t, g.s)
  BY <1>1, FetchEffect
<1>3. Keeps(t, g.s, {"mem", "dirty", "tlb"})
  BY <1>2 DEF Accessed
<1> QED
  BY <1>2, <1>3, AccessExecutes, AccessTraps, FaithfulThen

\* The two requests to the host are set or cleared.
LEMMA Asked ==
  ASSUME NEW t \in Harts, NEW x \in BOOLEAN, NEW y \in BOOLEAN,
         NEW u, u = [t EXCEPT !.service = x, !.reprogrammed = y]
  PROVE  u \in Harts /\ Keeps(t, u, {"service", "reprogrammed"}) /\ u.service = x
         /\ u.reprogrammed = y
BY DEF Harts, Keeps, Fields

Buses == [lines : SUBSET Irqs, msip : BOOLEAN, mtimecmp : Nat \union {Never}, reset : BOOLEAN]

\* A device register is written; a new deadline asks for the host.
LEMMA DeviceStoreRuns ==
  ASSUME NEW t \in Harts, MprvOk(t), WriteMarked(t), NEW v \in Nat, NEW i \in Places, NEW w \in Words,
         bus \in Buses, NEW g, g = target_write(t, v, i, w), g.res = "io",
         NEW io, DeviceTakes(io), NEW d, d = write_device(g.s, io)
  PROVE  /\ Executes(t, d.s) /\ Faithful(t, d.s) /\ d.bus \in Buses
         /\ d.bus.mtimecmp # bus.mtimecmp => d.s.service
         /\ d.bus.reset /\ ~bus.reset => d.s.service
<1>1. Accessed(t, g.s) /\ Faithful(t, g.s)
  BY WriteEffect
<1>2. g.s \in Harts /\ MprvOk(g.s)
  BY <1>1, AccessExecutes DEF Executes
<1>3. PICK b : b = CASE io.reg = "msip" -> [bus EXCEPT !.msip = io.val]
                     [] io.reg = "mtimecmp" -> [bus EXCEPT !.mtimecmp = io.val]
                     [] io.reg = "finisher" -> [bus EXCEPT !.reset = TRUE]
                     [] io.reg = "notify" -> bus
  OBVIOUS
<1>4. /\ b \in Buses
      /\ io.reg # "mtimecmp" => b.mtimecmp = bus.mtimecmp
      /\ io.reg # "finisher" => b.reset = bus.reset
  <2>1. io.reg \in {"msip", "mtimecmp", "finisher", "notify"}
    BY DEF DeviceTakes
  <2>2. CASE io.reg = "msip"
    <3>1. b = [bus EXCEPT !.msip = io.val] /\ io.val \in BOOLEAN
      BY <1>3, <2>2 DEF DeviceTakes
    <3> QED
      BY <2>2, <3>1 DEF Buses
  <2>3. CASE io.reg = "mtimecmp"
    <3>1. b = [bus EXCEPT !.mtimecmp = io.val] /\ io.val \in Nat \union {Never}
      BY <1>3, <2>3 DEF DeviceTakes
    <3> QED
      BY <2>3, <3>1 DEF Buses
  <2>4. CASE io.reg = "finisher"
    <3>1. b = [bus EXCEPT !.reset = TRUE]
      BY <1>3, <2>4
    <3> QED
      BY <2>4, <3>1 DEF Buses
  <2>5. CASE io.reg = "notify"
    BY <1>3, <2>5
  <2> QED
    BY <2>1, <2>2, <2>3, <2>4, <2>5
<1>5. PICK u : u = set_interrupts(g.s, interrupt_mask(b, g.s.ticks))
  OBVIOUS
<1>6. u \in Harts /\ Keeps(g.s, u, {"mip", "power_down"}) /\ (MIP_STIP \in u.mip <=> MIP_STIP \in g.s.mip)
  BY <1>2, <1>5, SetInterruptsEffect DEF Signalled
<1>7. PICK serve \in BOOLEAN : serve = (io.reg \in {"mtimecmp", "finisher"} \/ (io.reg = "notify" /\ io.val))
  OBVIOUS
<1>8. PICK timer \in BOOLEAN : timer = (io.reg = "mtimecmp")
  OBVIOUS
<1>9. PICK z : z = [u EXCEPT !.service = @ \/ serve, !.reprogrammed = @ \/ timer]
  OBVIOUS
<1>10. PICK x \in BOOLEAN, y \in BOOLEAN : x = (u.service \/ serve) /\ y = (u.reprogrammed \/ timer)
  OBVIOUS
<1>11. z \in Harts /\ Keeps(u, z, {"service", "reprogrammed"}) /\ (serve => z.service) /\ (u.service => z.service)
  <2>1. z = [u EXCEPT !.service = x, !.reprogrammed = y]
    BY <1>6, <1>9, <1>10 DEF Harts
  <2>2. z \in Harts /\ Keeps(u, z, {"service", "reprogrammed"}) /\ z.service = x
    BY <1>6, <2>1, Asked
  <2> QED
    BY <1>10, <2>2
<1>12. d = [s |-> z, bus |-> b]
  BY <1>3, <1>5, <1>7, <1>8, <1>9 DEF write_device
<1>13. d.s = z /\ d.bus = b
  BY <1>12
<1>14. Keeps(g.s, z, {"mip", "power_down", "service", "reprogrammed"})
  BY <1>6, <1>11 DEF Keeps
<1>15. /\ z.tlb = g.s.tlb /\ z.mem = g.s.mem /\ z.dirty = g.s.dirty /\ z.priv = g.s.priv
       /\ z.satp = g.s.satp /\ z.flags = g.s.flags /\ z.menvcfg = g.s.menvcfg
       /\ z.stimecmp = g.s.stimecmp /\ z.ticks = g.s.ticks
       /\ z.mip = u.mip /\ u.service = g.s.service
  BY <1>6, <1>11, <1>14 DEF Keeps, Fields
<1>16. Keeps(g.s, z, Plain)
  BY <1>14 DEF Keeps, Plain
<1>17. TlbKept(g.s, z)
  BY <1>15, SameMemory DEF TlbKept, SameWalk
<1>18. TimerKept(g.s, z)
  BY <1>6, <1>11, <1>15 DEF TimerKept, TimerExact, stimecmp
<1>19. Controls(g.s, z)
  BY <1>2, <1>11, <1>15, <1>16, <1>17, <1>18, PlainConfines DEF Controls, MprvOk
<1>20. Executes(t, z) /\ Faithful(t, z)
  BY <1>1, <1>19, AccessThen, FaithfulThen
<1>21. (b.mtimecmp # bus.mtimecmp => z.service) /\ (b.reset /\ ~bus.reset => z.service)
  BY <1>4, <1>7, <1>11
<1> QED
  BY <1>4, <1>13, <1>20, <1>21

-----------------------------------------------------------------------------
(* The host and the hart's memory.                                         *)

LEMMA SetTlb ==
  ASSUME NEW t \in Harts, NEW x \in [Tlbs -> [Slots -> TlbEntries]], NEW u, u = [t EXCEPT !.tlb = x]
  PROVE  u \in Harts /\ Keeps(t, u, {"tlb"}) /\ u.tlb = x
BY DEF Harts, Keeps, Fields, Slots

\* The write entries of some frames are dropped.
LEMMA DropEffect ==
  ASSUME NEW t \in Harts, NEW F, NEW u, u = FlushWriteRange(t, F)
  PROVE  /\ u \in Harts /\ Keeps(t, u, {"tlb"}) /\ Faithful(t, u)
         /\ \A i \in Slots : u.tlb["w"][i] = IF t.tlb["w"][i].frame \in F THEN NoEntry ELSE t.tlb["w"][i]
<1>1. t.tlb \in [Tlbs -> [Slots -> TlbEntries]] /\ "w" \in Tlbs /\ DOMAIN t.tlb["w"] = Slots
  BY HartMemory DEF Tlbs
<1>2. PICK b : b = [i \in Slots |-> IF t.tlb["w"][i].frame \in F THEN NoEntry ELSE t.tlb["w"][i]]
  OBVIOUS
<1>3. b \in [Slots -> TlbEntries]
  BY <1>1, <1>2, NoFrame
<1>4. PICK x : x = [t.tlb EXCEPT !["w"] = b]
  OBVIOUS
<1>5. x \in [Tlbs -> [Slots -> TlbEntries]] /\ x["w"] = b /\ \A y \in Tlbs : y # "w" => x[y] = t.tlb[y]
  BY <1>1, <1>3, <1>4
<1>6. u = [t EXCEPT !.tlb = x]
  BY <1>1, <1>2, <1>4 DEF FlushWriteRange, Harts
<1>7. u \in Harts /\ Keeps(t, u, {"tlb"}) /\ u.tlb = x
  BY <1>5, <1>6, SetTlb
<1>8. Faithful(t, u)
  <2> SUFFICES ASSUME Current(t), NEW y \in Tlbs, NEW i \in Slots, NEW e, e = u.tlb[y][i],
                      e # NoEntry, y = "x" \/ "MPRV" \notin u.flags
               PROVE  get_phys_addr(u, e.v, y).res = "ok" /\ get_phys_addr(u, e.v, y).frame = e.frame
    BY DEF Faithful, Current
  <2>1. u.flags = t.flags /\ u.priv = t.priv /\ u.mpp = t.mpp /\ u.satp = t.satp /\ u.menvcfg = t.menvcfg
        /\ u.mem = t.mem
    BY <1>7 DEF Keeps, Fields
  <2>2. e = t.tlb[y][i]
    BY <1>2, <1>5, <1>7
  <2>3. get_phys_addr(t, e.v, y).res = "ok" /\ get_phys_addr(t, e.v, y).frame = e.frame
    BY <2>1, <2>2 DEF Current
  <2>4. e.v \in Nat /\ y \in Access
    BY <1>1, <2>2, EntryTypes DEF Tlbs, Access
  <2>5. SameView(t, u, y)
    BY <2>1, SameMemory DEF SameView, get_effective_priv
  <2>6. SameFrame(get_phys_addr(t, e.v, y), get_phys_addr(u, e.v, y))
    BY <1>7, <2>4, <2>5, WalkAgain
  <2> QED
    BY <2>3, <2>6 DEF SameFrame
<1> QED
  BY <1>2, <1>5, <1>7, <1>8

\* What the dirty bits are read for.
Cleaned(t, u) ==
  /\ u \in Harts /\ Keeps(t, u, {"tlb", "dirty"}) /\ WriteMarked(u) /\ Faithful(t, u)

LEMMA SetDirty ==
  ASSUME NEW t \in Harts, NEW x \in SUBSET Tracked, NEW u, u = [t EXCEPT !.dirty = x]
  PROVE  u \in Harts /\ Keeps(t, u, {"dirty"}) /\ u.dirty = x /\ Faithful(t, u)
<1>1. u \in Harts /\ Keeps(t, u, {"dirty"}) /\ u.dirty = x
  BY DEF Harts, Keeps, Fields
<1>2. /\ u.tlb = t.tlb /\ u.mem = t.mem /\ u.priv = t.priv /\ u.satp = t.satp /\ u.flags = t.flags
      /\ u.menvcfg = t.menvcfg
  BY <1>1 DEF Keeps, Fields
<1>3. TlbKept(t, u)
  BY <1>2, SameMemory DEF TlbKept, SameWalk
<1> QED
  BY <1>1, <1>3, CurrentKept

\* Taking the bits drops the write entries they stood for.
LEMMA TakeDirtyEffect ==
  ASSUME NEW t \in Harts, WriteMarked(t)
  PROVE  Cleaned(t, take_dirty(t))
<1>1. PICK a : a = IF t.dirty # {} THEN FlushWriteRange(t, Tracked) ELSE t
  OBVIOUS
<1>2. a \in Harts /\ Keeps(t, a, {"tlb"}) /\ Faithful(t, a)
  <2>1. CASE t.dirty # {}
    BY <1>1, <2>1, DropEffect
  <2>2. CASE t.dirty = {}
    BY <1>1, <2>2 DEF Keeps, Faithful
  <2> QED
    BY <2>1, <2>2
<1>3. \A i \in Slots : a.tlb["w"][i].frame \notin Tracked
  <2>1. CASE t.dirty # {}
    BY <1>1, <2>1, DropEffect, NoFrame
  <2>2. CASE t.dirty = {}
    BY <1>1, <2>2 DEF WriteMarked
  <2> QED
    BY <2>1, <2>2
<1>4. PICK u : u = [a EXCEPT !.dirty = {}]
  OBVIOUS
<1>5. u \in Harts /\ Keeps(a, u, {"dirty"}) /\ Faithful(a, u)
  BY <1>2, <1>4, SetDirty
<1>6. Keeps(t, u, {"tlb", "dirty"}) /\ Faithful(t, u)
  BY <1>2, <1>5, FaithfulThen DEF Keeps
<1>7. WriteMarked(u)
  <2>1. u.tlb = a.tlb
    BY <1>5 DEF Keeps, Fields
  <2> QED
    BY <1>3, <2>1 DEF WriteMarked
<1>8. take_dirty(t) = u
  BY <1>1, <1>4 DEF take_dirty
<1> QED
  BY <1>5, <1>6, <1>7, <1>8 DEF Cleaned

\* The same for one frame.
LEMMA ClearDirtyEffect ==
  ASSUME NEW t \in Harts, WriteMarked(t), NEW f \in Tracked
  PROVE  Cleaned(t, clear_dirty(t, f)) /\ clear_dirty(t, f).dirty = t.dirty \ {f}
<1>1. CASE f \notin t.dirty
  <2>1. clear_dirty(t, f) = t
    BY <1>1 DEF clear_dirty
  <2> QED
    BY <1>1, <2>1 DEF Cleaned, Keeps, Faithful
<1>2. CASE f \in t.dirty
  <2>1. PICK a : a = FlushWriteRange(t, {f})
    OBVIOUS
  <2>2. /\ a \in Harts /\ Keeps(t, a, {"tlb"}) /\ Faithful(t, a)
        /\ \A i \in Slots : a.tlb["w"][i] = IF t.tlb["w"][i].frame \in {f} THEN NoEntry ELSE t.tlb["w"][i]
    BY <2>1, DropEffect
  <2>3. a.dirty = t.dirty /\ t.dirty \ {f} \in SUBSET Tracked
    BY <2>2, HartMemory DEF Keeps, Fields
  <2>4. PICK u : u = [a EXCEPT !.dirty = t.dirty \ {f}]
    OBVIOUS
  <2>5. u \in Harts /\ Keeps(a, u, {"dirty"}) /\ u.dirty = t.dirty \ {f} /\ Faithful(a, u)
    BY <2>2, <2>3, <2>4, SetDirty
  <2>6. Keeps(t, u, {"tlb", "dirty"}) /\ Faithful(t, u) /\ u.tlb = a.tlb
    BY <2>2, <2>5, FaithfulThen DEF Keeps, Fields
  <2>7. WriteMarked(u)
    BY <2>2, <2>5, <2>6, NoFrame DEF WriteMarked
  <2>8. clear_dirty(t, f) = u
    BY <1>2, <2>1, <2>2, <2>3, <2>4 DEF clear_dirty, Harts
  <2> QED
    BY <2>5, <2>6, <2>7, <2>8 DEF Cleaned
<1> QED
  BY <1>1, <1>2

\* The host writes RAM and marks the frame.
LEMMA HostWriteEffect ==
  ASSUME NEW t \in Harts, WriteMarked(t), NEW f \in Frames, NEW i \in Places, NEW w \in Words
  PROVE  LET u == host_write(t, f, i, w) IN Accessed(t, u)
<1>1. PICK u : u = host_write(t, f, i, w)
  OBVIOUS
<1>2. u \in Harts /\ Keeps(t, u, {"mem", "dirty"}) /\ Marks(t, u)
  BY <1>1, MarkedStore DEF host_write
<1>3. u.tlb = t.tlb /\ Keeps(t, u, {"mem", "dirty", "tlb"})
  BY <1>2 DEF Keeps, Fields
<1>4. WriteMarked(u)
  BY <1>2, <1>3 DEF WriteMarked, Marks
<1> QED
  BY <1>1, <1>2, <1>3, <1>4 DEF Accessed

\* machine.reset: RAM, its marks and the guest's time stay.
LEMMA ResetEffect ==
  ASSUME NEW t \in Harts, NEW u, u = HartReset(t)
  PROVE  /\ u \in Harts /\ u.tlb = tlb_init /\ u.mem = t.mem /\ u.dirty = t.dirty /\ u.ticks = t.ticks
         /\ MprvOk(u) /\ ~u.power_down
<1>1. tlb_init \in [Tlbs -> [0 .. TlbSize - 1 -> TlbEntries]]
  BY EmptyTlb DEF Slots
<1>2. t.mem \in [Frames -> [0 .. Span - 1 -> Words]] /\ t.dirty \in SUBSET Tracked /\ t.ticks \in Nat
  BY DEF Harts
<1>3. PICK z : z = ResetHart(t.mem)
  OBVIOUS
<1>4. z \in Harts /\ z.tlb = tlb_init /\ z.mem = t.mem /\ z.flags = {} /\ z.power_down = FALSE
  <2>1. PRV_M \in PRV_U .. PRV_M /\ PRV_U \in PRV_U .. PRV_M
    BY DEF PRV_U, PRV_M
  <2>2. z.pmp \in [PmpEntries -> [lock : BOOLEAN, a : PmpModes, rwx : SUBSET {"R", "W", "X"}, addr : Nat]]
    BY <1>3 DEF ResetHart, PmpModes
  <2> QED
    BY <1>1, <1>2, <1>3, <2>1, <2>2 DEF ResetHart, Harts
<1>5. u = [z EXCEPT !.ticks = t.ticks, !.dirty = t.dirty]
  BY <1>3 DEF HartReset
<1>6. u \in Harts /\ Keeps(z, u, {"ticks", "dirty"}) /\ u.ticks = t.ticks /\ u.dirty = t.dirty
  BY <1>2, <1>4, <1>5 DEF Harts, Keeps, Fields
<1>7. u.tlb = z.tlb /\ u.mem = z.mem /\ u.flags = z.flags /\ u.power_down = z.power_down
  BY <1>6 DEF Keeps, Fields
<1> QED
  BY <1>4, <1>6, <1>7 DEF MprvOk

-----------------------------------------------------------------------------
(* Guest time and deadlines.                                               *)

LEMMA MaxPair ==
  ASSUME NEW a \in Int, NEW b \in Int
  PROVE  Max({a, b}) \in {a, b} /\ Max({a, b}) >= a /\ Max({a, b}) >= b
<1>1. \E x \in {a, b} : \A y \in {a, b} : x >= y
  OBVIOUS
<1>2. Max({a, b}) \in {a, b} /\ \A y \in {a, b} : Max({a, b}) >= y
  BY <1>1 DEF Max
<1> QED
  BY <1>2

LEMMA MinPair ==
  ASSUME NEW a \in Int, NEW b \in Int
  PROVE  Min({a, b}) \in {a, b} /\ Min({a, b}) <= a /\ Min({a, b}) <= b
<1>1. \E x \in {a, b} : \A y \in {a, b} : x <= y
  OBVIOUS
<1>2. Min({a, b}) \in {a, b} /\ \A y \in {a, b} : Min({a, b}) <= y
  BY <1>1 DEF Min
<1> QED
  BY <1>2

\* Multiplication keeps order, and division does.
LEMMA TimesOrder ==
  ASSUME NEW a \in Nat, NEW b \in Nat, NEW n \in Nat, a <= b
  PROVE  a * n \in Nat /\ b * n \in Nat /\ a * n <= b * n
<1>1. PICK d \in Nat : b = a + d
  <2>1. b - a \in Nat /\ b = a + (b - a)
    OBVIOUS
  <2> QED
    BY <2>1
<1>2. b * n = a * n + d * n /\ d * n \in Nat /\ a * n \in Nat
  BY <1>1
<1> QED
  BY ONLY <1>2

LEMMA DivAtLeast ==
  ASSUME NEW x \in Nat, NEW B \in Nat \ {0}, NEW k \in Nat, B * k <= x
  PROVE  x \div B >= k
<1>1. PICK q : q = x \div B
  OBVIOUS
<1>2. PICK r : r = x % B
  OBVIOUS
<1>3. q \in Nat /\ r \in 0 .. B - 1 /\ x = B * q + r
  BY <1>1, <1>2, DivMod
<1>4. ASSUME q + 1 <= k PROVE FALSE
  <2>1. (q + 1) * B <= k * B
    BY <1>3, <1>4, TimesOrder
  <2>2. (q + 1) * B = B * q + B /\ k * B = B * k /\ B * q \in Nat /\ B * k \in Nat
    BY <1>3
  <2> QED
    BY <1>3, <2>1, <2>2
<1> QED
  BY <1>1, <1>3, <1>4

LEMMA DivBelow ==
  ASSUME NEW x \in Nat, NEW B \in Nat \ {0}, NEW k \in Nat, x < B * k
  PROVE  x \div B < k
<1>1. PICK q : q = x \div B
  OBVIOUS
<1>2. PICK r : r = x % B
  OBVIOUS
<1>3. q \in Nat /\ r \in 0 .. B - 1 /\ x = B * q + r
  BY <1>1, <1>2, DivMod
<1>4. ASSUME k <= q PROVE FALSE
  <2>1. k * B <= q * B
    BY <1>3, <1>4, TimesOrder
  <2>2. q * B = B * q /\ k * B = B * k /\ B * q \in Nat /\ B * k \in Nat
    BY <1>3
  <2> QED
    BY <1>3, <2>1, <2>2
<1> QED
  BY <1>1, <1>3, <1>4

LEMMA DivOrder ==
  ASSUME NEW x \in Nat, NEW y \in Nat, NEW B \in Nat \ {0}, x <= y
  PROVE  x \div B <= y \div B
<1>1. PICK q : q = x \div B
  OBVIOUS
<1>2. PICK r : r = x % B
  OBVIOUS
<1>3. q \in Nat /\ r \in 0 .. B - 1 /\ x = B * q + r
  BY <1>1, <1>2, DivMod
<1>4. B * q \in Nat
  BY <1>3
<1>5. B * q <= y
  BY <1>3, <1>4
<1>6. y \div B >= q /\ y \div B \in Nat
  BY <1>3, <1>5, DivAtLeast, DivMod
<1> QED
  BY <1>1, <1>3, <1>6

Quanta ==
  [start : Nat, consumed : Nat, limit : Nat, deadline : Nat \union {Never}, ran : BOOLEAN,
   exhausted : BOOLEAN, stalled : 0 .. 1, term : {"none", "wfi", "budget"}, delay : Nat]

LEMMA Rates == /\ GuestTickRate \in Nat \ {0} /\ CycleRate \in Nat \ {0} /\ TicksPerMs \in Nat \ {0}
               /\ Budget \in Nat \ {0} /\ MaxWakeDelay \in Nat \ {0} /\ Overshoot \in Nat
BY RuntimeAssumption

\* The guest's time after n cycles of a quantum that started at the tick a.
Time(a, n) == a + ((n * GuestTickRate) \div CycleRate)

\* Guest time does not go back while cycles are counted.
LEMMA TimeOrder ==
  ASSUME NEW a \in Nat, NEW m \in Nat, NEW n \in Nat, m <= n
  PROVE  Time(a, m) \in Nat /\ Time(a, n) \in Nat /\ a <= Time(a, m) /\ Time(a, m) <= Time(a, n)
<1>1. m * GuestTickRate \in Nat /\ n * GuestTickRate \in Nat /\ m * GuestTickRate <= n * GuestTickRate
  BY Rates, TimesOrder
<1>2. PICK x : x = (m * GuestTickRate) \div CycleRate
  OBVIOUS
<1>3. PICK y : y = (n * GuestTickRate) \div CycleRate
  OBVIOUS
<1>4. x \in Nat /\ y \in Nat /\ x <= y
  BY <1>1, <1>2, <1>3, Rates, DivOrder, DivMod
<1>5. Time(a, m) = a + x /\ Time(a, n) = a + y
  BY <1>2, <1>3 DEF Time
<1> QED
  BY <1>4, <1>5

LEMMA QuantumTime ==
  ASSUME NEW q \in Quanta
  PROVE  guest_ticks(q) = Time(q.start, q.consumed) /\ guest_ticks(q) \in Nat /\ q.start <= guest_ticks(q)
<1>1. q.start \in Nat /\ q.consumed \in Nat
  BY DEF Quanta
<1>2. guest_ticks(q) = Time(q.start, q.consumed)
  BY DEF guest_ticks, Time
<1> QED
  BY <1>1, <1>2, TimeOrder

\* The limit of a run: the first cycle whose guest tick is due.
LEMMA CyclesExact ==
  ASSUME NEW q \in Quanta, NEW due \in Nat, due > guest_ticks(q),
         NEW c, c = cycles_until_deadline(q, due - guest_ticks(q))
  PROVE  /\ c \in Nat \ {0}
         /\ Time(q.start, q.consumed + c) >= due
         /\ c > 1 => Time(q.start, q.consumed + (c - 1)) < due
<1>1. PICK a \in Nat, k \in Nat : a = q.start /\ k = q.consumed
  BY DEF Quanta
<1>2. PICK now \in Nat : now = guest_ticks(q) /\ a <= now
  BY <1>1, QuantumTime
<1>3. PICK d \in Nat : d = due - a
  BY <1>2
<1>4. PICK G \in Nat \ {0}, C \in Nat \ {0} : G = GuestTickRate /\ C = CycleRate
  BY Rates
<1>5. PICK p \in Nat : p = d * C
  BY <1>4
<1>6. p + G - 1 \in Nat
  BY <1>4, <1>5
<1>7. PICK T : T = (p + G - 1) \div G
  OBVIOUS
<1>8. PICK r : r = (p + G - 1) % G
  OBVIOUS
<1>9. T \in Nat /\ r \in 0 .. G - 1 /\ p + G - 1 = G * T + r
  BY <1>6, <1>7, <1>8, DivMod
<1>10. c = Max({1, T - k})
  <2>1. now - a + (due - now) = d
    BY <1>2, <1>3
  <2>2. c = Max({1, ((guest_ticks(q) - q.start + (due - guest_ticks(q))) * CycleRate + GuestTickRate - 1)
                    \div GuestTickRate - q.consumed})
    BY DEF cycles_until_deadline
  <2> QED
    BY <1>1, <1>2, <1>4, <1>5, <1>7, <2>1, <2>2
<1>11. c \in {1, T - k} /\ c >= 1 /\ c >= T - k
  <2>1. PICK x \in Int : x = T - k
    BY <1>9
  <2>2. c = Max({1, x})
    BY <1>10, <2>1
  <2>3. Max({1, x}) \in {1, x} /\ Max({1, x}) >= 1 /\ Max({1, x}) >= x
    BY MaxPair
  <2> QED
    BY ONLY <2>1, <2>2, <2>3
<1>12. c \in Nat \ {0}
  BY <1>9, <1>11
<1>13. G * T \in Nat /\ p <= G * T /\ G * T < p + G
  BY <1>9
<1>14. Time(a, k + c) >= due
  <2>1. PICK m \in Nat : m = k + c
    BY <1>12
  <2>2. T <= m
    BY <1>9, <1>11, <1>12, <2>1
  <2>3. T * G <= m * G /\ m * G \in Nat /\ T * G = G * T
    BY <1>9, <2>2, TimesOrder
  <2>4. C * d <= m * G /\ C * d = p
    BY <1>5, <1>13, <2>3
  <2>5. (m * G) \div C >= d /\ (m * G) \div C \in Nat
    BY <2>3, <2>4, DivAtLeast, DivMod
  <2>6. Time(a, m) = a + ((m * G) \div C)
    BY <1>4 DEF Time
  <2> QED
    BY <1>3, <2>1, <2>5, <2>6
<1>15. ASSUME c > 1 PROVE Time(a, k + (c - 1)) < due
  <2>1. PICK m \in Nat : m = k + (c - 1)
    BY <1>12, <1>15
  <2>2. T = m + 1
    BY <1>9, <1>11, <1>15, <2>1
  <2>3. G * T = m * G + G /\ m * G \in Nat
    BY <2>2
  <2>4. m * G < C * d
    <3>1. C * d = p
      BY <1>5
    <3> QED
      BY ONLY <1>4, <1>5, <1>13, <2>3, <3>1
  <2>5. (m * G) \div C < d /\ (m * G) \div C \in Nat
    BY <2>3, <2>4, DivBelow, DivMod
  <2>6. Time(a, m) = a + ((m * G) \div C)
    BY <1>4 DEF Time
  <2> QED
    BY <1>3, <2>1, <2>5, <2>6
<1> QED
  BY <1>1, <1>12, <1>14, <1>15

\* A deadline lies ahead.
LEMMA NextTimer ==
  ASSUME NEW t \in Harts, NEW b \in Buses, NEW now \in Nat, NEW due, due = next_timer(t, b, now)
  PROVE  due = Never \/ (due \in Nat /\ due > now)
<1>1. PICK D : D = Deadlines(t, b, now)
  OBVIOUS
<1>2. stimecmp(t) \in Nat \union {Never} /\ b.mtimecmp \in Nat \union {Never}
  BY DEF stimecmp, Harts, Buses
<1>3. D \in SUBSET Nat /\ \A d \in D : d > now
  BY <1>1, <1>2 DEF Deadlines
<1>4. CASE D = {}
  BY <1>1, <1>4 DEF next_timer
<1>5. CASE D # {}
  <2>1. \E x \in D : \A y \in D : x <= y
    BY <1>3, <1>5, LeastNatural
  <2>2. Min(D) \in D
    BY <2>1 DEF Min
  <2>3. due = Min(D)
    BY <1>1, <1>5 DEF next_timer
  <2> QED
    BY <1>3, <2>2, <2>3
<1> QED
  BY <1>4, <1>5

\* The deadline depends on the two comparators only.
LEMMA SameDeadline ==
  ASSUME NEW t, NEW u, NEW b, NEW c, NEW now, stimecmp(u) = stimecmp(t), c.mtimecmp = b.mtimecmp
  PROVE  next_timer(u, c, now) = next_timer(t, b, now)
BY DEF next_timer, Deadlines

\* The lines and the time are presented to the hart.
LEMMA PresentEffect ==
  ASSUME NEW t \in Harts, NEW time \in Nat, NEW u, u = present_guest_clocks(t, time)
  PROVE  /\ u \in Harts /\ Keeps(t, u, {"ticks", "mip", "power_down"}) /\ u.ticks = time
         /\ TimerExact(u) /\ (~t.power_down => ~u.power_down)
<1>1. PICK a : a = set_interrupts(t, interrupt_mask(bus, time))
  OBVIOUS
<1>2. a \in Harts /\ Keeps(t, a, {"mip", "power_down"}) /\ (~t.power_down => ~a.power_down)
  BY <1>1, SetInterruptsEffect DEF Signalled
<1>3. u = set_guest_timer_ticks(a, time)
  BY <1>1 DEF present_guest_clocks
<1>4. /\ u \in Harts /\ Keeps(a, u, {"ticks", "mip", "power_down"}) /\ u.ticks = time
      /\ TimerExact(u) /\ (~a.power_down => ~u.power_down)
  BY <1>2, <1>3, SetTimeEffect
<1>5. Keeps(t, u, {"ticks", "mip", "power_down"})
  BY <1>2, <1>4 DEF Keeps
<1> QED
  BY <1>2, <1>4, <1>5

\* A hart that is told of time and lines only.
Presented(t, u) == u \in Harts /\ Keeps(t, u, {"ticks", "mip", "power_down", "service", "reprogrammed"})

LEMMA PresentedKeeps ==
  ASSUME NEW t \in Harts, MprvOk(t), WriteMarked(t), NEW u, Presented(t, u)
  PROVE  /\ MprvOk(u) /\ WriteMarked(u) /\ Marks(t, u) /\ Faithful(t, u) /\ PmpKept(t, u)
         /\ u.mem = t.mem /\ u.dirty = t.dirty
<1>1. /\ u.tlb = t.tlb /\ u.mem = t.mem /\ u.dirty = t.dirty /\ u.priv = t.priv /\ u.satp = t.satp
      /\ u.flags = t.flags /\ u.menvcfg = t.menvcfg /\ u.pmp = t.pmp
  BY DEF Presented, Keeps, Fields
<1>2. TlbKept(t, u)
  BY <1>1, SameMemory DEF TlbKept, SameWalk
<1>3. Faithful(t, u)
  BY <1>2, CurrentKept DEF Presented
<1> QED
  BY <1>1, <1>3 DEF MprvOk, WriteMarked, Marks, PmpKept

-----------------------------------------------------------------------------
(* The invariant.                                                          *)

Clocks == [wall : Nat, floor : Nat, wake : Nat, faults : Nat]

RuntimeTypes ==
  /\ load \in DOMAIN Workloads
  /\ s \in Harts
  /\ mode \in Going \union {"host", "exit"}
  /\ bus \in Buses
  /\ clock \in Clocks
  /\ quantum \in Quanta \union {NoQuantum}
  /\ stale \in BOOLEAN

\* The interpreter runs inside a quantum that has not been decided.
InQuantum == mode # "host" => Running /\ quantum.term = "none" /\ quantum.limit >= 1

\* The hart's time is not ahead of the quantum's, nor of the floor between two.
TimeBehind == s.ticks <= IF Running THEN guest_ticks(quantum) ELSE clock.floor

\* A run that has done nothing yet has not been asked to stop; if the run before
\* it did nothing either, the hart is awake.
Progress ==
  /\ mode = "host" /\ Running /\ quantum.term = "none" /\ quantum.stalled = 1 => ~s.power_down
  /\ mode # "host" /\ ~quantum.ran =>
       /\ ~s.service /\ ~s.reprogrammed
       /\ quantum.stalled = 1 => ~s.power_down
       /\ mode = "exit" => s.power_down

\* The limit of the run, in the terms of Time.
LimitOk(q) ==
  q.limit < Budget - q.consumed =>
    /\ Time(q.start, q.consumed + q.limit) >= q.deadline
    /\ q.limit > 1 => Time(q.start, q.consumed + (q.limit - 1)) < q.deadline

OnTime ==
  mode \in Going =>
    /\ TimerExact(s) /\ LimitOk(quantum)
    /\ s.service \/ quantum.deadline = next_timer(s, bus, s.ticks)

\* Translations are current, and marks are kept for the next store.
TlbInv == MprvOk(s) /\ WriteMarked(s) /\ (stale \/ Current(s))

HartInv ==
  /\ RuntimeTypes /\ InQuantum /\ TimeBehind /\ Progress /\ OnTime /\ TlbInv /\ DirtyTracked

-----------------------------------------------------------------------------
(* The interpreter.                                                        *)

LEMMA Quantum ==
  ASSUME NEW q \in Quanta
  PROVE  q # NoQuantum /\ q.start \in Nat /\ q.consumed \in Nat /\ q.limit \in Nat
BY DEF Quanta, NoQuantum

LEMMA RanQuantum ==
  ASSUME NEW q \in Quanta, NEW p, p = [q EXCEPT !.ran = TRUE]
  PROVE  /\ p \in Quanta /\ p.ran /\ p.start = q.start /\ p.consumed = q.consumed /\ p.limit = q.limit
         /\ p.deadline = q.deadline /\ p.term = q.term /\ p.stalled = q.stalled
         /\ guest_ticks(p) = guest_ticks(q)
BY DEF Quanta, guest_ticks

\* Changed frames are marked by a step that marks what it changes.
LEMMA MarksTracked ==
  ASSUME DirtyTracked, Marks(s, s'), changed' = changed \union {f \in Tracked : s'.mem[f] # s.mem[f]}
  PROVE  DirtyTracked'
BY DEF DirtyTracked, Marks

\* What a step does that the interpreter counts.
RanStep ==
  /\ mode \in Going /\ mode' \in Going /\ Executes(s, s')
  /\ quantum' = [quantum EXCEPT !.ran = TRUE] /\ load' = load
  /\ clock' \in Clocks /\ clock'.floor = clock.floor
  /\ bus' \in Buses /\ (s'.service \/ bus'.mtimecmp = bus.mtimecmp)
  /\ changed' = changed \union {f \in Tracked : s'.mem[f] # s.mem[f]}
  /\ stale' \in BOOLEAN /\ (~stale' => s'.tlb = tlb_init \/ (~stale /\ Faithful(s, s')))

\* The TLBs stay current in a step that keeps the walk or drops them all.
LEMMA TlbStep ==
  ASSUME TlbInv, MprvOk(s'), WriteMarked(s'),
         ~stale' => s'.tlb = tlb_init \/ (~stale /\ Faithful(s, s'))
  PROVE  TlbInv'
<1>1. ~stale' => Current(s')
  BY EmptyTlb DEF TlbInv, Faithful
<1> QED
  BY <1>1 DEF TlbInv

\* The invariant is kept by a step that the interpreter counts.
LEMMA RanKeeps ==
  ASSUME HartInv, RanStep
  PROVE  HartInv'
<1>1. RuntimeTypes /\ InQuantum /\ TimeBehind /\ Progress /\ OnTime /\ TlbInv /\ DirtyTracked
  BY DEF HartInv
<1>2. /\ mode \in Going /\ mode' \in Going /\ Executes(s, s')
      /\ quantum' = [quantum EXCEPT !.ran = TRUE] /\ load' = load
      /\ clock' \in Clocks /\ clock'.floor = clock.floor
      /\ bus' \in Buses /\ (s'.service \/ bus'.mtimecmp = bus.mtimecmp)
      /\ changed' = changed \union {f \in Tracked : s'.mem[f] # s.mem[f]}
      /\ stale' \in BOOLEAN /\ (~stale' => s'.tlb = tlb_init \/ (~stale /\ Faithful(s, s')))
  BY DEF RanStep
<1>3. mode # "host" /\ mode # "exit" /\ mode' # "host" /\ mode' # "exit"
  BY <1>2 DEF Going
<1>4. Running /\ quantum.term = "none" /\ quantum.limit >= 1 /\ quantum \in Quanta
  BY <1>1, <1>3 DEF InQuantum, RuntimeTypes, Running
<1>5. /\ quantum' \in Quanta /\ quantum'.ran /\ quantum'.start = quantum.start
      /\ quantum'.consumed = quantum.consumed /\ quantum'.limit = quantum.limit
      /\ quantum'.deadline = quantum.deadline /\ quantum'.term = quantum.term
      /\ guest_ticks(quantum') = guest_ticks(quantum)
  BY <1>2, <1>4, RanQuantum
<1>6. Running'
  BY <1>5, Quantum DEF Running
<1>7. /\ s' \in Harts /\ MprvOk(s') /\ WriteMarked(s') /\ Marks(s, s')
      /\ s'.ticks = s.ticks /\ (s.service => s'.service)
      /\ TimerExact(s) => TimerExact(s') /\ (s'.service \/ stimecmp(s') = stimecmp(s))
  BY <1>2 DEF Executes, TimerKept
<1>8. RuntimeTypes'
  BY <1>1, <1>2, <1>5, <1>7 DEF RuntimeTypes
<1>9. InQuantum'
  BY <1>4, <1>5, <1>6 DEF InQuantum
<1>10. TimeBehind'
  BY <1>1, <1>4, <1>5, <1>6, <1>7 DEF TimeBehind
<1>11. Progress'
  BY <1>3, <1>5 DEF Progress
<1>12. OnTime'
  <2>1. TimerExact(s) /\ LimitOk(quantum) /\ (s.service \/ quantum.deadline = next_timer(s, bus, s.ticks))
    BY <1>1, <1>2 DEF OnTime
  <2>2. LimitOk(quantum')
    BY <1>5, <2>1 DEF LimitOk
  <2>3. s'.service \/ quantum'.deadline = next_timer(s', bus', s'.ticks)
    <3>1. CASE s'.service
      BY <3>1
    <3>2. CASE ~s'.service
      <4>1. stimecmp(s') = stimecmp(s) /\ bus'.mtimecmp = bus.mtimecmp
        BY <1>2, <1>7, <2>1, <3>2
      <4>2. next_timer(s', bus', s.ticks) = next_timer(s, bus, s.ticks)
        BY <4>1, SameDeadline
      <4> QED
        BY <1>5, <1>7, <2>1, <3>2, <4>2
    <3> QED
      BY <3>1, <3>2
  <2> QED
    BY <1>7, <2>1, <2>2, <2>3 DEF OnTime
<1>13. TlbInv'
  BY <1>1, <1>2, <1>7, TlbStep
<1>14. DirtyTracked'
  BY <1>1, <1>2, <1>7, MarksTracked
<1> QED
  BY <1>8, <1>9, <1>10, <1>11, <1>12, <1>13, <1>14 DEF HartInv

\* What Noted records of a hart u.
Records(u) ==
  /\ s' = u /\ stale' \in BOOLEAN
  /\ changed' = changed \union {f \in Tracked : u.mem[f] # s.mem[f]}
  /\ ~stale' => u.tlb = tlb_init \/ (~stale /\ Faithful(s, u))

\* A step that stored no word.
LEMMA NotedQuiet ==
  ASSUME NEW u, Noted(u, FALSE), Faithful(s, u)
  PROVE  Records(u)
<1>1. s' = u /\ changed' = changed \union {f \in Tracked : u.mem[f] # s.mem[f]}
  BY DEF Noted
<1>2. stale' = (u.tlb # tlb_init /\ stale)
  BY DEF Noted
<1> QED
  BY <1>1, <1>2 DEF Records

\* A step that stored one.
LEMMA NotedWrite ==
  ASSUME NEW u, Noted(u, TRUE)
  PROVE  Records(u)
<1>1. s' = u /\ changed' = changed \union {f \in Tracked : u.mem[f] # s.mem[f]}
  BY DEF Noted
<1>2. stale' = (u.tlb # tlb_init)
  BY DEF Noted
<1> QED
  BY <1>1, <1>2 DEF Records

\* A step that may have stored one.
LEMMA NotedChange ==
  ASSUME NEW u, Noted(u, u.mem # s.mem), u.mem = s.mem => Faithful(s, u)
  PROVE  Records(u)
<1>1. s' = u /\ changed' = changed \union {f \in Tracked : u.mem[f] # s.mem[f]}
  BY DEF Noted
<1>2. stale' = (u.tlb # tlb_init /\ (stale \/ u.mem # s.mem))
  BY DEF Noted
<1> QED
  BY <1>1, <1>2 DEF Records

LEMMA RecordsRan ==
  ASSUME HartInv, mode \in Going, NEW u, Executes(s, u), Records(u), Ran, NEW m \in Going, Goto(m)
  PROVE  RanStep
<1>1. bus \in Buses /\ clock \in Clocks
  BY DEF HartInv, RuntimeTypes
<1> QED
  BY <1>1 DEF Records, Ran, Goto, RanStep

LEMMA InvHart ==
  ASSUME HartInv
  PROVE  /\ s \in Harts /\ MprvOk(s) /\ WriteMarked(s) /\ bus \in Buses /\ clock \in Clocks
         /\ load \in DOMAIN Workloads
BY DEF HartInv, RuntimeTypes, TlbInv

\* An instruction that stores nothing.
LEMMA QuietInsn ==
  ASSUME HartInv, NEW r, Runs(s, r), Faithful(s, r.s), Executed(r, FALSE)
  PROVE  RanStep
<1>1. mode = "insn" /\ Noted(r.s, FALSE) /\ Ran /\ Goto(r.then)
  BY DEF Executed
<1>2. mode \in Going /\ Executes(s, r.s) /\ r.then \in Going
  BY <1>1 DEF Going, Runs
<1> QED
  BY <1>1, <1>2, NotedQuiet, RecordsRan

\* An instruction that does not access memory.
LEMMA ControlInsn ==
  ASSUME HartInv, NEW r, Continues(s, r), Executed(r, FALSE)
  PROVE  RanStep
<1>1. Runs(s, r) /\ Faithful(s, r.s)
  BY InvHart, ControlsExecute DEF Continues, Runs
<1> QED
  BY <1>1, QuietInsn

\* An instruction of the workload has its operands.
LEMMA Operands ==
  ASSUME HartInv, NEW k \in Insns
  PROVE  InsnOk(Guest.insns[k])
BY InvHart, WorkloadAssumption DEF Insns, Guest

LEMMA ControlRan ==
  ASSUME HartInv,
         CsrInsn \/ EcallInsn \/ SretInsn \/ MretInsn \/ WfiInsn \/ SfenceInsn \/ JumpInsn
  PROVE  RanStep
<1>1. CASE CsrInsn
  <2>1. PICK k \in Insns : Guest.insns[k].op = "csr" /\ Executed(Csr(s, Guest.insns[k]), FALSE)
    BY <1>1 DEF CsrInsn
  <2>2. PICK i : i = Guest.insns[k]
    OBVIOUS
  <2>3. i.csr \in Csrs /\ i.write \in BOOLEAN /\ (i.write => CsrTakes(i.csr, i.val))
    BY <2>1, <2>2, Operands DEF InsnOk
  <2> QED
    BY <2>1, <2>2, <2>3, InvHart, CsrContinues, ControlInsn
<1>2. CASE EcallInsn \/ SretInsn \/ MretInsn \/ WfiInsn \/ SfenceInsn
  <2>1. \/ Executed(Ecall(s), FALSE) \/ Executed(Sret(s), FALSE) \/ Executed(Mret(s), FALSE)
        \/ Executed(Wfi(s), FALSE) \/ Executed(SfenceVma(s), FALSE)
    BY <1>2 DEF EcallInsn, SretInsn, MretInsn, WfiInsn, SfenceInsn
  <2> QED
    BY <2>1, InvHart, SystemContinues, ControlInsn
<1>3. CASE JumpInsn
  <2>1. PICK k \in Insns : Guest.insns[k].op = "jump" /\ Executed(Jumped(s, Guest.insns[k].v), FALSE)
    BY <1>3 DEF JumpInsn
  <2>2. Guest.insns[k].v \in Nat
    BY <2>1, Operands DEF InsnOk
  <2> QED
    BY <2>1, <2>2, InvHart, JumpContinues, ControlInsn
<1> QED
  BY <1>1, <1>2, <1>3

LEMMA LoadRan ==
  ASSUME HartInv, LoadInsn
  PROVE  RanStep
<1>1. PICK k \in Insns :
        LET i == Guest.insns[k]
            t == target_read(s, i.v)
        IN  /\ i.op = "load"
            /\ Executed(CASE t.res = "ok" -> Proceed(t.s)
                          [] t.res = "io" -> Proceed(set_interrupts(t.s, interrupt_mask(bus, s.ticks)))
                          [] t.res \in {"page", "access"} -> Trap(t.s, FaultCause("r", t.res)), FALSE)
  BY DEF LoadInsn
<1>2. PICK v : v = Guest.insns[k].v
  OBVIOUS
<1>3. v \in Nat
  BY <1>1, <1>2, Operands DEF InsnOk
<1>4. PICK mask : mask = interrupt_mask(bus, s.ticks)
  OBVIOUS
<1>5. PICK g : g = target_read(s, v)
  OBVIOUS
<1>6. PICK r : r = CASE g.res = "ok" -> Proceed(g.s)
                     [] g.res = "io" -> Proceed(set_interrupts(g.s, mask))
                     [] g.res \in {"page", "access"} -> Trap(g.s, FaultCause("r", g.res))
  OBVIOUS
<1>7. Executed(r, FALSE)
  BY <1>1, <1>2, <1>4, <1>5, <1>6
<1>8. Runs(s, r) /\ Faithful(s, r.s)
  BY <1>3, <1>5, <1>6, InvHart, LoadRuns
<1> QED
  BY <1>7, <1>8, QuietInsn

LEMMA ScFailRan ==
  ASSUME HartInv, ScFailInsn
  PROVE  RanStep
<1>1. PICK k \in Insns :
        LET i == Guest.insns[k]
            t == target_write_check(s, i.v)
        IN  /\ i.op = "scfail"
            /\ Executed(IF t.res = "ok" THEN Proceed(t.s) ELSE Trap(t.s, FaultCause("w", t.res)), FALSE)
  BY DEF ScFailInsn
<1>2. PICK v : v = Guest.insns[k].v
  OBVIOUS
<1>3. v \in Nat
  BY <1>1, <1>2, Operands DEF InsnOk
<1>4. PICK g : g = target_write_check(s, v)
  OBVIOUS
<1>5. PICK r : r = IF g.res = "ok" THEN Proceed(g.s) ELSE Trap(g.s, FaultCause("w", g.res))
  OBVIOUS
<1>6. Executed(r, FALSE)
  BY <1>1, <1>2, <1>4, <1>5
<1>7. Runs(s, r) /\ Faithful(s, r.s)
  BY <1>3, <1>4, <1>5, InvHart, ScFailRuns
<1> QED
  BY <1>6, <1>7, QuietInsn

LEMMA CboRan ==
  ASSUME HartInv, CboInsn
  PROVE  RanStep
<1>1. PICK k \in Insns :
        Guest.insns[k].op = "cbo" /\ Executed(Cbo(s, Guest.insns[k]), Cbo(s, Guest.insns[k]).s.mem # s.mem)
  BY DEF CboInsn
<1>2. PICK i : i = Guest.insns[k]
  OBVIOUS
<1>3. i.v \in Nat /\ i.i \in Places
  BY <1>1, <1>2, Operands DEF InsnOk, Places
<1>4. PICK r : r = Cbo(s, i)
  OBVIOUS
<1>5. Runs(s, r) /\ (r.s.mem = s.mem => Faithful(s, r.s))
  BY <1>3, <1>4, InvHart, CboRuns
<1>6. Executed(r, r.s.mem # s.mem)
  BY <1>1, <1>2, <1>4
<1>7. mode = "insn" /\ Noted(r.s, r.s.mem # s.mem) /\ Ran /\ Goto(r.then)
  BY <1>6 DEF Executed
<1>8. mode \in Going /\ Executes(s, r.s) /\ r.then \in Going
  BY <1>5, <1>7 DEF Going, Runs
<1> QED
  BY <1>5, <1>7, <1>8, NotedChange, RecordsRan

LEMMA StoreRan ==
  ASSUME HartInv, StoreInsn
  PROVE  RanStep
<1>1. PICK k \in Insns :
        LET i == Guest.insns[k]
            t == target_write(s, i.v, i.i, i.w)
            slow == ~TlbHit(s, "w", i.v)
            r == [s |-> t.s, then |-> IF slow /\ t.s.service THEN "loop" ELSE "insn"]
        IN  /\ i.op = "store"
            /\ t.res # "io"
            /\ IF t.res = "ok" THEN Executed(r, TRUE)
               ELSE Executed(Trap(t.s, FaultCause("w", t.res)), FALSE)
  BY DEF StoreInsn
<1>2. PICK i : i = Guest.insns[k]
  OBVIOUS
<1>3. i.v \in Nat /\ i.i \in Places /\ i.w \in Words
  BY <1>1, <1>2, Operands DEF InsnOk, Places
<1>4. PICK g : g = target_write(s, i.v, i.i, i.w)
  OBVIOUS
<1>5. /\ g.res = "ok" => Executes(s, g.s)
      /\ g.res \notin {"ok", "io"} =>
           /\ Runs(s, Trap(g.s, FaultCause("w", g.res)))
           /\ Faithful(s, Trap(g.s, FaultCause("w", g.res)).s)
  BY <1>3, <1>4, InvHart, StoreRuns
<1>6. g.res # "io"
  BY <1>1, <1>2, <1>4
<1>7. CASE g.res = "ok"
  <2>1. PICK m : m = IF ~TlbHit(s, "w", i.v) /\ g.s.service THEN "loop" ELSE "insn"
    OBVIOUS
  <2>2. PICK r : r = [s |-> g.s, then |-> m]
    OBVIOUS
  <2>3. Executed(r, TRUE)
    BY <1>1, <1>2, <1>4, <1>7, <2>1, <2>2
  <2>4. r.s = g.s /\ r.then = m /\ m \in Going
    BY <2>1, <2>2 DEF Going
  <2>5. mode = "insn" /\ Noted(r.s, TRUE) /\ Ran /\ Goto(r.then)
    BY <2>3 DEF Executed
  <2>6. mode \in Going /\ Executes(s, r.s) /\ r.then \in Going
    BY <1>5, <1>7, <2>4, <2>5 DEF Going
  <2> QED
    BY <2>5, <2>6, NotedWrite, RecordsRan
<1>8. CASE g.res # "ok"
  <2>1. PICK r : r = Trap(g.s, FaultCause("w", g.res))
    OBVIOUS
  <2>2. Executed(r, FALSE)
    BY <1>1, <1>2, <1>4, <1>8, <2>1
  <2> QED
    BY <1>5, <1>6, <1>8, <2>1, <2>2, QuietInsn
<1> QED
  BY <1>7, <1>8

LEMMA DeviceStoreRan ==
  ASSUME HartInv, DeviceStoreInsn
  PROVE  RanStep
<1>1. PICK k \in Insns :
        LET i == Guest.insns[k]
            t == target_write(s, i.v, i.i, i.w)
            d == write_device(t.s, i.io)
        IN  /\ i.op = "store" /\ mode = "insn"
            /\ t.res = "io"
            /\ d.bus.reset => clock.faults < MaxFaults
            /\ Noted(d.s, FALSE) /\ bus' = d.bus /\ Ran
            /\ mode' = IF d.s.service THEN "loop" ELSE "insn"
            /\ clock' = [clock EXCEPT !.faults = @ + (IF d.bus.reset THEN 1 ELSE 0)]
            /\ UNCHANGED load
  BY DEF DeviceStoreInsn
<1>2. PICK i : i = Guest.insns[k]
  OBVIOUS
<1>3. i.v \in Nat /\ i.i \in Places /\ i.w \in Words /\ DeviceTakes(i.io)
  BY <1>1, <1>2, Operands DEF InsnOk, Places
<1>4. PICK g : g = target_write(s, i.v, i.i, i.w)
  OBVIOUS
<1>5. PICK d : d = write_device(g.s, i.io)
  OBVIOUS
<1>6. PICK n : n = IF d.bus.reset THEN 1 ELSE 0
  OBVIOUS
<1>7. /\ mode = "insn" /\ g.res = "io" /\ Noted(d.s, FALSE) /\ bus' = d.bus /\ Ran
      /\ mode' = (IF d.s.service THEN "loop" ELSE "insn")
      /\ clock' = [clock EXCEPT !.faults = @ + n] /\ load' = load
  BY <1>1, <1>2, <1>4, <1>5, <1>6
<1>8. /\ Executes(s, d.s) /\ Faithful(s, d.s) /\ d.bus \in Buses
      /\ d.bus.mtimecmp # bus.mtimecmp => d.s.service
  BY <1>3, <1>4, <1>5, <1>7, InvHart, DeviceStoreRuns
<1>9. Records(d.s)
  BY <1>7, <1>8, NotedQuiet
<1>10. clock' \in Clocks /\ clock'.floor = clock.floor
  BY <1>6, <1>7, InvHart DEF Clocks
<1>11. mode \in Going /\ mode' \in Going
  BY <1>7 DEF Going
<1> QED
  BY <1>7, <1>8, <1>9, <1>10, <1>11 DEF Records, RanStep, Ran

LEMMA InstructionRan ==
  ASSUME HartInv, Instruction
  PROVE  RanStep
BY ControlRan, LoadRan, ScFailRan, CboRan, StoreRan, DeviceStoreRan DEF Instruction

LEMMA InterruptRan ==
  ASSUME HartInv, TakeInterrupt
  PROVE  RanStep
<1>1. mode \in {"loop", "block"} /\ Noted(raise_interrupt(s), FALSE) /\ Ran /\ Goto("loop")
  BY DEF TakeInterrupt
<1>2. PICK on : on = (Min(get_pending_irq_mask(s)) \in s.mideleg)
  OBVIOUS
<1>3. PICK u : u = raise_exception(s, on)
  OBVIOUS
<1>4. raise_interrupt(s) = u
  BY <1>2, <1>3 DEF raise_interrupt
<1>5. Controls(s, u)
  BY <1>3, InvHart, TrapControls
<1>6. Executes(s, u) /\ Faithful(s, u)
  BY <1>5, InvHart, ControlsExecute
<1>7. mode \in Going /\ "loop" \in Going
  BY <1>1 DEF Going
<1> QED
  BY <1>1, <1>4, <1>6, <1>7, NotedQuiet, RecordsRan

\* What a step of the interpreter does that it does not count.
MoveStep ==
  /\ mode \in Going /\ mode' \in Going \union {"exit"}
  /\ Executes(s, s') /\ Keeps(s, s', {"mem", "dirty", "tlb"}) /\ Records(s')
  /\ quantum' \in {quantum, [quantum EXCEPT !.exhausted = TRUE]}
  /\ bus' = bus /\ clock' = clock /\ load' = load
  /\ mode' = "exit" => s.power_down \/ s.service \/ quantum.ran

\* The invariant is kept by a step that it does not count.
LEMMA MoveKeeps ==
  ASSUME HartInv, MoveStep
  PROVE  HartInv'
<1>1. RuntimeTypes /\ InQuantum /\ TimeBehind /\ Progress /\ OnTime /\ TlbInv /\ DirtyTracked
  BY DEF HartInv
<1>2. /\ mode \in Going /\ mode' \in Going \union {"exit"}
      /\ Executes(s, s') /\ Keeps(s, s', {"mem", "dirty", "tlb"}) /\ Records(s')
      /\ quantum' \in {quantum, [quantum EXCEPT !.exhausted = TRUE]}
      /\ bus' = bus /\ clock' = clock /\ load' = load
      /\ mode' = "exit" => s.power_down \/ s.service \/ quantum.ran
  BY DEF MoveStep
<1>3. mode # "host" /\ mode # "exit" /\ mode' # "host"
  BY <1>2 DEF Going
<1>4. Running /\ quantum.term = "none" /\ quantum.limit >= 1 /\ quantum \in Quanta
  BY <1>1, <1>3 DEF InQuantum, RuntimeTypes, Running
<1>5. /\ quantum' \in Quanta /\ quantum'.ran = quantum.ran /\ quantum'.start = quantum.start
      /\ quantum'.consumed = quantum.consumed /\ quantum'.limit = quantum.limit
      /\ quantum'.deadline = quantum.deadline /\ quantum'.term = quantum.term
      /\ quantum'.stalled = quantum.stalled /\ guest_ticks(quantum') = guest_ticks(quantum)
  BY <1>2, <1>4 DEF Quanta, guest_ticks
<1>6. Running'
  BY <1>5, Quantum DEF Running
<1>7. s' \in Harts /\ MprvOk(s') /\ WriteMarked(s') /\ Marks(s, s')
  BY <1>2 DEF Executes
<1>8. /\ s'.ticks = s.ticks /\ s'.service = s.service /\ s'.reprogrammed = s.reprogrammed
      /\ s'.power_down = s.power_down /\ s'.menvcfg = s.menvcfg /\ s'.mip = s.mip
      /\ s'.stimecmp = s.stimecmp
  BY <1>2 DEF Keeps, Fields
<1>9. /\ stale' \in BOOLEAN /\ changed' = changed \union {f \in Tracked : s'.mem[f] # s.mem[f]}
      /\ ~stale' => s'.tlb = tlb_init \/ (~stale /\ Faithful(s, s'))
  BY <1>2 DEF Records
<1>10. RuntimeTypes'
  BY <1>1, <1>2, <1>5, <1>7, <1>9 DEF RuntimeTypes
<1>11. InQuantum'
  BY <1>4, <1>5, <1>6 DEF InQuantum
<1>12. TimeBehind'
  BY <1>1, <1>4, <1>5, <1>6, <1>8 DEF TimeBehind
<1>13. Progress'
  BY <1>1, <1>2, <1>3, <1>5, <1>8 DEF Progress
<1>14. OnTime'
  <2>1. TimerExact(s) /\ LimitOk(quantum) /\ (s.service \/ quantum.deadline = next_timer(s, bus, s.ticks))
    BY <1>1, <1>2 DEF OnTime
  <2>2. TimerExact(s') /\ stimecmp(s') = stimecmp(s)
    BY <1>8, <2>1 DEF TimerExact, stimecmp
  <2>3. next_timer(s', bus, s.ticks) = next_timer(s, bus, s.ticks)
    BY <2>2, SameDeadline
  <2>4. LimitOk(quantum')
    BY <1>5, <2>1 DEF LimitOk
  <2> QED
    BY <1>2, <1>5, <1>8, <2>1, <2>2, <2>3, <2>4 DEF OnTime
<1>15. TlbInv'
  BY <1>1, <1>7, <1>9, TlbStep
<1>16. DirtyTracked'
  BY <1>1, <1>7, <1>9, MarksTracked
<1> QED
  BY <1>10, <1>11, <1>12, <1>13, <1>14, <1>15, <1>16 DEF HartInv

\* Nothing happens to the hart.
LEMMA StaysRecorded ==
  ASSUME HartInv, s' = s, stale' = stale, changed' = changed
  PROVE  Executes(s, s') /\ Keeps(s, s', {"mem", "dirty", "tlb"}) /\ Records(s')
<1>1. Executes(s, s) /\ Faithful(s, s)
  BY InvHart, NothingControls, ControlsExecute
<1>2. stale \in BOOLEAN
  BY DEF HartInv, RuntimeTypes
<1> QED
  BY <1>1, <1>2 DEF Records, Keeps

LEMMA MovesKeep ==
  ASSUME HartInv, LeaveLoop \/ CyclesSpent \/ EnterInterp
  PROVE  MoveStep
<1>1. s' = s /\ stale' = stale /\ changed' = changed /\ bus' = bus /\ clock' = clock /\ load' = load
  BY DEF LeaveLoop, CyclesSpent, EnterInterp, Goto
<1>2. mode \in Going /\ mode' \in Going \union {"exit"}
  BY DEF LeaveLoop, CyclesSpent, EnterInterp, Goto, Going
<1>3. /\ quantum' \in {quantum, [quantum EXCEPT !.exhausted = TRUE]}
      /\ mode' = "exit" => s.power_down \/ s.service \/ quantum.ran
  BY DEF LeaveLoop, CyclesSpent, EnterInterp, Goto
<1> QED
  BY <1>1, <1>2, <1>3, StaysRecorded DEF MoveStep

\* A fetch, or its fault.
LEMMA FetchSteps ==
  ASSUME HartInv, FetchBlock
  PROVE  MoveStep \/ RanStep
<1>1. PICK g : g = target_read_insn(s, s.pc)
  OBVIOUS
<1>2. /\ mode = "block"
      /\ IF g.res = "ok"
         THEN Noted(g.s, FALSE) /\ Goto("insn") /\ UNCHANGED quantum
         ELSE Noted(Trap(g.s, FaultCause("x", g.res)).s, FALSE) /\ Goto("loop") /\ Ran
  BY <1>1 DEF FetchBlock
<1>3. /\ Executes(s, g.s) /\ Faithful(s, g.s) /\ Keeps(s, g.s, {"mem", "dirty", "tlb"})
      /\ Runs(s, Trap(g.s, FaultCause("x", g.res)))
      /\ Faithful(s, Trap(g.s, FaultCause("x", g.res)).s)
  BY <1>1, InvHart, FetchRuns
<1>4. mode \in Going /\ "insn" \in Going /\ "loop" \in Going
  BY <1>2 DEF Going
<1>5. CASE g.res = "ok"
  <2>1. Noted(g.s, FALSE) /\ Goto("insn") /\ UNCHANGED quantum
    BY <1>2, <1>5
  <2>2. Records(g.s)
    BY <1>3, <2>1, NotedQuiet
  <2>3. s' = g.s
    BY <2>2 DEF Records
  <2> QED
    BY <1>3, <1>4, <2>1, <2>2, <2>3 DEF MoveStep, Goto
<1>6. CASE g.res # "ok"
  <2>1. PICK r : r = Trap(g.s, FaultCause("x", g.res))
    OBVIOUS
  <2>2. Noted(r.s, FALSE) /\ Goto("loop") /\ Ran
    BY <1>2, <1>6, <2>1
  <2>3. Executes(s, r.s) /\ Faithful(s, r.s)
    BY <1>3, <2>1 DEF Runs
  <2> QED
    BY <1>4, <2>2, <2>3, NotedQuiet, RecordsRan
<1> QED
  BY <1>5, <1>6

LEMMA InterpreterSteps ==
  ASSUME HartInv, Interpreter
  PROVE  MoveStep \/ RanStep
BY MovesKeep, InterruptRan, FetchSteps, InstructionRan DEF Interpreter

-----------------------------------------------------------------------------
(* Quanta and the host.                                                    *)

\* The hart stays as it is.
LEMMA HartStays ==
  ASSUME HartInv, s' = s, stale' = stale, changed' = changed
  PROVE  TlbInv' /\ DirtyTracked' /\ s' \in Harts /\ stale' \in BOOLEAN
<1>1. TlbInv /\ DirtyTracked /\ stale \in BOOLEAN /\ s \in Harts
  BY DEF HartInv, RuntimeTypes
<1> QED
  BY <1>1 DEF TlbInv, DirtyTracked, MprvOk, WriteMarked, Current

\* A step outside the interpreter that leaves no run under way.
LEMMA HostKeeps ==
  ASSUME RuntimeTypes', TimeBehind', TlbInv', DirtyTracked', mode' = "host",
         Running' /\ quantum'.term = "none" /\ quantum'.stalled = 1 => ~s'.power_down
  PROVE  HartInv'
<1>1. InQuantum' /\ Progress' /\ OnTime'
  BY DEF InQuantum, Progress, OnTime, Going
<1> QED
  BY <1>1 DEF HartInv

LEMMA SetWall ==
  ASSUME NEW c \in Clocks, NEW w \in Nat, NEW n \in Nat, NEW d, d = [c EXCEPT !.wall = w, !.faults = n]
  PROVE  d \in Clocks /\ d.floor = c.floor
BY DEF Clocks

\* The host's clock may go on or back; the floor of guest time stays.
LEMMA ClockKeeps ==
  ASSUME HartInv, clock' \in Clocks, clock'.floor = clock.floor, s' = s, mode' = mode, bus' = bus,
         quantum' = quantum, load' = load, stale' = stale, changed' = changed
  PROVE  HartInv'
<1>1. RuntimeTypes /\ InQuantum /\ TimeBehind /\ Progress /\ OnTime
  BY DEF HartInv
<1>2. TlbInv' /\ DirtyTracked'
  BY HartStays
<1>3. RuntimeTypes' /\ InQuantum' /\ Progress'
  BY <1>1 DEF RuntimeTypes, InQuantum, Progress, Running
<1>4. TimeBehind'
  BY <1>1 DEF TimeBehind, Running, guest_ticks
<1>5. OnTime'
  BY <1>1 DEF OnTime, TimerExact, LimitOk, next_timer, Deadlines, stimecmp
<1> QED
  BY <1>2, <1>3, <1>4, <1>5 DEF HartInv

\* The host's clock moves.
LEMMA TickKeeps ==
  ASSUME HartInv, Tick \/ StepBack
  PROVE  HartInv' /\ s' = s
<1>1. /\ s' = s /\ mode' = mode /\ bus' = bus /\ quantum' = quantum /\ load' = load /\ stale' = stale
      /\ changed' = changed
  BY DEF Tick, StepBack
<1>2. CASE Tick
  <2>1. clock' \in Clocks /\ clock'.floor = clock.floor
    BY <1>2, InvHart DEF Tick, Clocks
  <2> QED
    BY <1>1, <2>1, ClockKeeps
<1>3. CASE StepBack
  <2>1. clock.wall \in Nat /\ clock.wall > 0 /\ clock.faults \in Nat
    BY <1>3, InvHart DEF StepBack, Clocks
  <2>2. PICK w \in Nat, n \in Nat : w = clock.wall - 1 /\ n = clock.faults + 1
    BY <2>1
  <2>3. clock' = [clock EXCEPT !.wall = w, !.faults = n] /\ clock \in Clocks
    BY <1>3, <2>2, InvHart DEF StepBack, Clocks
  <2>4. clock' \in Clocks /\ clock'.floor = clock.floor
    BY <2>2, <2>3, SetWall
  <2> QED
    BY <1>1, <2>4, ClockKeeps
<1> QED
  BY <1>2, <1>3

\* A quantum begins at the host's time, or at the floor if that is later.
LEMMA BeginKeeps ==
  ASSUME HartInv, Begin
  PROVE  HartInv' /\ s' = s
<1>1. /\ mode = "host" /\ ~Running /\ s' = s /\ mode' = mode /\ bus' = bus /\ clock' = clock
      /\ load' = load /\ stale' = stale /\ changed' = changed
      /\ quantum' = [start |-> start_guest_ticks, consumed |-> 0, limit |-> 0, deadline |-> Never,
                     ran |-> FALSE, exhausted |-> FALSE, stalled |-> 0, term |-> "none", delay |-> 0]
  BY DEF Begin
<1>2. RuntimeTypes /\ TimeBehind /\ clock \in Clocks
  BY DEF HartInv, RuntimeTypes
<1>3. PICK w \in Nat, f \in Nat : w = clock.wall * TicksPerMs /\ f = clock.floor
  <2>1. clock.wall \in Nat /\ clock.floor \in Nat /\ TicksPerMs \in Nat
    BY <1>2, Rates DEF Clocks
  <2>2. clock.wall * TicksPerMs \in Nat
    BY <2>1
  <2> QED
    BY <2>1, <2>2
<1>4. PICK a : a = start_guest_ticks
  OBVIOUS
<1>5. a \in Nat /\ a >= f
  <2>1. a = Max({w, f})
    BY <1>3, <1>4 DEF start_guest_ticks
  <2> QED
    BY <2>1, MaxPair
<1>6. quantum' \in Quanta /\ quantum'.start = a /\ quantum'.stalled = 0
  BY <1>1, <1>4, <1>5 DEF Quanta
<1>7. Running' /\ guest_ticks(quantum') >= a /\ guest_ticks(quantum') \in Nat
  BY <1>6, Quantum, QuantumTime DEF Running
<1>8. s.ticks <= f /\ s.ticks \in Nat
  BY <1>1, <1>2, <1>3, InvHart DEF TimeBehind, Harts
<1>9. TimeBehind'
  BY <1>1, <1>5, <1>7, <1>8 DEF TimeBehind
<1>10. TlbInv' /\ DirtyTracked'
  BY <1>1, HartStays
<1>11. RuntimeTypes'
  BY <1>1, <1>2, <1>6 DEF RuntimeTypes
<1> QED
  BY <1>1, <1>6, <1>9, <1>10, <1>11, HostKeeps

\* A quantum is finished or aborted; the floor keeps the time it reached.
LEMMA QuantumEnds ==
  ASSUME HartInv, finish_quantum \/ abort_quantum
  PROVE  HartInv' /\ s' = s
<1>1. /\ mode = "host" /\ Running /\ quantum' = NoQuantum /\ s' = s /\ mode' = mode /\ bus' = bus
      /\ load' = load /\ stale' = stale /\ changed' = changed
  BY DEF finish_quantum, abort_quantum
<1>2. RuntimeTypes /\ TimeBehind /\ clock \in Clocks
  BY DEF HartInv, RuntimeTypes
<1>3. quantum \in Quanta
  BY <1>1, <1>2 DEF RuntimeTypes, Running
<1>4. PICK now \in Nat : now = guest_ticks(quantum)
  BY <1>3, QuantumTime
<1>5. clock' \in Clocks /\ clock'.floor >= now
  <2>1. CASE finish_quantum
    <3>1. PICK due : due = now + quantum.delay - clock.wall * TicksPerMs
      OBVIOUS
    <3>2. PICK request : request = IF quantum.term = "wfi" /\ due > 0 THEN CeilDiv(due, TicksPerMs) ELSE 0
      OBVIOUS
    <3>3. clock' = [clock EXCEPT !.floor = now, !.wake = clock.wall + request]
      BY <1>4, <2>1, <3>1, <3>2 DEF finish_quantum
    <3>4. request \in Nat
      <4>1. CASE quantum.term = "wfi" /\ due > 0
        <5>1. clock.wall \in Nat /\ quantum.delay \in Nat /\ TicksPerMs \in Nat \ {0}
          BY <1>2, <1>3, Rates DEF Clocks, Quanta
        <5>2. clock.wall * TicksPerMs \in Nat
          BY <5>1
        <5>3. due \in Int
          BY <3>1, <5>1, <5>2
        <5>4. due + TicksPerMs - 1 \in Nat
          BY <4>1, <5>1, <5>3
        <5>5. (due + TicksPerMs - 1) \div TicksPerMs \in Nat
          BY <5>1, <5>4, DivMod
        <5> QED
          BY <3>2, <4>1, <5>5 DEF CeilDiv
      <4>2. CASE ~(quantum.term = "wfi" /\ due > 0)
        BY <3>2, <4>2
      <4> QED
        BY <4>1, <4>2
    <3>5. PICK k \in Nat, n \in Nat : k = clock.wall + request /\ n = clock.faults
      BY <1>2, <3>4 DEF Clocks
    <3>6. PICK e : e = [clock EXCEPT !.floor = now, !.wake = k, !.faults = n]
      OBVIOUS
    <3>7. clock' = e
      BY <1>2, <3>3, <3>5, <3>6 DEF Clocks
    <3>8. e \in Clocks /\ e.floor = now
      BY <1>2, <3>6 DEF Clocks
    <3> QED
      BY <3>7, <3>8
  <2>2. CASE abort_quantum
    <3>1. PICK f \in Nat : f = clock.floor
      BY <1>2 DEF Clocks
    <3>2. PICK m : m = Max({f, now})
      OBVIOUS
    <3>3. m \in Nat /\ m >= now
      BY <3>2, MaxPair
    <3>4. clock' = [clock EXCEPT !.floor = m, !.wake = clock.wall, !.faults = clock.faults + 1]
      BY <1>2, <1>4, <2>2, <3>1, <3>2 DEF abort_quantum, Clocks
    <3>5. PICK k \in Nat, n \in Nat : k = clock.wall /\ n = clock.faults + 1
      BY <1>2 DEF Clocks
    <3>6. PICK e : e = [clock EXCEPT !.floor = m, !.wake = k, !.faults = n]
      OBVIOUS
    <3>7. clock' = e
      BY <3>4, <3>5, <3>6
    <3>8. e \in Clocks /\ e.floor = m
      BY <1>2, <3>3, <3>6 DEF Clocks
    <3> QED
      BY <3>3, <3>7, <3>8
  <2> QED
    BY <2>1, <2>2
<1>6. ~Running'
  BY <1>1 DEF Running
<1>7. TimeBehind'
  <2>1. s.ticks <= now /\ s.ticks \in Nat /\ clock'.floor \in Nat
    BY <1>1, <1>2, <1>4, <1>5, InvHart DEF TimeBehind, Harts, Clocks
  <2> QED
    BY <1>1, <1>5, <1>6, <2>1 DEF TimeBehind
<1>8. TlbInv' /\ DirtyTracked'
  BY <1>1, HartStays
<1>9. RuntimeTypes'
  BY <1>1, <1>2, <1>5 DEF RuntimeTypes
<1> QED
  BY <1>1, <1>6, <1>7, <1>8, <1>9, HostKeeps

\* What the host and the devices do between two calls.
LEMMA BetweenKeeps ==
  ASSUME HartInv, mode = "host", mode' = mode, clock' = clock, quantum' = quantum, load' = load,
         bus' \in Buses, s' \in Harts, stale' \in BOOLEAN, s'.ticks = s.ticks,
         s'.power_down = s.power_down, TlbInv', DirtyTracked'
  PROVE  HartInv'
<1>1. RuntimeTypes /\ TimeBehind /\ Progress
  BY DEF HartInv
<1>2. RuntimeTypes'
  BY <1>1 DEF RuntimeTypes
<1>3. TimeBehind'
  BY <1>1 DEF TimeBehind, Running, guest_ticks
<1>4. Running' /\ quantum'.term = "none" /\ quantum'.stalled = 1 => ~s'.power_down
  BY <1>1 DEF Progress, Running
<1> QED
  BY <1>2, <1>3, <1>4, HostKeeps

\* Devices raise and lower their lines.
LEMMA LinesKeep ==
  ASSUME HartInv, DeviceLines
  PROVE  HartInv' /\ s' = s
<1>1. /\ mode = "host" /\ mode' = mode /\ clock' = clock /\ quantum' = quantum /\ load' = load
      /\ s' = s /\ stale' = stale /\ changed' = changed
  BY DEF DeviceLines
<1>2. PICK lines \in SUBSET Guest.irqs : bus' = [bus EXCEPT !.lines = lines]
  BY DEF DeviceLines
<1>3. lines \in SUBSET Irqs
  <2>1. Guest.irqs \subseteq ExternalIrqs
    BY InvHart, WorkloadAssumption DEF Guest
  <2> QED
    BY <2>1 DEF ExternalIrqs, Irqs
<1>4. bus' \in Buses
  BY <1>2, <1>3, InvHart DEF Buses
<1>5. TlbInv' /\ DirtyTracked' /\ s' \in Harts /\ stale' \in BOOLEAN
  BY <1>1, HartStays
<1> QED
  BY <1>1, <1>4, <1>5, BetweenKeeps

\* The host takes dirty bits.
LEMMA CleanKeeps ==
  ASSUME HartInv, TakeDirty \/ ClearDirty
  PROVE  HartInv' /\ s'.ticks = s.ticks /\ s'.pmp = s.pmp
<1>1. mode = "host" /\ mode' = mode /\ clock' = clock /\ quantum' = quantum /\ load' = load /\ bus' = bus
  BY DEF TakeDirty, ClearDirty
<1>2. TlbInv /\ DirtyTracked
  BY DEF HartInv
<1>3. Cleaned(s, s') /\ changed' \subseteq s'.dirty
  <2>1. CASE TakeDirty
    <3>1. s' = take_dirty(s) /\ changed' = {}
      BY <2>1 DEF TakeDirty
    <3> QED
      BY <3>1, InvHart, TakeDirtyEffect
  <2>2. CASE ClearDirty
    <3>1. PICK f \in Tracked : s' = clear_dirty(s, f) /\ changed' = changed \ {f}
      BY <2>2 DEF ClearDirty
    <3>2. Cleaned(s, clear_dirty(s, f)) /\ clear_dirty(s, f).dirty = s.dirty \ {f}
      BY InvHart, ClearDirtyEffect
    <3> QED
      BY <1>2, <3>1, <3>2 DEF DirtyTracked
  <2> QED
    BY <2>1, <2>2
<1>4. stale' = (stale /\ s'.tlb # tlb_init)
  BY DEF TakeDirty, ClearDirty
<1>5. stale' \in BOOLEAN /\ (~stale' => s'.tlb = tlb_init \/ ~stale)
  BY <1>4
<1>6. s' \in Harts /\ Keeps(s, s', {"tlb", "dirty"}) /\ WriteMarked(s') /\ Faithful(s, s')
  BY <1>3 DEF Cleaned
<1>7. s'.ticks = s.ticks /\ s'.power_down = s.power_down /\ s'.flags = s.flags /\ s'.priv = s.priv
      /\ s'.pmp = s.pmp
  BY <1>6 DEF Keeps, Fields
<1>8. MprvOk(s')
  BY <1>7, InvHart DEF MprvOk
<1>9. TlbInv'
  BY <1>2, <1>5, <1>6, <1>8, TlbStep
<1>10. DirtyTracked'
  BY <1>3 DEF DirtyTracked
<1> QED
  BY <1>1, <1>5, <1>6, <1>7, <1>9, <1>10, InvHart, BetweenKeeps

LEMMA HostWriteKeeps ==
  ASSUME HartInv, HostWrite
  PROVE  HartInv' /\ s'.ticks = s.ticks /\ s'.pmp = s.pmp
<1>1. mode = "host" /\ mode' = mode /\ clock' = clock /\ quantum' = quantum /\ load' = load /\ bus' = bus
  BY DEF HostWrite
<1>2. PICK d \in Guest.dma : Noted(host_write(s, d.frame, d.i, d.w), TRUE)
  BY DEF HostWrite
<1>3. d.frame \in Frames /\ d.i \in Places /\ d.w \in Words
  BY <1>2, InvHart, WorkloadAssumption DEF Guest, Places
<1>4. PICK u : u = host_write(s, d.frame, d.i, d.w)
  OBVIOUS
<1>5. Accessed(s, u)
  BY <1>3, <1>4, InvHart, HostWriteEffect
<1>6. Records(u)
  BY <1>2, <1>4, NotedWrite
<1>7. s' = u /\ stale' \in BOOLEAN /\ changed' = changed \union {f \in Tracked : s'.mem[f] # s.mem[f]}
      /\ (~stale' => s'.tlb = tlb_init \/ (~stale /\ Faithful(s, s')))
  BY <1>6 DEF Records
<1>8. s' \in Harts /\ Keeps(s, s', {"mem", "dirty", "tlb"}) /\ Marks(s, s') /\ WriteMarked(s')
  BY <1>5, <1>7 DEF Accessed
<1>9. s'.ticks = s.ticks /\ s'.power_down = s.power_down /\ s'.flags = s.flags /\ s'.priv = s.priv
      /\ s'.pmp = s.pmp
  BY <1>8 DEF Keeps, Fields
<1>10. MprvOk(s')
  BY <1>9, InvHart DEF MprvOk
<1>11. TlbInv /\ DirtyTracked
  BY DEF HartInv
<1>12. TlbInv' /\ DirtyTracked'
  BY <1>7, <1>8, <1>10, <1>11, TlbStep, MarksTracked
<1> QED
  BY <1>1, <1>7, <1>8, <1>9, <1>12, InvHart, BetweenKeeps

\* The limit that a run gets.
LEMMA LimitExact ==
  ASSUME NEW q \in Quanta, NEW due, due = Never \/ (due \in Nat /\ due > guest_ticks(q)),
         NEW rest, rest = Budget - q.consumed, rest > 0,
         NEW l, l = IF due = Never THEN rest
                    ELSE Min({rest, cycles_until_deadline(q, due - guest_ticks(q))})
  PROVE  /\ l \in Nat /\ l >= 1
         /\ l < rest => /\ Time(q.start, q.consumed + l) >= due
                        /\ l > 1 => Time(q.start, q.consumed + (l - 1)) < due
<1>1. rest \in Nat
  BY Rates, Quantum
<1>2. CASE due = Never
  BY <1>1, <1>2
<1>3. CASE due # Never
  <2>1. due \in Nat /\ due > guest_ticks(q)
    BY <1>3
  <2>2. PICK c : c = cycles_until_deadline(q, due - guest_ticks(q))
    OBVIOUS
  <2>3. /\ c \in Nat \ {0}
        /\ Time(q.start, q.consumed + c) >= due
        /\ c > 1 => Time(q.start, q.consumed + (c - 1)) < due
    BY <2>1, <2>2, CyclesExact
  <2>4. l = Min({rest, c})
    BY <1>3, <2>2
  <2>5. l \in {rest, c}
    <3>1. rest \in Int /\ c \in Int
      BY <1>1, <2>3
    <3>2. Min({rest, c}) \in {rest, c}
      BY ONLY <3>1, MinPair
    <3> QED
      BY ONLY <2>4, <3>2
  <2>6. CASE l = c
    BY ONLY <2>3, <2>6
  <2>7. CASE l = rest
    BY ONLY <1>1, <2>7, rest > 0
  <2> QED
    BY <2>5, <2>6, <2>7
<1> QED
  BY <1>2, <1>3

\* run_active_quantum up to the interpreter.
LEMMA StartKeeps ==
  ASSUME HartInv, StartRun
  PROVE  HartInv' /\ s.ticks <= s'.ticks /\ s'.pmp = s.pmp
<1>1. PICK now : now = guest_ticks(quantum)
  OBVIOUS
<1>2. PICK t : t = present_guest_clocks(s, now)
  OBVIOUS
<1>3. PICK due : due = next_timer(t, bus, now)
  OBVIOUS
<1>4. PICK rest : rest = Budget - quantum.consumed
  OBVIOUS
<1>5. PICK l : l = IF due = Never THEN rest
                   ELSE Min({rest, cycles_until_deadline(quantum, due - guest_ticks(quantum))})
  OBVIOUS
<1>6. /\ mode = "host" /\ Running /\ quantum.term = "none" /\ rest > 0
      /\ Noted(RunCpu(t), FALSE)
      /\ quantum' = [quantum EXCEPT !.limit = l, !.deadline = due, !.ran = FALSE, !.exhausted = FALSE]
      /\ mode' = "loop" /\ bus' = bus /\ clock' = clock /\ load' = load
  BY <1>1, <1>2, <1>3, <1>4, <1>5 DEF StartRun
<1>7. RuntimeTypes /\ TimeBehind /\ Progress /\ TlbInv /\ DirtyTracked
  BY DEF HartInv
<1>8. quantum \in Quanta
  BY <1>6, <1>7 DEF RuntimeTypes, Running
<1>9. now \in Nat
  BY <1>1, <1>8, QuantumTime
<1>10. /\ t \in Harts /\ Keeps(s, t, {"ticks", "mip", "power_down"}) /\ t.ticks = now
       /\ TimerExact(t) /\ (~s.power_down => ~t.power_down)
  BY <1>2, <1>9, InvHart, PresentEffect
<1>11. due = Never \/ (due \in Nat /\ due > now)
  BY <1>3, <1>9, <1>10, InvHart, NextTimer
<1>12. /\ l \in Nat /\ l >= 1
       /\ l < rest => /\ Time(quantum.start, quantum.consumed + l) >= due
                      /\ l > 1 => Time(quantum.start, quantum.consumed + (l - 1)) < due
  BY <1>1, <1>4, <1>5, <1>6, <1>8, <1>11, LimitExact
<1>13. /\ quantum' \in Quanta /\ quantum'.start = quantum.start /\ quantum'.consumed = quantum.consumed
       /\ quantum'.limit = l /\ quantum'.deadline = due /\ ~quantum'.ran
       /\ quantum'.term = quantum.term /\ quantum'.stalled = quantum.stalled
       /\ guest_ticks(quantum') = guest_ticks(quantum)
  <2>1. due \in Nat \union {Never}
    BY <1>11
  <2>2. quantum' \in Quanta
    BY <1>6, <1>8, <1>12, <2>1 DEF Quanta
  <2>3. /\ quantum'.start = quantum.start /\ quantum'.consumed = quantum.consumed
        /\ quantum'.limit = l /\ quantum'.deadline = due /\ quantum'.ran = FALSE
        /\ quantum'.term = quantum.term /\ quantum'.stalled = quantum.stalled
    BY <1>6, <1>8 DEF Quanta
  <2> QED
    BY <2>2, <2>3 DEF guest_ticks
<1>14. PICK u : u = RunCpu(t)
  OBVIOUS
<1>15. u \in Harts /\ Keeps(t, u, {"service", "reprogrammed"}) /\ ~u.service /\ ~u.reprogrammed
  <2>1. PICK x \in BOOLEAN : x = FALSE
    OBVIOUS
  <2>2. u = [t EXCEPT !.service = x, !.reprogrammed = x]
    BY <1>14, <2>1 DEF RunCpu
  <2>3. u \in Harts /\ Keeps(t, u, {"service", "reprogrammed"}) /\ u.service = x /\ u.reprogrammed = x
    BY <1>10, <2>2, Asked
  <2> QED
    BY <2>1, <2>3
<1>16. /\ u.ticks = t.ticks /\ u.mip = t.mip /\ u.menvcfg = t.menvcfg /\ u.stimecmp = t.stimecmp
       /\ u.power_down = t.power_down
  BY <1>15 DEF Keeps, Fields
<1>17. Presented(s, u)
  BY <1>10, <1>15 DEF Presented, Keeps
<1>18. MprvOk(u) /\ WriteMarked(u) /\ Marks(s, u) /\ Faithful(s, u)
  BY <1>17, InvHart, PresentedKeeps
<1>19. Records(u)
  BY <1>6, <1>14, <1>18, NotedQuiet
<1>20. /\ s' = u /\ stale' \in BOOLEAN /\ changed' = changed \union {f \in Tracked : s'.mem[f] # s.mem[f]}
       /\ (~stale' => s'.tlb = tlb_init \/ (~stale /\ Faithful(s, s')))
  BY <1>19 DEF Records
<1>21. TlbInv' /\ DirtyTracked'
  BY <1>7, <1>18, <1>20, TlbStep, MarksTracked
<1>22. RuntimeTypes'
  BY <1>6, <1>7, <1>13, <1>15, <1>20 DEF RuntimeTypes, Going
<1>23. Running'
  BY <1>13, Quantum DEF Running
<1>24. InQuantum'
  BY <1>6, <1>12, <1>13, <1>23 DEF InQuantum
<1>25. TimeBehind'
  BY <1>1, <1>9, <1>10, <1>13, <1>16, <1>20, <1>23 DEF TimeBehind
<1>26. Progress'
  BY <1>6, <1>7, <1>10, <1>13, <1>15, <1>16, <1>20 DEF Progress
<1>27. OnTime'
  <2>1. TimerExact(u) /\ stimecmp(u) = stimecmp(t)
    BY <1>10, <1>16 DEF TimerExact, stimecmp
  <2>2. next_timer(u, bus, now) = due
    BY <1>3, <2>1, SameDeadline
  <2>3. LimitOk(quantum')
    BY <1>4, <1>12, <1>13 DEF LimitOk
  <2> QED
    BY <1>6, <1>10, <1>13, <1>16, <1>20, <2>1, <2>2, <2>3 DEF OnTime
<1>28. s.ticks <= s'.ticks
  <2>1. s.ticks <= guest_ticks(quantum)
    BY <1>6, <1>7 DEF TimeBehind
  <2> QED
    BY <1>1, <1>10, <1>16, <1>20, <2>1
<1>29. s'.pmp = s.pmp
  BY <1>17, <1>20 DEF Presented, Keeps, Fields
<1> QED
  BY <1>21, <1>22, <1>24, <1>25, <1>26, <1>27, <1>28, <1>29 DEF HartInv

\* A run without a cycle has only found the hart asleep, and so for the first time.
LEMMA CyclesTaken ==
  ASSUME HartInv, mode = "exit", NEW n \in Consumed
  PROVE  /\ n \in Nat
         /\ n = 0 => Reason = "wfi" /\ quantum.stalled = 0
<1>1. RuntimeTypes /\ InQuantum /\ Progress
  BY DEF HartInv
<1>2. Running /\ quantum.limit >= 1 /\ quantum \in Quanta
  BY <1>1 DEF InQuantum, RuntimeTypes, Running
<1>3. quantum.limit \in Nat /\ quantum.ran \in BOOLEAN /\ quantum.exhausted \in BOOLEAN /\ quantum.stalled \in 0 .. 1
  BY <1>2 DEF Quanta
<1>4. PICK low \in Nat : /\ low = IF quantum.exhausted THEN quantum.limit ELSE IF quantum.ran THEN 1 ELSE 0
                         /\ quantum.ran => low >= 1
  BY <1>2, <1>3
<1>5. PICK high \in Nat : high = IF quantum.ran THEN quantum.limit + Overshoot ELSE 0
  BY <1>3, Rates
<1>6. n \in low .. high
  BY <1>4, <1>5 DEF Consumed
<1>7. n \in Nat /\ (n = 0 => ~quantum.ran)
  BY <1>3, <1>4, <1>6
<1>8. ASSUME n = 0 PROVE Reason = "wfi" /\ quantum.stalled = 0
  <2>1. ~s.service /\ ~s.reprogrammed /\ s.power_down /\ (quantum.stalled = 1 => ~s.power_down)
    BY <1>1, <1>7, <1>8 DEF Progress
  <2>2. Reason = "wfi"
    BY <2>1 DEF Reason
  <2>3. quantum.stalled = 0
    BY <1>3, <2>1
  <2> QED
    BY <2>2, <2>3
<1> QED
  BY <1>7, <1>8

\* The hart that a run leaves: reset or not, and told of time if it sleeps.
Left(u, now) ==
  /\ u \in Harts /\ MprvOk(u) /\ WriteMarked(u) /\ Faithful(s, u) /\ Marks(s, u)
  /\ s.ticks <= u.ticks /\ u.ticks <= now

\* Whatever a run did, what it leaves is current, marked and not in the future.
LEMMA RunLeaves ==
  ASSUME HartInv, NEW b, NEW now \in Nat, s.ticks <= now,
         NEW h, h = IF bus.reset THEN HartReset(s) ELSE s,
         NEW u, u = set_interrupts(h, interrupt_mask(b, s.ticks)),
         NEW t, t = IF Reason = "wfi" THEN present_guest_clocks(u, now) ELSE u
  PROVE  Left(t, now)
<1>1. s \in Harts /\ MprvOk(s) /\ WriteMarked(s) /\ s.ticks \in Nat
  BY InvHart DEF Harts
<1>2. /\ h \in Harts /\ MprvOk(h) /\ WriteMarked(h) /\ Faithful(s, h) /\ Marks(s, h)
      /\ h.ticks = s.ticks
  <2>1. CASE bus.reset
    <3>1. /\ h \in Harts /\ h.tlb = tlb_init /\ h.mem = s.mem /\ h.dirty = s.dirty /\ h.ticks = s.ticks
          /\ MprvOk(h)
      BY <1>1, <2>1, ResetEffect
    <3>2. Current(h) /\ WriteMarked(h)
      BY <3>1, EmptyTlb
    <3> QED
      BY <3>1, <3>2 DEF Faithful, Marks
  <2>2. CASE ~bus.reset
    BY <1>1, <2>2 DEF Faithful, Marks
  <2> QED
    BY <2>1, <2>2
<1>3. u \in Harts /\ Keeps(h, u, {"mip", "power_down"})
  BY <1>2, SetInterruptsEffect DEF Signalled
<1>4. u.ticks = s.ticks
  BY <1>2, <1>3 DEF Keeps, Fields
<1>5. Presented(h, t) /\ s.ticks <= t.ticks /\ t.ticks <= now
  <2>1. CASE Reason = "wfi"
    <3>1. t = present_guest_clocks(u, now)
      BY <2>1
    <3>2. t \in Harts /\ Keeps(u, t, {"ticks", "mip", "power_down"}) /\ t.ticks = now
      BY <1>3, <3>1, PresentEffect
    <3>3. Presented(h, t)
      BY <1>3, <3>2 DEF Presented, Keeps
    <3> QED
      BY <3>2, <3>3
  <2>2. CASE Reason # "wfi"
    <3>1. t = u
      BY <2>2
    <3>2. Presented(h, t)
      BY <1>3, <3>1 DEF Presented, Keeps
    <3> QED
      BY <1>1, <1>4, <3>1, <3>2
  <2> QED
    BY <2>1, <2>2
<1>6. MprvOk(t) /\ WriteMarked(t) /\ Marks(h, t) /\ Faithful(h, t)
  BY <1>2, <1>5, PresentedKeeps
<1>7. Marks(s, t)
  BY <1>2, <1>6, MarksThen
<1>8. Faithful(s, t)
  BY <1>2, <1>6, FaithfulThen
<1>9. t \in Harts
  BY <1>5 DEF Presented
<1> QED
  BY <1>5, <1>6, <1>7, <1>8, <1>9 DEF Left

\* run_active_quantum after the interpreter.
LEMMA EndKeeps ==
  ASSUME HartInv, RunEnds
  PROVE  HartInv' /\ s.ticks <= s'.ticks
<1>1. PICK n \in Consumed : EndRun(n)
  BY DEF RunEnds
<1>2. mode = "exit" /\ RuntimeTypes /\ InQuantum /\ TimeBehind /\ TlbInv /\ DirtyTracked
  BY DEF RunEnds, HartInv
<1>3. Running /\ quantum.term = "none" /\ quantum \in Quanta
  BY <1>2 DEF InQuantum, RuntimeTypes, Running
<1>4. n \in Nat /\ (n = 0 => Reason = "wfi" /\ quantum.stalled = 0)
  BY <1>2, CyclesTaken
<1>5. PICK m : m = Counted(n)
  OBVIOUS
<1>6. m \in Nat
  BY <1>4, <1>5 DEF Counted
<1>7. PICK z : z = IF n = 0 THEN quantum.stalled + 1 ELSE 0
  OBVIOUS
<1>8. z \in 0 .. 1 /\ (z = 1 => Reason = "wfi")
  BY <1>4, <1>7
<1>9. PICK q : q = [quantum EXCEPT !.consumed = quantum.consumed + m, !.stalled = z]
  OBVIOUS
<1>10. q \in Quanta /\ q.start = quantum.start /\ q.consumed = quantum.consumed + m /\ q.stalled = z
  <2>1. PICK c \in Nat : c = quantum.consumed + m
    BY <1>3, <1>6, Quantum
  <2>2. q = [quantum EXCEPT !.consumed = c, !.stalled = z]
    BY <1>9, <2>1
  <2>3. q.start = quantum.start /\ q.consumed = c /\ q.stalled = z
    BY <1>3, <2>2 DEF Quanta
  <2>4. q \in Quanta
    BY <1>3, <1>8, <2>2 DEF Quanta
  <2> QED
    BY <2>1, <2>3, <2>4
<1>11. PICK now \in Nat : now = guest_ticks(q)
  BY <1>10, QuantumTime
<1>12. s.ticks <= now /\ s.ticks \in Nat
  <2>1. PICK a \in Nat, k \in Nat, j \in Nat : a = quantum.start /\ k = quantum.consumed /\ j = k + m
    BY <1>3, <1>6, Quantum
  <2>2. Time(a, k) <= Time(a, j) /\ Time(a, k) \in Nat /\ Time(a, j) \in Nat
    <3>1. k <= j
      BY <1>6, <2>1
    <3> QED
      BY ONLY a \in Nat, k \in Nat, j \in Nat, <3>1, TimeOrder
  <2>3. guest_ticks(quantum) = Time(a, k) /\ now = Time(a, j)
    BY <1>3, <1>10, <1>11, <2>1, QuantumTime
  <2>4. s.ticks <= guest_ticks(quantum) /\ s.ticks \in Nat
    BY <1>2, <1>3, InvHart DEF TimeBehind, Harts
  <2> QED
    BY <2>2, <2>3, <2>4
<1>13. PICK b : b = IF bus.reset THEN BusReset ELSE bus
  OBVIOUS
<1>14. PICK h : h = IF bus.reset THEN HartReset(s) ELSE s
  OBVIOUS
<1>15. PICK u : u = set_interrupts(h, interrupt_mask(b, s.ticks))
  OBVIOUS
<1>16. PICK t : t = IF Reason = "wfi" THEN present_guest_clocks(u, now) ELSE u
  OBVIOUS
<1>17. PICK due : due = next_timer(t, bus, now)
  OBVIOUS
<1>18. PICK asleep \in BOOLEAN : asleep = (Reason = "wfi" /\ t.power_down)
  OBVIOUS
<1>19. PICK delay : delay = IF due = Never THEN MaxWakeDelay ELSE Min({due - now, MaxWakeDelay})
  OBVIOUS
<1>20. PICK term : term = IF asleep THEN "wfi" ELSE IF q.consumed >= Budget THEN "budget" ELSE "none"
  OBVIOUS
<1>21. PICK wait : wait = IF asleep THEN delay ELSE 0
  OBVIOUS
<1>22. /\ Noted(t, FALSE) /\ bus' = b
       /\ mode' = (IF q.stalled > 1 \/ (Reason = "limit" /\ n = 0) THEN "failed" ELSE "host")
       /\ quantum' = [q EXCEPT !.term = term, !.delay = wait]
       /\ clock' = clock /\ load' = load
  <2>1. q = [quantum EXCEPT !.consumed = @ + Counted(n), !.stalled = IF n = 0 THEN @ + 1 ELSE 0]
    BY <1>3, <1>5, <1>7, <1>9 DEF Quanta
  <2> QED
    BY <1>1, <1>11, <1>13, <1>14, <1>15, <1>16, <1>17, <1>18, <1>19, <1>20, <1>21, <2>1 DEF EndRun
<1>23. Left(t, now)
  BY <1>11, <1>12, <1>14, <1>15, <1>16, RunLeaves
<1>24. /\ t \in Harts /\ MprvOk(t) /\ WriteMarked(t) /\ Faithful(s, t) /\ Marks(s, t)
       /\ s.ticks <= t.ticks /\ t.ticks <= now
  BY <1>23 DEF Left
<1>25. Records(t)
  BY <1>22, <1>24, NotedQuiet
<1>26. /\ s' = t /\ stale' \in BOOLEAN /\ changed' = changed \union {f \in Tracked : s'.mem[f] # s.mem[f]}
       /\ (~stale' => s'.tlb = tlb_init \/ (~stale /\ Faithful(s, s')))
  BY <1>25 DEF Records
<1>27. TlbInv' /\ DirtyTracked'
  BY <1>2, <1>24, <1>26, TlbStep, MarksTracked
<1>28. mode' = "host"
  BY <1>4, <1>8, <1>10, <1>22
<1>29. wait \in Nat
  <2>1. due = Never \/ (due \in Nat /\ due > now)
    BY <1>11, <1>17, <1>24, InvHart, NextTimer
  <2>2. CASE due = Never
    BY <1>19, <1>21, <2>2, Rates
  <2>3. CASE due # Never
    <3>1. PICK x \in Nat : x = due - now
      BY <2>1, <2>3
    <3>2. MaxWakeDelay \in Int /\ x \in Int /\ MaxWakeDelay \in Nat
      BY Rates
    <3>3. Min({x, MaxWakeDelay}) \in {x, MaxWakeDelay}
      BY ONLY <3>2, MinPair
    <3> QED
      BY <1>19, <1>21, <2>3, <3>1, <3>2, <3>3
  <2> QED
    BY <2>2, <2>3
<1>30. term \in {"none", "wfi", "budget"} /\ (term = "none" => ~asleep)
  BY <1>20
<1>31. /\ quantum' \in Quanta /\ quantum'.term = term /\ quantum'.stalled = z
       /\ quantum'.start = q.start /\ quantum'.consumed = q.consumed
  BY <1>10, <1>22, <1>29, <1>30 DEF Quanta
<1>32. Running' /\ guest_ticks(quantum') = now
  BY <1>11, <1>31, Quantum DEF Running, guest_ticks
<1>33. TimeBehind'
  BY <1>24, <1>26, <1>32 DEF TimeBehind
<1>34. bus' \in Buses
  <2>1. BusReset \in Buses
    BY DEF BusReset, Buses
  <2> QED
    BY <1>13, <1>22, <2>1, InvHart
<1>35. RuntimeTypes'
  BY <1>2, <1>22, <1>24, <1>26, <1>28, <1>31, <1>34 DEF RuntimeTypes
<1>36. quantum'.term = "none" /\ quantum'.stalled = 1 => ~s'.power_down
  BY <1>8, <1>18, <1>26, <1>30, <1>31
<1> QED
  BY <1>24, <1>26, <1>27, <1>28, <1>33, <1>35, <1>36, HostKeeps

-----------------------------------------------------------------------------
(* The theorems.                                                           *)

LEMMA InitHolds == Init => HartInv
<1> SUFFICES ASSUME Init PROVE HartInv
  OBVIOUS
<1>1. /\ load \in DOMAIN Workloads /\ s = Workloads[load].start /\ mode = "host"
      /\ bus = [lines |-> {}, msip |-> FALSE, mtimecmp |-> Never, reset |-> FALSE]
      /\ clock = [wall |-> 0, floor |-> 0, wake |-> 0, faults |-> 0]
      /\ quantum = NoQuantum /\ stale = FALSE /\ changed = {}
  BY DEF Init
<1>2. StartOk(s)
  BY <1>1, WorkloadAssumption
<1>3. s \in Harts /\ s.tlb = tlb_init /\ s.ticks = 0 /\ MprvOk(s)
  BY <1>2 DEF StartOk, MprvOk
<1>4. RuntimeTypes
  BY <1>1, <1>3 DEF RuntimeTypes, Buses, Clocks
<1>5. InQuantum /\ Progress /\ OnTime /\ TimeBehind
  BY <1>1, <1>3 DEF InQuantum, Progress, OnTime, TimeBehind, Running, Going
<1>6. TlbInv /\ DirtyTracked
  BY <1>1, <1>3, EmptyTlb DEF TlbInv, DirtyTracked
<1> QED
  BY <1>4, <1>5, <1>6 DEF HartInv

LEMMA StepKeeps == HartInv /\ [Next]_vars => HartInv'
<1> SUFFICES ASSUME HartInv, [Next]_vars PROVE HartInv'
  OBVIOUS
<1>1. CASE Interpreter
  BY <1>1, InterpreterSteps, MoveKeeps, RanKeeps
<1>2. CASE Runtime
  BY <1>2, BeginKeeps, StartKeeps, EndKeeps, QuantumEnds DEF Runtime, Wakeup, EarlyWakeup
<1>3. CASE World
  BY <1>3, TickKeeps, LinesKeep, CleanKeeps, HostWriteKeeps DEF World
<1>4. CASE UNCHANGED vars
  BY <1>4, InvHart, ClockKeeps DEF vars
<1> QED
  BY <1>1, <1>2, <1>3, <1>4 DEF Next

\* The hart, its TLBs, the guest clock and the quantum stay consistent in every
\* order of instructions, traps, timers, device accesses and host calls.
THEOREM HartInvariant == Spec => []HartInv
<1>1. Init => HartInv
  BY InitHolds
<1>2. HartInv /\ [Next]_vars => HartInv'
  BY StepKeeps
<1> QED
  BY <1>1, <1>2, PTL DEF Spec

\* A cached translation is the one that a walk of the page tables gives now.
THEOREM TlbCurrentAlways == Spec => []TlbCurrent
<1>1. HartInv => TlbCurrent
  BY DEF HartInv, TlbInv, TlbCurrent, Current, MprvOk, Slots
<1> QED
  BY <1>1, HartInvariant, PTL

\* A tracked frame that changed is marked dirty until the host takes the mark.
THEOREM DirtyTrackedAlways == Spec => []DirtyTracked
<1>1. HartInv => DirtyTracked
  BY DEF HartInv
<1> QED
  BY <1>1, HartInvariant, PTL

\* A run ends at the first cycle that reaches the next deadline, and the
\* runtime's error for a CPU without progress cannot occur.
THEOREM DeadlineKeptAlways == Spec => []DeadlineKept
<1>1. HartInv => DeadlineKept
  <2> SUFFICES ASSUME HartInv PROVE DeadlineKept
    OBVIOUS
  <2>1. RuntimeTypes /\ InQuantum /\ OnTime
    BY DEF HartInv
  <2>2. NeverStalled
    BY <2>1 DEF RuntimeTypes, NeverStalled, Going
  <2>3. RunsToDeadline
    <3> SUFFICES ASSUME mode \in {"block", "insn"}, ~s.service
                 PROVE  /\ quantum.deadline = next_timer(s, bus, s.ticks)
                        /\ quantum.limit < Budget - quantum.consumed =>
                             LET at(n) == guest_ticks([quantum EXCEPT !.consumed = @ + n])
                             IN  /\ at(quantum.limit) >= quantum.deadline
                                 /\ quantum.limit > 1 => at(quantum.limit - 1) < quantum.deadline
      BY DEF RunsToDeadline
    <3>1. mode \in Going /\ mode # "host"
      BY DEF Going
    <3>2. LimitOk(quantum) /\ quantum.deadline = next_timer(s, bus, s.ticks)
      BY <2>1, <3>1 DEF OnTime
    <3>3. quantum \in Quanta
      BY <2>1, <3>1 DEF InQuantum, RuntimeTypes, Running
    <3>4. \A n : guest_ticks([quantum EXCEPT !.consumed = @ + n]) = Time(quantum.start, quantum.consumed + n)
      BY <3>3 DEF Quanta, guest_ticks, Time
    <3> QED
      BY <3>2, <3>4 DEF LimitOk
  <2> QED
    BY <2>2, <2>3 DEF DeadlineKept
<1> QED
  BY <1>1, HartInvariant, PTL

\* What every step does to the guest's time and to the protected registers.
LEMMA StepConfines ==
  ASSUME HartInv, Next
  PROVE  /\ s'.ticks >= s.ticks
         /\ mode = "insn" => Confines(s, s')
         /\ mode # "exit" => PmpKept(s, s')
<1>1. s.ticks \in Nat /\ s \in Harts /\ MprvOk(s) /\ WriteMarked(s)
  BY InvHart DEF Harts
<1>2. CASE Interpreter
  <2>1. Executes(s, s')
    BY <1>2, InterpreterSteps DEF MoveStep, RanStep
  <2>2. Confines(s, s') /\ s'.ticks = s.ticks
    BY <2>1 DEF Executes, TimerKept
  <2> QED
    BY <1>1, <2>2 DEF Confines
<1>3. CASE Tick \/ StepBack \/ Begin \/ finish_quantum \/ abort_quantum \/ DeviceLines
  <2>1. s' = s
    BY <1>3, TickKeeps, BeginKeeps, QuantumEnds, LinesKeep
  <2>2. Confines(s, s)
    BY <1>1, NothingControls DEF Controls
  <2> QED
    BY <1>1, <2>1, <2>2 DEF Confines
<1>4. CASE TakeDirty \/ ClearDirty \/ HostWrite \/ StartRun
  <2>1. mode = "host"
    BY <1>4 DEF TakeDirty, ClearDirty, HostWrite, StartRun
  <2>2. s.ticks <= s'.ticks /\ s'.pmp = s.pmp /\ HartInv'
    BY <1>1, <1>4, CleanKeeps, HostWriteKeeps, StartKeeps
  <2>3. s'.ticks \in Nat
    BY <2>2 DEF HartInv, RuntimeTypes, Harts
  <2> QED
    BY <1>1, <2>1, <2>2, <2>3 DEF PmpKept
<1>5. CASE RunEnds
  <2>1. mode = "exit"
    BY <1>5 DEF RunEnds
  <2>2. s.ticks <= s'.ticks /\ HartInv'
    BY <1>5, EndKeeps
  <2>3. s'.ticks \in Nat
    BY <2>2 DEF HartInv, RuntimeTypes, Harts
  <2> QED
    BY <1>1, <2>1, <2>2, <2>3
<1> QED
  BY <1>2, <1>3, <1>4, <1>5 DEF Next, Runtime, World, Wakeup, EarlyWakeup

\* The guest never sees its clock go back, whatever the host's clock does.
THEOREM GuestTimeNeverBack == Spec => GuestTimeMonotone
<1>1. HartInv /\ [Next]_vars => [s'.ticks >= s.ticks]_vars
  BY StepConfines
<1> QED
  BY <1>1, HartInvariant, PTL DEF Spec, GuestTimeMonotone

\* No instruction changes what belongs to a more privileged mode without a
\* trap, and a locked memory protection entry changes in a reset only.
THEOREM ConfinedAlways == Spec => Confined
<1>1. HartInv /\ [Next]_vars =>
      [/\ mode = "insn" /\ s.priv < PRV_M /\ s'.priv < PRV_M => MachineState(s') = MachineState(s)
       /\ mode = "insn" /\ s.priv = PRV_U /\ s'.priv = PRV_U => SupervisorState(s') = SupervisorState(s)
       /\ mode = "insn" /\ s.priv = PRV_S =>
            /\ s'.stimecmp # s.stimecmp => "STCE" \in s.menvcfg /\ 1 \in s.mcounteren
            /\ s'.satp # s.satp => "TVM" \notin s.flags
       /\ mode # "exit" =>
            \A e \in PmpEntries :
                /\ s.pmp[e].lock => s'.pmp[e] = s.pmp[e]
                /\ s.pmp[e].lock /\ s.pmp[e].a = "tor" /\ e - 1 \in PmpEntries =>
                       s'.pmp[e - 1].addr = s.pmp[e - 1].addr]_vars
  <2> SUFFICES ASSUME HartInv, Next
               PROVE  /\ mode = "insn" /\ s.priv < PRV_M /\ s'.priv < PRV_M => MachineState(s') = MachineState(s)
                      /\ mode = "insn" /\ s.priv = PRV_U /\ s'.priv = PRV_U =>
                           SupervisorState(s') = SupervisorState(s)
                      /\ mode = "insn" /\ s.priv = PRV_S =>
                           /\ s'.stimecmp # s.stimecmp => "STCE" \in s.menvcfg /\ 1 \in s.mcounteren
                           /\ s'.satp # s.satp => "TVM" \notin s.flags
                      /\ mode # "exit" =>
                           \A e \in PmpEntries :
                             /\ s.pmp[e].lock => s'.pmp[e] = s.pmp[e]
                             /\ s.pmp[e].lock /\ s.pmp[e].a = "tor" /\ e - 1 \in PmpEntries =>
                                  s'.pmp[e - 1].addr = s.pmp[e - 1].addr
    OBVIOUS
  <2>1. (mode = "insn" => Confines(s, s')) /\ (mode # "exit" => PmpKept(s, s'))
    BY StepConfines
  <2> QED
    BY <2>1 DEF Confines, PmpKept
<1> QED
  BY <1>1, HartInvariant, PTL DEF Spec, Confined

=============================================================================
