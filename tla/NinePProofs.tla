----------------------------- MODULE NinePProofs ----------------------------
(***************************************************************************)
(* Proofs about the resident file tree and the sessions that use it        *)
(* (NineP).                                                                *)
(***************************************************************************)
EXTENDS NineP, OrderLemmas

-----------------------------------------------------------------------------
(* Sums over a finite set.                                                 *)

Sum(w, S) == MapThenSumSet(LAMBDA i : w[i], S)
Picks(S) == [s \in SUBSET S |-> CHOOSE x \in s : TRUE]
Adder(w, S) == [x \in S |-> [v \in Nat |-> w[x] + v]]

\* The sum is a fold, in the order of CHOOSE.
LEMMA SumFolds ==
  ASSUME NEW S, IsFiniteSet(S), NEW w, \A x \in S : w[x] \in Nat
  PROVE  \E f : Folds(f, S, Nat, 0, Picks(S), Adder(w, S)) /\ Sum(w, S) = f[S]
<1> DEFINE F(f) == [s \in SUBSET S |-> IF s = {} THEN 0
                                       ELSE w[CHOOSE x \in s : TRUE] + f[s \ {CHOOSE x \in s : TRUE}]]
           iter == CHOOSE f : f = F(f)
<1>1. Sum(w, S) = iter[S]
  BY DEF Sum, MapThenSumSet, MapThenFoldSet
<1>2. \A s \in SUBSET S : s # {} => Picks(S)[s] = (CHOOSE x \in s : TRUE) /\ Picks(S)[s] \in s
  BY DEF Picks
<1>3. Adder(w, S) \in [S -> [Nat -> Nat]]
  BY DEF Adder
<1>4. PICK f : Folds(f, S, Nat, 0, Picks(S), Adder(w, S))
  <2>1. \A s \in SUBSET S : s # {} => Picks(S)[s] \in s
    BY <1>2
  <2> QED
    BY <1>3, <2>1, FoldRecursion
<1>5. \A g : Folds(g, S, Nat, 0, Picks(S), Adder(w, S)) => g = F(g)
  <2> SUFFICES ASSUME NEW g, Folds(g, S, Nat, 0, Picks(S), Adder(w, S)) PROVE g = F(g)
    OBVIOUS
  <2>1. ASSUME NEW s \in SUBSET S, s # {}
        PROVE  g[s] = w[CHOOSE x \in s : TRUE] + g[s \ {CHOOSE x \in s : TRUE}]
    <3>1. PICK y \in s : y = (CHOOSE x \in s : TRUE) /\ y = Picks(S)[s]
      BY <1>2, <2>1
    <3>2. g[s \ {y}] \in Nat /\ g[s] = Adder(w, S)[y][g[s \ {y}]]
      BY <2>1, <3>1 DEF Folds
    <3>3. g[s] = w[y] + g[s \ {y}]
      BY <3>2 DEF Adder
    <3> QED
      BY <3>1, <3>3
  <2>2. g \in [SUBSET S -> Nat] /\ g[{}] = 0
    BY DEF Folds
  <2> QED
    BY <2>1, <2>2
<1>6. iter = F(iter)
  <2>1. \E g : g = F(g)
    BY <1>4, <1>5
  <2> HIDE DEF F
  <2> QED
    BY <2>1, Zenon
<1>7. ASSUME NEW g, g = F(g) PROVE Folds(g, S, Nat, 0, Picks(S), Adder(w, S))
  <2>0. DOMAIN g = SUBSET S /\ g = [s \in SUBSET S |-> g[s]]
    BY <1>7
  <2>1. g[{}] = 0
    BY <1>7
  <2>2. ASSUME NEW s \in SUBSET S, s # {}
        PROVE  Picks(S)[s] \in s /\ g[s] = w[Picks(S)[s]] + g[s \ {Picks(S)[s]}]
    BY <1>2, <1>7, <2>2
  <2> DEFINE Q == {s \in SUBSET S : g[s] \in Nat}
  <2>3. \A s \in SUBSET S : s \in Q
    <3>1. {} \in Q
      BY <2>1
    <3>2. ASSUME NEW s \in SUBSET S, s # {}, \A x \in s : s \ {x} \in Q PROVE s \in Q
      <4>1. PICK y \in s : y = Picks(S)[s] /\ g[s] = w[y] + g[s \ {y}]
        BY <2>2, <3>2
      <4>2. s \ {y} \in Q
        BY <3>2
      <4>3. g[s \ {y}] \in Nat /\ w[y] \in Nat
        BY <4>2
      <4> QED
        BY <4>1, <4>3
    <3> HIDE DEF Q
    <3> QED
      BY <3>1, <3>2, SubsetInduction
  <2>4. g \in [SUBSET S -> Nat]
    BY <2>0, <2>3
  <2>5. ASSUME NEW s \in SUBSET S, s # {}
        PROVE  g[s] = Adder(w, S)[Picks(S)[s]][g[s \ {Picks(S)[s]}]]
    BY <2>2, <2>4, <2>5 DEF Adder
  <2> QED
    BY <2>1, <2>4, <2>5 DEF Folds
<1>8. Folds(iter, S, Nat, 0, Picks(S), Adder(w, S))
  BY <1>6, <1>7
<1> QED
  BY <1>1, <1>8

\* Two folds that agree about the elements of T agree about its subsets.
LEMMA FoldsAgree ==
  ASSUME NEW S, NEW R, NEW T, T \subseteq S, T \subseteq R, IsFiniteSet(T),
         NEW V, NEW base, NEW c, NEW d, NEW p, NEW q, NEW f, NEW g,
         Folds(f, S, V, base, c, p), Folds(g, R, V, base, d, q),
         \A s \in SUBSET T : s # {} => c[s] \in s /\ c[s] = d[s],
         \A x \in T : p[x] = q[x]
  PROVE  \A s \in SUBSET T : f[s] = g[s]
<1> DEFINE Q == {s \in SUBSET T : f[s] = g[s]}
<1>1. {} \in Q
  BY DEF Folds
<1>2. ASSUME NEW s \in SUBSET T, s # {}, \A x \in s : s \ {x} \in Q PROVE s \in Q
  <2>1. PICK y \in s : y = c[s] /\ y = d[s]
    BY <1>2
  <2>2. f[s] = p[y][f[s \ {y}]] /\ g[s] = q[y][g[s \ {y}]]
    <3>1. s \in SUBSET S /\ s \in SUBSET R
      OBVIOUS
    <3>2. f[s] = p[c[s]][f[s \ {c[s]}]]
      BY <1>2, <3>1 DEF Folds
    <3>3. g[s] = q[d[s]][g[s \ {d[s]}]]
      BY <1>2, <3>1 DEF Folds
    <3> QED
      BY <2>1, <3>2, <3>3
  <2>3. f[s \ {y}] = g[s \ {y}] /\ p[y] = q[y]
    BY <1>2
  <2> QED
    BY <2>2, <2>3
<1> HIDE DEF Q
<1>3. \A s \in SUBSET T : s \in Q
  BY <1>1, <1>2, SubsetInduction
<1> QED
  BY <1>3 DEF Q

\* The sum is what any of its folds says.
LEMMA SumIs ==
  ASSUME NEW S, IsFiniteSet(S), NEW T \in SUBSET S, NEW w, \A x \in S : w[x] \in Nat,
         NEW f, Folds(f, S, Nat, 0, Picks(S), Adder(w, S))
  PROVE  Sum(w, T) = f[T]
<1>1. IsFiniteSet(T)
  BY FS_Subset
<1>2. PICK g : Folds(g, T, Nat, 0, Picks(T), Adder(w, T)) /\ Sum(w, T) = g[T]
  BY <1>1, SumFolds
<1>3. \A s \in SUBSET T : s # {} => Picks(T)[s] \in s /\ Picks(T)[s] = Picks(S)[s]
  BY DEF Picks
<1>4. \A x \in T : Adder(w, T)[x] = Adder(w, S)[x]
  BY DEF Adder
<1>5. \A s \in SUBSET T : g[s] = f[s]
  BY <1>1, <1>2, <1>3, <1>4, FoldsAgree
<1> QED
  BY <1>2, <1>5

\* The first facts about sums: of nothing, and taking any element out.
LEMMA SumOfNone ==
  ASSUME NEW w
  PROVE  Sum(w, {}) = 0
<1>1. IsFiniteSet({})
  BY FS_EmptySet
<1>2. PICK f : Folds(f, {}, Nat, 0, Picks({}), Adder(w, {})) /\ Sum(w, {}) = f[{}]
  BY <1>1, SumFolds
<1> QED
  BY <1>2 DEF Folds

LEMMA SumTakes ==
  ASSUME NEW S, IsFiniteSet(S), NEW w, \A x \in S : w[x] \in Nat
  PROVE  /\ Sum(w, S) \in Nat
         /\ \A x \in S : Sum(w, S) = w[x] + Sum(w, S \ {x})
<1>1. PICK f : Folds(f, S, Nat, 0, Picks(S), Adder(w, S)) /\ Sum(w, S) = f[S]
  BY SumFolds
<1>2. \A T \in SUBSET S : Sum(w, T) = f[T] /\ f[T] \in Nat
  <2> SUFFICES ASSUME NEW T \in SUBSET S PROVE Sum(w, T) = f[T] /\ f[T] \in Nat
    OBVIOUS
  <2>1. Sum(w, T) = f[T]
    BY <1>1, SumIs
  <2> QED
    BY <1>1, <2>1 DEF Folds
<1>3. ASSUME NEW T \in SUBSET S, T # {}
      PROVE  \E y \in T : f[T] = w[y] + f[T \ {y}]
  <2>1. PICK y \in T : y = Picks(S)[T]
    BY <1>3 DEF Picks
  <2>2. f[T] = Adder(w, S)[y][f[T \ {y}]] /\ f[T \ {y}] \in Nat
    BY <1>1, <1>3, <2>1 DEF Folds
  <2> QED
    BY <2>2 DEF Adder
<1> DEFINE Q == {T \in SUBSET S : \A x \in T : f[T] = w[x] + f[T \ {x}]}
<1>4. {} \in Q
  OBVIOUS
<1>5. ASSUME NEW T \in SUBSET S, T # {}, \A x \in T : T \ {x} \in Q PROVE T \in Q
  <2>1. PICK y \in T : f[T] = w[y] + f[T \ {y}]
    BY <1>3, <1>5
  <2>2. SUFFICES ASSUME NEW x \in T PROVE f[T] = w[x] + f[T \ {x}]
    OBVIOUS
  <2>3. CASE x = y
    BY <2>1, <2>3
  <2>4. CASE x # y
    <3>1. T \ {y} \in Q /\ x \in T \ {y} /\ T \ {x} \in Q /\ y \in T \ {x}
      BY <1>5, <2>4
    <3>2. f[T \ {y}] = w[x] + f[(T \ {y}) \ {x}] /\ f[T \ {x}] = w[y] + f[(T \ {x}) \ {y}]
      BY <3>1
    <3>3. (T \ {y}) \ {x} = (T \ {x}) \ {y} /\ (T \ {x}) \ {y} \in SUBSET S
      OBVIOUS
    <3>4. f[(T \ {x}) \ {y}] \in Nat /\ w[x] \in Nat /\ w[y] \in Nat
      BY <1>2, <3>3
    <3> DEFINE a == f[T]
               b == f[T \ {x}]
               c == f[T \ {y}]
               e == f[(T \ {x}) \ {y}]
    <3>5. a = w[y] + c /\ c = w[x] + e /\ b = w[y] + e
      BY <2>1, <3>2, <3>3
    <3>6. e \in Nat
      BY <3>4
    <3> HIDE DEF a, b, c, e
    <3>7. a = w[x] + b
      BY <3>4, <3>5, <3>6
    <3> QED
      BY <3>7 DEF a, b
  <2> QED
    BY <2>3, <2>4
<1> HIDE DEF Q
<1>6. \A T \in SUBSET S : T \in Q
  BY <1>4, <1>5, SubsetInduction
<1>7. S \in Q
  BY <1>6
<1> QED
  BY <1>2, <1>7 DEF Q

\* Only the values of the elements count.
LEMMA SumSame ==
  ASSUME NEW S, IsFiniteSet(S), NEW w, NEW v, \A x \in S : w[x] \in Nat /\ v[x] = w[x]
  PROVE  Sum(v, S) = Sum(w, S)
<1>1. PICK f : Folds(f, S, Nat, 0, Picks(S), Adder(w, S)) /\ Sum(w, S) = f[S]
  BY SumFolds
<1>2. PICK g : Folds(g, S, Nat, 0, Picks(S), Adder(v, S)) /\ Sum(v, S) = g[S]
  <2>1. \A x \in S : v[x] \in Nat
    OBVIOUS
  <2> QED
    BY <2>1, SumFolds
<1>3. \A x \in S : Adder(w, S)[x] = Adder(v, S)[x]
  BY DEF Adder
<1>4. \A s \in SUBSET S : s # {} => Picks(S)[s] \in s
  BY DEF Picks
<1>5. \A s \in SUBSET S : f[s] = g[s]
  BY <1>1, <1>2, <1>3, <1>4, FoldsAgree
<1> QED
  BY <1>1, <1>2, <1>5

-----------------------------------------------------------------------------
(* Counting the tuples of a set by what they begin with.                   *)

Of(B, k) == {b \in B : b[1] = k}
Count(B, k) == Cardinality(Of(B, k))

LEMMA CountAdds ==
  ASSUME NEW B, IsFiniteSet(B), NEW b, b \notin B
  PROVE  /\ IsFiniteSet(B \cup {b})
         /\ \A k : /\ Count(B, k) \in Nat
                   /\ Count(B \cup {b}, k) = Count(B, k) + (IF b[1] = k THEN 1 ELSE 0)
<1>1. IsFiniteSet(B \cup {b})
  BY FS_AddElement
<1>2. ASSUME NEW k
      PROVE  Count(B, k) \in Nat /\ Count(B \cup {b}, k) = Count(B, k) + (IF b[1] = k THEN 1 ELSE 0)
  <2>1. Of(B, k) \in SUBSET B
    BY DEF Of
  <2>2. IsFiniteSet(Of(B, k)) /\ Count(B, k) \in Nat
    BY <2>1, FS_Subset, FS_CardinalityType DEF Count
  <2>3. CASE b[1] = k
    <3>1. Of(B \cup {b}, k) = Of(B, k) \cup {b} /\ b \notin Of(B, k)
      BY <2>3 DEF Of
    <3> QED
      BY <2>2, <2>3, <3>1, FS_AddElement DEF Count
  <2>4. CASE b[1] # k
    <3>1. Of(B \cup {b}, k) = Of(B, k)
      BY <2>4 DEF Of
    <3> QED
      BY <2>2, <2>4, <3>1 DEF Count
  <2> QED
    BY <2>2, <2>3, <2>4
<1> QED
  BY <1>1, <1>2

LEMMA CountTakes ==
  ASSUME NEW B, IsFiniteSet(B), NEW b \in B
  PROVE  /\ IsFiniteSet(B \ {b})
         /\ \A k : /\ Count(B \ {b}, k) \in Nat
                   /\ Count(B, k) = Count(B \ {b}, k) + (IF b[1] = k THEN 1 ELSE 0)
<1>1. IsFiniteSet(B \ {b}) /\ b \notin B \ {b} /\ (B \ {b}) \cup {b} = B
  BY FS_RemoveElement
<1> DEFINE C == B \ {b}
<1>2. IsFiniteSet(C) /\ b \notin C /\ C \cup {b} = B
  BY <1>1
<1> HIDE DEF C
<1>3. \A k : /\ Count(C, k) \in Nat
             /\ Count(C \cup {b}, k) = Count(C, k) + (IF b[1] = k THEN 1 ELSE 0)
  BY <1>2, CountAdds
<1> QED
  BY <1>1, <1>2, <1>3 DEF C

\* A count is zero where there is nothing.
LEMMA CountNone ==
  ASSUME NEW B, IsFiniteSet(B), NEW k
  PROVE  Count(B, k) \in Nat /\ (Count(B, k) = 0 <=> \A b \in B : b[1] # k)
<1>1. Of(B, k) \in SUBSET B
  BY DEF Of
<1>2. IsFiniteSet(Of(B, k))
  BY <1>1, FS_Subset
<1>3. Count(B, k) \in Nat /\ (Count(B, k) = 0 <=> Of(B, k) = {})
  BY <1>2, FS_CardinalityType, FS_EmptySet DEF Count
<1> QED
  BY <1>3 DEF Of

-----------------------------------------------------------------------------
(* Trees.  What the proofs say of a tree, they say of the record fs that a *)
(* method is given and of the one it leaves.                               *)

Kinds == {"directory", "file", "symlink"}
Records == [kind : Kinds, parent : 0 .. LastInode, links : Nat, refs : Nat, size : Nat,
            next_cookie : Nat]
Ranges == [inode : Inodes, session : Sessions, owner : Owners, kind : {"read", "write"},
           start : 0 .. LastByte, length : 0 .. LastByte]
Maps(D, R) == UNION {[E -> R] : E \in SUBSET D}
Trees(C, K) ==
  [root : Inodes, next : 2 .. LastInode + 1, generation : Nat,
   inode : Maps(Inodes, Records), entry : Maps(Inodes \X Names, Inodes),
   cookie : K, back : SUBSET (Inodes \X Inodes \X Names),
   bytes : Int, entries : Int, locks : SUBSET Ranges, changes : C, tracking : BOOLEAN]
IsTree(t) == t \in Trees({t.changes}, {t.cookie})

Dirs(t) == {d \in DOMAIN t.inode : t.inode[d].kind = "directory"}
Hanging(t) == {d \in Dirs(t) : t.inode[d].links > 0 /\ d # t.root}
Sizes(t) == [i \in DOMAIN t.inode |-> t.inode[i].size]
RefsOf(t, i) == IF i \in DOMAIN t.inode THEN t.inode[i].refs ELSE 0

\* Entries lead from directories that have a name to inodes that exist, and never
\* to the root.
SoundEntries(t) ==
  /\ IsFiniteSet(DOMAIN t.entry)
  /\ t.root \in Dirs(t)
  /\ DOMAIN t.inode \subseteq 1 .. t.next - 1
  /\ \A x \in DOMAIN t.entry : /\ x[1] \in Dirs(t) /\ t.inode[x[1]].links > 0
                               /\ t.entry[x] \in DOMAIN t.inode /\ t.entry[x] # t.root

SoundLinks(t) ==
  /\ t.back = {<<t.entry[x], x[1], x[2]>> : x \in DOMAIN t.entry}
  /\ \A i \in DOMAIN t.inode :
       t.inode[i].links = Count(t.back, i) + (IF i = t.root THEN 1 ELSE 0)
  /\ t.entries = Cardinality(DOMAIN t.entry)

\* A directory has one name, in its parent, or none.
SoundDirs(t) ==
  \A d \in Dirs(t) :
    IF t.inode[d].links = 0 THEN t.inode[d].parent = None
    ELSE /\ t.inode[d].links = 1
         /\ d # t.root => \E n \in Names : <<d, t.inode[d].parent, n>> \in t.back

\* Whoever climbs from parent to parent leaves every set of directories.
NoLoop(t) ==
  \A S \in SUBSET Hanging(t) : S # {} => \E x \in S : t.inode[x].parent \notin S

SoundLive(t) == \A i \in DOMAIN t.inode : t.inode[i].links > 0 \/ t.inode[i].refs > 0
SoundBytes(t) == t.bytes = Sum(Sizes(t), DOMAIN t.inode)
SoundLocks(t) == \A l \in t.locks : l.inode \in DOMAIN t.inode /\ t.inode[l.inode].kind = "file"

Shaped(t) == SoundEntries(t) /\ SoundLinks(t) /\ SoundDirs(t) /\ NoLoop(t)
Ground(t) == IsTree(t) /\ Shaped(t) /\ SoundBytes(t) /\ SoundLocks(t)
Sound(t) == Ground(t) /\ SoundLive(t)

\* u is what some operations make of t: numbers are not used again, an inode keeps
\* its kind, and the locks are those of the files still there, without the ones
\* that came through the sessions S.
Evolves(t, u, S) ==
  /\ u.generation = t.generation
  /\ u.next >= t.next
  /\ DOMAIN u.inode \ DOMAIN t.inode \subseteq t.next .. u.next - 1
  /\ \A i \in DOMAIN t.inode \cap DOMAIN u.inode : u.inode[i].kind = t.inode[i].kind
  /\ u.locks = {l \in t.locks : l.session \notin S /\ l.inode \in DOMAIN u.inode}
SameRefs(t, u) == \A i \in Inodes : RefsOf(u, i) = RefsOf(t, i)
Keeps(t, u) == Sound(u) /\ Evolves(t, u, {}) /\ SameRefs(t, u)

LEMMA MapIs ==
  ASSUME NEW D, NEW R, NEW f
  PROVE  f \in Maps(D, R) <=> f \in [DOMAIN f -> R] /\ DOMAIN f \subseteq D
<1>1. f \in Maps(D, R) => f \in [DOMAIN f -> R] /\ DOMAIN f \subseteq D
  BY DEF Maps
<1>2. f \in [DOMAIN f -> R] /\ DOMAIN f \subseteq D => f \in Maps(D, R)
  BY DEF Maps
<1> QED
  BY <1>1, <1>2

\* The types of the parts of a tree.
LEMMA TreeParts ==
  ASSUME NEW t, IsTree(t)
  PROVE  /\ t.root \in Inodes /\ t.next \in 2 .. LastInode + 1 /\ t.generation \in Nat
         /\ t.inode \in [DOMAIN t.inode -> Records] /\ DOMAIN t.inode \subseteq Inodes
         /\ t.entry \in [DOMAIN t.entry -> Inodes] /\ DOMAIN t.entry \subseteq Inodes \X Names
         /\ t.back \subseteq Inodes \X Inodes \X Names
         /\ t.bytes \in Int /\ t.entries \in Int /\ t.locks \subseteq Ranges
         /\ t.tracking \in BOOLEAN
<1>1. /\ t.root \in Inodes /\ t.next \in 2 .. LastInode + 1 /\ t.generation \in Nat
      /\ t.inode \in Maps(Inodes, Records) /\ t.entry \in Maps(Inodes \X Names, Inodes)
      /\ t.back \subseteq Inodes \X Inodes \X Names
      /\ t.bytes \in Int /\ t.entries \in Int /\ t.locks \subseteq Ranges
      /\ t.tracking \in BOOLEAN
  BY DEF IsTree, Trees
<1> QED
  BY <1>1, MapIs

\* Emit changes the queue of notifications only.
Core(t) == [root |-> t.root, next |-> t.next, generation |-> t.generation, inode |-> t.inode,
            entry |-> t.entry, cookie |-> t.cookie, back |-> t.back, bytes |-> t.bytes,
            entries |-> t.entries, locks |-> t.locks, tracking |-> t.tracking]

LEMMA EmitCore ==
  ASSUME NEW t, IsTree(t), NEW change
  PROVE  IsTree(Emit(t, change)) /\ Core(Emit(t, change)) = Core(t)
<1>1. ASSUME NEW c PROVE LET u == [t EXCEPT !.changes = c] IN IsTree(u) /\ Core(u) = Core(t)
  BY DEF IsTree, Trees, Core
<1>2. Emit(t, change) = t \/ \E c : Emit(t, change) = [t EXCEPT !.changes = c]
  BY DEF Emit
<1> QED
  BY <1>1, <1>2

LEMMA CoreParts ==
  ASSUME NEW t, NEW u, Core(u) = Core(t)
  PROVE  /\ u.root = t.root /\ u.next = t.next /\ u.generation = t.generation
         /\ u.inode = t.inode /\ u.entry = t.entry /\ u.cookie = t.cookie /\ u.back = t.back
         /\ u.bytes = t.bytes /\ u.entries = t.entries /\ u.locks = t.locks
         /\ u.tracking = t.tracking
<1> DEFINE a == Core(t)
           b == Core(u)
<1>1. /\ a.root = t.root /\ a.next = t.next /\ a.generation = t.generation
      /\ a.inode = t.inode /\ a.entry = t.entry /\ a.cookie = t.cookie /\ a.back = t.back
      /\ a.bytes = t.bytes /\ a.entries = t.entries /\ a.locks = t.locks
      /\ a.tracking = t.tracking
  BY DEF Core
<1>2. /\ b.root = u.root /\ b.next = u.next /\ b.generation = u.generation
      /\ b.inode = u.inode /\ b.entry = u.entry /\ b.cookie = u.cookie /\ b.back = u.back
      /\ b.bytes = u.bytes /\ b.entries = u.entries /\ b.locks = u.locks
      /\ b.tracking = u.tracking
  BY DEF Core
<1> HIDE DEF a, b
<1>3. a = b
  BY DEF a, b
<1> QED
  BY <1>1, <1>2, <1>3

\* The shape of the tree depends on nothing but these parts.
SameShape(t, u) ==
  /\ u.root = t.root /\ u.entry = t.entry /\ u.back = t.back /\ u.entries = t.entries
  /\ u.next >= t.next
  /\ DOMAIN u.inode = DOMAIN t.inode
  /\ \A i \in DOMAIN t.inode : /\ u.inode[i].kind = t.inode[i].kind
                               /\ u.inode[i].links = t.inode[i].links
                               /\ u.inode[i].parent = t.inode[i].parent

LEMMA ShapeKept ==
  ASSUME NEW t, NEW u, IsTree(t), IsTree(u), Shaped(t), SameShape(t, u)
  PROVE  Shaped(u)
<1>1. Dirs(u) = Dirs(t) /\ Hanging(u) = Hanging(t)
  BY DEF SameShape, Dirs, Hanging
<1>2. /\ t.next \in Nat /\ u.next \in Nat
      /\ DOMAIN t.entry \subseteq Inodes \X Names
      /\ DOMAIN t.inode \subseteq Nat
  BY TreeParts DEF Inodes
<1>3. SoundEntries(u)
  <2>1. DOMAIN u.inode \subseteq 1 .. u.next - 1
    BY <1>2 DEF Shaped, SoundEntries, SameShape
  <2>2. \A x \in DOMAIN u.entry : /\ x[1] \in Dirs(u) /\ u.inode[x[1]].links > 0
                                  /\ u.entry[x] \in DOMAIN u.inode /\ u.entry[x] # u.root
    BY <1>1 DEF Shaped, SoundEntries, SameShape, Dirs
  <2> QED
    BY <1>1, <2>1, <2>2 DEF Shaped, SoundEntries, SameShape
<1>4. SoundLinks(u)
  BY DEF Shaped, SoundLinks, SameShape
<1>5. SoundDirs(u)
  <2> SUFFICES ASSUME NEW d \in Dirs(u)
               PROVE  IF u.inode[d].links = 0 THEN u.inode[d].parent = None
                      ELSE /\ u.inode[d].links = 1
                           /\ d # u.root => \E n \in Names : <<d, u.inode[d].parent, n>> \in u.back
    BY DEF SoundDirs
  <2>1. d \in Dirs(t) /\ d \in DOMAIN t.inode
    BY <1>1 DEF Dirs
  <2> QED
    BY <2>1 DEF Shaped, SoundDirs, SameShape
<1>6. NoLoop(u)
  <2> SUFFICES ASSUME NEW S \in SUBSET Hanging(u), S # {} PROVE \E x \in S : u.inode[x].parent \notin S
    BY DEF NoLoop
  <2>1. PICK x \in S : t.inode[x].parent \notin S
    BY <1>1 DEF Shaped, NoLoop
  <2>2. x \in DOMAIN t.inode
    BY <1>1 DEF Hanging, Dirs
  <2> QED
    BY <2>1, <2>2 DEF SameShape
<1> QED
  BY <1>3, <1>4, <1>5, <1>6 DEF Shaped

\* Notifications aside, nothing is changed.
LEMMA CoreKeeps ==
  ASSUME NEW t, NEW u, Sound(t), IsTree(u), Core(u) = Core(t)
  PROVE  Keeps(t, u)
<1>1. /\ u.root = t.root /\ u.next = t.next /\ u.generation = t.generation
      /\ u.inode = t.inode /\ u.entry = t.entry /\ u.back = t.back
      /\ u.bytes = t.bytes /\ u.entries = t.entries /\ u.locks = t.locks
  BY CoreParts
<1>2. IsTree(t) /\ t.next \in Nat
  BY TreeParts DEF Sound, Ground
<1>3. Shaped(u)
  <2>1. SameShape(t, u)
    BY <1>1, <1>2 DEF SameShape
  <2> QED
    BY <1>2, <2>1, ShapeKept DEF Sound, Ground
<1>4. SoundLive(u) /\ SoundBytes(u) /\ SoundLocks(u)
  BY <1>1 DEF Sound, Ground, SoundLive, SoundBytes, SoundLocks, Sizes
<1>5. Evolves(t, u, {})
  BY <1>1, <1>2 DEF Evolves, Sound, Ground, SoundLocks
<1>6. SameRefs(t, u)
  BY <1>1 DEF SameRefs, RefsOf
<1> QED
  BY <1>3, <1>4, <1>5, <1>6 DEF Keeps, Sound, Ground

LEMMA EvolvesFurther ==
  ASSUME NEW t, NEW u, NEW v, NEW S, NEW T, Ground(t), Ground(u), Ground(v),
         Evolves(t, u, S), Evolves(u, v, T)
  PROVE  Evolves(t, v, S \cup T)
<1>1. /\ t.next \in Nat /\ u.next \in Nat /\ v.next \in Nat
      /\ DOMAIN t.inode \subseteq 1 .. t.next - 1 /\ DOMAIN u.inode \subseteq 1 .. u.next - 1
      /\ DOMAIN v.inode \subseteq 1 .. v.next - 1
  BY TreeParts DEF Ground, Shaped, SoundEntries
<1>2. v.generation = t.generation /\ v.next >= t.next
  BY <1>1 DEF Evolves
<1>3. DOMAIN v.inode \ DOMAIN t.inode \subseteq t.next .. v.next - 1
  <2> SUFFICES ASSUME NEW i \in DOMAIN v.inode, i \notin DOMAIN t.inode
               PROVE  i \in t.next .. v.next - 1
    OBVIOUS
  <2>1. CASE i \in DOMAIN u.inode
    <3>1. i \in t.next .. u.next - 1
      BY <2>1 DEF Evolves
    <3> QED
      BY <1>1, <3>1 DEF Evolves
  <2>2. CASE i \notin DOMAIN u.inode
    <3>1. i \in u.next .. v.next - 1
      BY <2>2 DEF Evolves
    <3> QED
      BY <1>1, <3>1 DEF Evolves
  <2> QED
    BY <2>1, <2>2
<1>4. \A i \in DOMAIN t.inode \cap DOMAIN v.inode : i \in DOMAIN u.inode
  <2> SUFFICES ASSUME NEW i \in DOMAIN t.inode, i \in DOMAIN v.inode, i \notin DOMAIN u.inode
               PROVE  FALSE
    OBVIOUS
  <2>1. i \in u.next .. v.next - 1 /\ i \in 1 .. t.next - 1 /\ u.next >= t.next
    BY <1>1 DEF Evolves
  <2> QED
    BY <1>1, <2>1
<1>5. \A i \in DOMAIN t.inode \cap DOMAIN v.inode : v.inode[i].kind = t.inode[i].kind
  BY <1>4 DEF Evolves
<1>6. v.locks = {l \in t.locks : l.session \notin S \cup T /\ l.inode \in DOMAIN v.inode}
  <2>1. \A l \in t.locks : l.inode \in DOMAIN t.inode
    BY DEF Ground, SoundLocks
  <2>2. \A l \in t.locks : l.inode \in DOMAIN v.inode => l.inode \in DOMAIN u.inode
    BY <1>4, <2>1
  <2> QED
    BY <2>2 DEF Evolves
<1> QED
  BY <1>2, <1>3, <1>5, <1>6 DEF Evolves

LEMMA KeepsFurther ==
  ASSUME NEW t, NEW u, NEW v, Sound(t), Keeps(t, u), Keeps(u, v)
  PROVE  Keeps(t, v)
<1>1. Evolves(t, v, {} \cup {})
  BY EvolvesFurther DEF Keeps, Sound
<1> QED
  BY <1>1 DEF Keeps, SameRefs

-----------------------------------------------------------------------------
(* The bytes of all files.                                                 *)

Total(t) == Sum(Sizes(t), DOMAIN t.inode)

LEMMA ArenaFinite ==
  ASSUME NEW t, IsTree(t)
  PROVE  /\ IsFiniteSet(DOMAIN t.inode)
         /\ \A i \in DOMAIN t.inode : Sizes(t)[i] = t.inode[i].size /\ Sizes(t)[i] \in Nat
<1>1. IsFiniteSet(Inodes)
  BY FS_Interval, NamespaceAssumption DEF Inodes
<1>2. DOMAIN t.inode \in SUBSET Inodes
  BY TreeParts
<1>3. t.inode \in [DOMAIN t.inode -> Records]
  BY TreeParts
<1>4. \A i \in DOMAIN t.inode : t.inode[i].size \in Nat
  BY <1>3 DEF Records
<1> QED
  BY <1>1, <1>2, <1>4, FS_Subset DEF Sizes

LEMMA TotalWithout ==
  ASSUME NEW t, NEW u, IsTree(t), IsTree(u), NEW i \in DOMAIN t.inode,
         DOMAIN u.inode = DOMAIN t.inode \ {i},
         \A k \in DOMAIN u.inode : u.inode[k].size = t.inode[k].size
  PROVE  Total(t) = Total(u) + t.inode[i].size /\ Total(t) \in Nat /\ Total(u) \in Nat
<1> DEFINE D == DOMAIN t.inode
<1>1. IsFiniteSet(D) /\ \A k \in D : Sizes(t)[k] = t.inode[k].size /\ Sizes(t)[k] \in Nat
  BY ArenaFinite
<1>2. IsFiniteSet(D \ {i}) /\ \A k \in D \ {i} : Sizes(u)[k] = u.inode[k].size /\ Sizes(u)[k] \in Nat
  BY ArenaFinite
<1>3. \A k \in D \ {i} : Sizes(t)[k] \in Nat /\ Sizes(u)[k] = Sizes(t)[k]
  BY <1>1, <1>2
<1>4. Sum(Sizes(u), D \ {i}) = Sum(Sizes(t), D \ {i})
  BY <1>2, <1>3, SumSame
<1>5. Sum(Sizes(t), D) \in Nat /\ Sum(Sizes(t), D) = Sizes(t)[i] + Sum(Sizes(t), D \ {i})
  BY <1>1, SumTakes
<1>6. Sum(Sizes(t), D \ {i}) \in Nat
  BY <1>2, <1>3, SumTakes
<1> QED
  BY <1>1, <1>4, <1>5, <1>6 DEF Total

LEMMA TotalSame ==
  ASSUME NEW t, NEW u, IsTree(t), IsTree(u), DOMAIN u.inode = DOMAIN t.inode,
         \A k \in DOMAIN u.inode : u.inode[k].size = t.inode[k].size
  PROVE  Total(u) = Total(t)
<1>1. IsFiniteSet(DOMAIN t.inode)
      /\ \A k \in DOMAIN t.inode : Sizes(t)[k] \in Nat /\ Sizes(u)[k] = Sizes(t)[k]
  BY ArenaFinite
<1> QED
  BY <1>1, SumSame DEF Total

LEMMA TotalResized ==
  ASSUME NEW t, NEW u, IsTree(t), IsTree(u), NEW i \in DOMAIN t.inode,
         DOMAIN u.inode = DOMAIN t.inode,
         \A k \in DOMAIN u.inode \ {i} : u.inode[k].size = t.inode[k].size
  PROVE  Total(u) = Total(t) - t.inode[i].size + u.inode[i].size
<1> DEFINE D == DOMAIN t.inode
<1>1. IsFiniteSet(D) /\ \A k \in D : Sizes(t)[k] = t.inode[k].size /\ Sizes(t)[k] \in Nat
  BY ArenaFinite
<1>2. \A k \in D : Sizes(u)[k] = u.inode[k].size /\ Sizes(u)[k] \in Nat
  BY ArenaFinite
<1>3. IsFiniteSet(D \ {i})
  BY <1>1, FS_RemoveElement
<1>4. \A k \in D \ {i} : Sizes(t)[k] \in Nat /\ Sizes(u)[k] = Sizes(t)[k]
  BY <1>1, <1>2
<1>5. Sum(Sizes(u), D \ {i}) = Sum(Sizes(t), D \ {i})
  BY <1>3, <1>4, SumSame
<1>6. Sum(Sizes(t), D) = Sizes(t)[i] + Sum(Sizes(t), D \ {i})
  BY <1>1, SumTakes
<1>7. Sum(Sizes(u), D) = Sizes(u)[i] + Sum(Sizes(u), D \ {i})
  BY <1>1, <1>2, SumTakes
<1>8. Sum(Sizes(t), D \ {i}) \in Nat
  BY <1>3, <1>4, SumTakes
<1> QED
  BY <1>1, <1>2, <1>5, <1>6, <1>7, <1>8 DEF Total

-----------------------------------------------------------------------------
(* Operations that leave the shape of the tree alone.                      *)

\* A change of the sizes, references, cookies or locks only.
LEMMA ShapeKeeps ==
  ASSUME NEW t, NEW u, Ground(t), IsTree(u), SameShape(t, u), SoundBytes(u),
         u.generation = t.generation, u.locks = t.locks
  PROVE  Ground(u) /\ Evolves(t, u, {})
<1>1. Ground(u)
  BY ShapeKept DEF Ground, SoundLocks, SameShape
<1>2. Evolves(t, u, {})
  BY DEF Ground, SoundLocks, SameShape, Evolves
<1> QED
  BY <1>1, <1>2

LEMMA RetainKeeps ==
  ASSUME NEW t, Sound(t), NEW i \in DOMAIN t.inode
  PROVE  LET u == RetainFid(t, i)
         IN Sound(u) /\ Evolves(t, u, {})
            /\ \A k \in Inodes : RefsOf(u, k) = RefsOf(t, k) + (IF k = i THEN 1 ELSE 0)
<1> DEFINE u == RetainFid(t, i)
<1>1. IsTree(t) /\ t.inode \in [DOMAIN t.inode -> Records] /\ DOMAIN t.inode \subseteq Inodes
      /\ t.next \in Nat
  BY TreeParts DEF Sound, Ground
<1> DEFINE a == [t.inode EXCEPT ![i].refs = @ + 1]
<1>2. a \in [DOMAIN t.inode -> Records]
  BY <1>1 DEF Records
<1>3. a \in Maps(Inodes, Records)
  BY <1>1, <1>2, MapIs
<1>4. \A k \in DOMAIN t.inode :
         /\ a[k].kind = t.inode[k].kind /\ a[k].links = t.inode[k].links
         /\ a[k].parent = t.inode[k].parent /\ a[k].size = t.inode[k].size
         /\ a[k].refs = t.inode[k].refs + (IF k = i THEN 1 ELSE 0) /\ t.inode[k].refs \in Nat
  BY <1>1 DEF Records
<1>5. DOMAIN a = DOMAIN t.inode
  OBVIOUS
<1>6. u = [t EXCEPT !.inode = a]
  BY <1>1 DEF RetainFid, IsTree, Trees
<1> HIDE DEF a
<1>7. /\ IsTree(u) /\ u.inode = a /\ u.root = t.root /\ u.entry = t.entry /\ u.back = t.back
      /\ u.entries = t.entries /\ u.next = t.next /\ u.generation = t.generation
      /\ u.locks = t.locks /\ u.bytes = t.bytes
  BY <1>1, <1>3, <1>6 DEF IsTree, Trees
<1> HIDE DEF u
<1>8. SameShape(t, u)
  BY <1>1, <1>4, <1>5, <1>7 DEF SameShape
<1>9. SoundLive(u)
  BY <1>4, <1>5, <1>7 DEF Sound, Ground, SoundLive
<1>10. SoundBytes(u)
  BY <1>1, <1>4, <1>5, <1>7, TotalSame DEF Sound, Ground, SoundBytes, Total
<1>11. \A k \in Inodes : RefsOf(u, k) = RefsOf(t, k) + (IF k = i THEN 1 ELSE 0)
  BY <1>4, <1>5, <1>7 DEF RefsOf
<1>12. Sound(u) /\ Evolves(t, u, {})
  BY <1>7, <1>8, <1>9, <1>10, ShapeKeeps DEF Sound
<1> QED
  BY <1>11, <1>12 DEF u

\* The reverse links are those of the entries, of which there are as many as counted.
Recorded(t) ==
  /\ IsFiniteSet(DOMAIN t.entry)
  /\ t.back = {<<t.entry[x], x[1], x[2]>> : x \in DOMAIN t.entry}
  /\ t.entries = Cardinality(DOMAIN t.entry)

LEMMA LinksFinite ==
  ASSUME NEW t, Recorded(t)
  PROVE  IsFiniteSet(t.back)
<1> DEFINE D == DOMAIN t.entry
           f == [x \in D |-> <<t.entry[x], x[1], x[2]>>]
<1>1. IsFiniteSet(D) /\ t.back = {f[x] : x \in D}
  BY DEF Recorded
<1> HIDE DEF f
<1>2. f \in Surjection(D, t.back)
  <2>1. f \in [D -> t.back]
    BY <1>1 DEF f
  <2> QED
    BY <1>1, <2>1 DEF Surjection
<1> QED
  BY <1>1, <1>2, FS_Surjection

\* An inode without links and references goes; it has no entries and is not the root.
LEMMA ReclaimKeeps ==
  ASSUME NEW t, Ground(t), NEW i \in DOMAIN t.inode,
         \A k \in DOMAIN t.inode \ {i} : t.inode[k].links > 0 \/ t.inode[k].refs > 0
  PROVE  Keeps(t, Reclaimed(t, i))
<1>1. /\ IsTree(t) /\ t.inode \in [DOMAIN t.inode -> Records] /\ DOMAIN t.inode \subseteq Inodes
      /\ t.next \in Nat /\ t.bytes \in Int /\ t.locks \subseteq Ranges
      /\ t.back \subseteq Inodes \X Inodes \X Names
  BY TreeParts DEF Ground
<1>2. t.inode[i] \in Records /\ t.inode[i].links \in Nat /\ t.inode[i].refs \in Nat
      /\ t.inode[i].size \in Nat
  BY <1>1 DEF Records
<1>3. CASE t.inode[i].links > 0 \/ t.inode[i].refs > 0
  <2>1. Reclaimed(t, i) = t
    BY <1>3 DEF Reclaimed
  <2>2. SoundLive(t)
    BY <1>3 DEF SoundLive
  <2> QED
    BY <1>1, <2>1, <2>2, CoreKeeps DEF Sound
<1>4. CASE ~(t.inode[i].links > 0 \/ t.inode[i].refs > 0)
  <2> DEFINE u == Reclaimed(t, i)
             D == DOMAIN t.inode \ {i}
             a == [k \in D |-> t.inode[k]]
             L == {l \in t.locks : l.inode # i}
             B == {b \in t.back : b[1] # i}
  <2>1. t.inode[i].links = 0 /\ t.inode[i].refs = 0
    BY <1>2, <1>4
  <2>2. u = [t EXCEPT !.inode = a, !.back = B, !.bytes = t.bytes - t.inode[i].size, !.locks = L]
    BY <1>1, <1>4 DEF Reclaimed, Restrict, IsTree, Trees
  <2>3. a \in Maps(Inodes, Records)
    <3>1. a \in [D -> Records] /\ DOMAIN a = D
      BY <1>1
    <3> QED
      BY <1>1, <3>1, MapIs
  <2>4. t.bytes - t.inode[i].size \in Int /\ L \subseteq Ranges /\ B \subseteq Inodes \X Inodes \X Names
    BY <1>1, <1>2
  <2>5. DOMAIN a = D /\ \A k \in D : a[k] = t.inode[k]
    OBVIOUS
  <2> HIDE DEF a
  <2>6. /\ IsTree(u) /\ u.inode = a /\ u.root = t.root /\ u.entry = t.entry /\ u.back = B
        /\ u.entries = t.entries /\ u.next = t.next /\ u.generation = t.generation
        /\ u.locks = L /\ u.bytes = t.bytes - t.inode[i].size
    BY <1>1, <2>2, <2>3, <2>4 DEF IsTree, Trees
  <2> HIDE DEF u
  <2>7. IsFiniteSet(t.back)
    BY LinksFinite DEF Ground, Shaped, SoundEntries, SoundLinks, Recorded
  <2>8. Count(t.back, i) = 0 /\ i # t.root
    <3>1. Count(t.back, i) \in Nat
      BY <2>7, CountNone
    <3>2. t.inode[i].links = Count(t.back, i) + (IF i = t.root THEN 1 ELSE 0)
      BY DEF Ground, Shaped, SoundLinks
    <3> HIDE DEF Count
    <3> QED
      BY <2>1, <3>1, <3>2
  <2>9. \A b \in t.back : b[1] # i
    BY <2>7, <2>8, CountNone
  <2>10. B = t.back
    BY <2>9
  <2>11. \A x \in DOMAIN t.entry : t.entry[x] # i /\ x[1] # i
    <3> SUFFICES ASSUME NEW x \in DOMAIN t.entry PROVE t.entry[x] # i /\ x[1] # i
      OBVIOUS
    <3>1. <<t.entry[x], x[1], x[2]>> \in t.back
      BY DEF Ground, Shaped, SoundLinks
    <3>2. t.inode[x[1]].links > 0
      BY DEF Ground, Shaped, SoundEntries
    <3> QED
      BY <2>1, <2>9, <3>1, <3>2
  <2> DEFINE isDir == t.inode[i].kind = "directory"
  <2>12. Dirs(u) = Dirs(t) \ {i} /\ Hanging(u) = Hanging(t)
    BY <2>1, <2>5, <2>6 DEF Dirs, Hanging
  <2>13. SoundEntries(u)
    <3>1. \A x \in DOMAIN u.entry : /\ x[1] \in Dirs(u) /\ u.inode[x[1]].links > 0
                                    /\ u.entry[x] \in DOMAIN u.inode /\ u.entry[x] # u.root
      BY <2>5, <2>6, <2>11, <2>12 DEF Ground, Shaped, SoundEntries, Dirs
    <3>2. u.root \in Dirs(u) /\ DOMAIN u.inode \subseteq 1 .. u.next - 1 /\ IsFiniteSet(DOMAIN u.entry)
      BY <2>5, <2>6, <2>8, <2>12 DEF Ground, Shaped, SoundEntries
    <3> QED
      BY <3>1, <3>2 DEF SoundEntries
  <2>14. SoundLinks(u)
    BY <2>5, <2>6, <2>10 DEF Ground, Shaped, SoundLinks
  <2>15. SoundDirs(u)
    <3> SUFFICES ASSUME NEW d \in Dirs(u)
                 PROVE  IF u.inode[d].links = 0 THEN u.inode[d].parent = None
                        ELSE /\ u.inode[d].links = 1
                             /\ d # u.root => \E n \in Names : <<d, u.inode[d].parent, n>> \in u.back
      BY DEF SoundDirs
    <3>1. d \in Dirs(t) /\ u.inode[d] = t.inode[d]
      BY <2>5, <2>6, <2>12 DEF Dirs
    <3>2. u.root = t.root /\ u.back = t.back
      BY <2>6, <2>10
    <3> QED
      BY <3>1, <3>2 DEF Ground, Shaped, SoundDirs
  <2>16. NoLoop(u)
    BY <2>5, <2>6, <2>12 DEF Ground, Shaped, NoLoop, Hanging, Dirs
  <2>17. SoundBytes(u)
    <3>1. Total(t) = Total(u) + t.inode[i].size /\ Total(t) \in Nat /\ Total(u) \in Nat
      BY <1>1, <2>5, <2>6, TotalWithout
    <3>2. t.bytes = Total(t)
      BY DEF Ground, SoundBytes, Total
    <3>3. u.bytes = Total(u)
      BY <1>2, <2>6, <3>1, <3>2
    <3> QED
      BY <3>3 DEF SoundBytes, Total
  <2>18. SoundLocks(u)
    BY <2>5, <2>6 DEF Ground, SoundLocks
  <2>19. SoundLive(u)
    BY <2>5, <2>6 DEF SoundLive
  <2>20. Evolves(t, u, {})
    <3>1. L = {l \in t.locks : l.inode \in D}
      BY DEF Ground, SoundLocks
    <3> HIDE DEF L
    <3>2. u.next >= t.next
      BY <1>1, <2>6
    <3> QED
      BY <2>5, <2>6, <3>1, <3>2 DEF Evolves
  <2>21. SameRefs(t, u)
    BY <2>1, <2>5, <2>6 DEF SameRefs, RefsOf
  <2> QED
    BY <2>6, <2>13, <2>14, <2>15, <2>16, <2>17, <2>18, <2>19, <2>20, <2>21 DEF Keeps, Sound, Ground, Shaped, u
<1> QED
  BY <1>3, <1>4

LEMMA ReleaseKeeps ==
  ASSUME NEW t, Sound(t), NEW i \in Inodes, RefsOf(t, i) > 0
  PROVE  LET u == ReleaseFid(t, i)
         IN Sound(u) /\ Evolves(t, u, {})
            /\ \A k \in Inodes : RefsOf(u, k) = RefsOf(t, k) - (IF k = i THEN 1 ELSE 0)
<1>0. i \in DOMAIN t.inode /\ t.inode[i].refs > 0
  BY DEF RefsOf
<1>1. IsTree(t) /\ t.inode \in [DOMAIN t.inode -> Records] /\ DOMAIN t.inode \subseteq Inodes
      /\ t.next \in Nat
  BY TreeParts DEF Sound, Ground
<1> DEFINE a == [t.inode EXCEPT ![i].refs = @ - 1]
           v == [t EXCEPT !.inode[i].refs = @ - 1]
<1>2. a \in [DOMAIN t.inode -> Records]
  BY <1>0, <1>1 DEF Records
<1>3. a \in Maps(Inodes, Records)
  BY <1>1, <1>2, MapIs
<1>4. \A k \in DOMAIN t.inode :
         /\ a[k].kind = t.inode[k].kind /\ a[k].links = t.inode[k].links
         /\ a[k].parent = t.inode[k].parent /\ a[k].size = t.inode[k].size
         /\ a[k].refs = t.inode[k].refs - (IF k = i THEN 1 ELSE 0) /\ t.inode[k].refs \in Nat
  BY <1>1 DEF Records
<1>5. DOMAIN a = DOMAIN t.inode
  OBVIOUS
<1>6. v = [t EXCEPT !.inode = a]
  BY <1>1 DEF IsTree, Trees
<1> HIDE DEF a
<1>7. /\ IsTree(v) /\ v.inode = a /\ v.root = t.root /\ v.entry = t.entry /\ v.back = t.back
      /\ v.entries = t.entries /\ v.next = t.next /\ v.generation = t.generation
      /\ v.locks = t.locks /\ v.bytes = t.bytes
  BY <1>1, <1>3, <1>6 DEF IsTree, Trees
<1>8. ReleaseFid(t, i) = Reclaimed(v, i)
  BY DEF ReleaseFid
<1> HIDE DEF v
<1>9. SameShape(t, v)
  BY <1>1, <1>4, <1>5, <1>7 DEF SameShape
<1>10. SoundBytes(v)
  BY <1>1, <1>4, <1>5, <1>7, TotalSame DEF Sound, Ground, SoundBytes, Total
<1>11. \A k \in Inodes : RefsOf(v, k) = RefsOf(t, k) - (IF k = i THEN 1 ELSE 0)
  BY <1>0, <1>4, <1>5, <1>7 DEF RefsOf
<1>12. Ground(v) /\ Evolves(t, v, {})
  BY <1>7, <1>9, <1>10, ShapeKeeps DEF Sound
<1>13. \A k \in DOMAIN v.inode \ {i} : v.inode[k].links > 0 \/ v.inode[k].refs > 0
  BY <1>4, <1>5, <1>7 DEF Sound, SoundLive
<1>14. Keeps(v, Reclaimed(v, i))
  BY <1>0, <1>5, <1>7, <1>12, <1>13, ReclaimKeeps
<1>15. Evolves(t, Reclaimed(v, i), {} \cup {})
  BY <1>12, <1>14, EvolvesFurther DEF Keeps, Sound
<1>16. {} \cup {} = {}
  OBVIOUS
<1> QED
  BY <1>8, <1>11, <1>14, <1>15, <1>16 DEF Keeps, SameRefs

-----------------------------------------------------------------------------
(* What references and locks leave alone.                                  *)

\* Entries, cookies and notifications are as they were.
Quiet(t, u) ==
  /\ u.root = t.root /\ u.entry = t.entry /\ u.cookie = t.cookie /\ u.next = t.next
  /\ u.changes = t.changes /\ u.tracking = t.tracking
  /\ DOMAIN u.inode \subseteq DOMAIN t.inode
  /\ \A k \in DOMAIN u.inode : u.inode[k].next_cookie = t.inode[k].next_cookie

LEMMA QuietItself ==
  ASSUME NEW t
  PROVE  Quiet(t, t)
BY DEF Quiet

LEMMA QuietFurther ==
  ASSUME NEW t, NEW u, NEW v, Quiet(t, u), Quiet(u, v)
  PROVE  Quiet(t, v)
<1>1. \A k \in DOMAIN v.inode : k \in DOMAIN u.inode /\ k \in DOMAIN t.inode
  BY DEF Quiet
<1>2. \A k \in DOMAIN v.inode : v.inode[k].next_cookie = t.inode[k].next_cookie
  BY <1>1 DEF Quiet
<1> QED
  BY <1>1, <1>2 DEF Quiet

LEMMA RetainQuiet ==
  ASSUME NEW t, IsTree(t), NEW i \in DOMAIN t.inode
  PROVE  Quiet(t, RetainFid(t, i))
<1> DEFINE a == [t.inode EXCEPT ![i].refs = @ + 1]
           u == RetainFid(t, i)
<1>1. t.inode \in [DOMAIN t.inode -> Records]
  BY TreeParts
<1>2. DOMAIN a = DOMAIN t.inode /\ \A k \in DOMAIN a : a[k].next_cookie = t.inode[k].next_cookie
  BY <1>1 DEF Records
<1>3. u = [t EXCEPT !.inode = a]
  BY DEF RetainFid, IsTree, Trees
<1> HIDE DEF a
<1>4. /\ u.inode = a /\ u.root = t.root /\ u.entry = t.entry /\ u.cookie = t.cookie
      /\ u.next = t.next /\ u.changes = t.changes /\ u.tracking = t.tracking
  BY <1>3 DEF IsTree, Trees
<1> HIDE DEF u
<1>5. Quiet(t, u)
  BY <1>2, <1>4 DEF Quiet
<1> QED
  BY <1>5 DEF u

LEMMA ReclaimQuiet ==
  ASSUME NEW t, IsTree(t), NEW i \in DOMAIN t.inode
  PROVE  Quiet(t, Reclaimed(t, i))
<1> DEFINE u == Reclaimed(t, i)
           a == Restrict(t.inode, DOMAIN t.inode \ {i})
<1>1. CASE u = t
  <2> HIDE DEF u
  <2>1. Quiet(t, u)
    BY <1>1, QuietItself
  <2> QED
    BY <2>1 DEF u
<1>2. CASE u # t
  <2>1. \E B, q, L : u = [t EXCEPT !.inode = a, !.back = B, !.bytes = q, !.locks = L]
    <3>1. u = [t EXCEPT !.inode = Restrict(@, DOMAIN @ \ {i}),
                        !.back = {b \in @ : b[1] # i},
                        !.bytes = @ - t.inode[i].size,
                        !.locks = {l \in @ : l.inode # i}]
      BY <1>2 DEF Reclaimed
    <3>2. u = [t EXCEPT !.inode = a,
                        !.back = {b \in t.back : b[1] # i},
                        !.bytes = t.bytes - t.inode[i].size,
                        !.locks = {l \in t.locks : l.inode # i}]
      BY <3>1 DEF IsTree, Trees
    <3> QED
      BY <3>2
  <2>2. /\ u.inode = a /\ u.root = t.root /\ u.entry = t.entry /\ u.cookie = t.cookie
        /\ u.next = t.next /\ u.changes = t.changes /\ u.tracking = t.tracking
    BY <2>1 DEF IsTree, Trees
  <2>3. DOMAIN a = DOMAIN t.inode \ {i} /\ \A k \in DOMAIN a : a[k] = t.inode[k]
    BY DEF Restrict
  <2> HIDE DEF a, u
  <2>4. Quiet(t, u)
    BY <2>2, <2>3 DEF Quiet
  <2> QED
    BY <2>4 DEF u
<1> QED
  BY <1>1, <1>2

LEMMA ReleaseQuiet ==
  ASSUME NEW t, IsTree(t), NEW i \in DOMAIN t.inode, t.inode[i].refs > 0
  PROVE  Quiet(t, ReleaseFid(t, i))
<1> DEFINE a == [t.inode EXCEPT ![i].refs = @ - 1]
           v == [t EXCEPT !.inode[i].refs = @ - 1]
<1>1. t.inode \in [DOMAIN t.inode -> Records] /\ DOMAIN t.inode \subseteq Inodes
  BY TreeParts
<1>2. DOMAIN a = DOMAIN t.inode /\ \A k \in DOMAIN a : a[k].next_cookie = t.inode[k].next_cookie
  BY <1>1 DEF Records
<1>3. a \in Maps(Inodes, Records)
  <2>1. a \in [DOMAIN t.inode -> Records]
    BY <1>1 DEF Records
  <2> QED
    BY <1>1, <2>1, MapIs
<1>4. v = [t EXCEPT !.inode = a]
  BY DEF IsTree, Trees
<1> HIDE DEF a
<1>5. /\ IsTree(v) /\ v.inode = a /\ v.root = t.root /\ v.entry = t.entry /\ v.cookie = t.cookie
      /\ v.next = t.next /\ v.changes = t.changes /\ v.tracking = t.tracking
  BY <1>3, <1>4 DEF IsTree, Trees
<1>6. ReleaseFid(t, i) = Reclaimed(v, i)
  BY DEF ReleaseFid
<1> HIDE DEF v
<1>7. Quiet(t, v)
  BY <1>2, <1>5 DEF Quiet
<1>8. Quiet(v, Reclaimed(v, i))
  BY <1>2, <1>5, ReclaimQuiet
<1> QED
  BY <1>6, <1>7, <1>8, QuietFurther

LEMMA LocksQuiet ==
  ASSUME NEW t, IsTree(t), NEW L
  PROVE  Quiet(t, [t EXCEPT !.locks = L])
<1> DEFINE u == [t EXCEPT !.locks = L]
<1>1. /\ u.inode = t.inode /\ u.root = t.root /\ u.entry = t.entry /\ u.cookie = t.cookie
      /\ u.next = t.next /\ u.changes = t.changes /\ u.tracking = t.tracking
  BY DEF IsTree, Trees
<1> HIDE DEF u
<1>2. Quiet(t, u)
  BY <1>1 DEF Quiet
<1> QED
  BY <1>2 DEF u

LEMMA SessionLocksQuiet ==
  ASSUME NEW t, IsTree(t), NEW s
  PROVE  Quiet(t, ReleaseSessionLocks(t, s))
<1>1. ReleaseSessionLocks(t, s) = [t EXCEPT !.locks = {l \in t.locks : l.session # s}]
  BY DEF ReleaseSessionLocks, IsTree, Trees
<1> QED
  BY <1>1, LocksQuiet

-----------------------------------------------------------------------------
(* One entry more, and one less.                                           *)

\* What becomes of the entries and of the cookies that are given to them: d gets the
\* entry n for i and loses it, and <<d, n>> becomes <<e, m>>.
Beside(t, v) == v.root = t.root /\ v.changes = t.changes /\ v.tracking = t.tracking
Adds(t, v, d, n, i) ==
  /\ Beside(t, v)
  /\ v.entry = With(t.entry, <<d, n>>, i)
  /\ v.cookie = With(t.cookie, <<d, n>>, t.inode[d].next_cookie)
  /\ DOMAIN t.inode \subseteq DOMAIN v.inode
  /\ \A k \in DOMAIN t.inode :
       v.inode[k].next_cookie = t.inode[k].next_cookie + (IF k = d THEN 1 ELSE 0)
Removes(t, v, d, n) ==
  /\ Beside(t, v) /\ v.next = t.next
  /\ v.entry = Restrict(t.entry, DOMAIN t.entry \ {<<d, n>>})
  /\ v.cookie = Restrict(t.cookie, DOMAIN t.cookie \ {<<d, n>>})
  /\ DOMAIN v.inode \subseteq DOMAIN t.inode
  /\ \A k \in DOMAIN v.inode : v.inode[k].next_cookie = t.inode[k].next_cookie
Shifts(t, v, d, n, e, m) ==
  /\ v.cookie = With(Restrict(t.cookie, DOMAIN t.cookie \ {<<d, n>>}), <<e, m>>,
                     IF d = e THEN t.cookie[<<d, n>>] ELSE t.inode[e].next_cookie)
  /\ DOMAIN v.inode = DOMAIN t.inode
  /\ \A k \in DOMAIN t.inode :
       v.inode[k].next_cookie = t.inode[k].next_cookie + (IF k = e /\ d # e THEN 1 ELSE 0)
Moves(t, v, d, n, e, m) ==
  /\ Beside(t, v) /\ v.next = t.next /\ Shifts(t, v, d, n, e, m)
  /\ v.entry = With(Restrict(t.entry, DOMAIN t.entry \ {<<d, n>>}), <<e, m>>, t.entry[<<d, n>>])

LinkTuples(e) == {<<e[x], x[1], x[2]>> : x \in DOMAIN e}

\* The entries e are those of t and one more.
OneMore(t, e, d, n, i) ==
  /\ DOMAIN e = DOMAIN t.entry \cup {<<d, n>>} /\ e[<<d, n>>] = i
  /\ \A x \in DOMAIN t.entry : e[x] = t.entry[x]

\* B are their reverse links, one more to i.
LinksMore(t, e, B, i) ==
  /\ B = LinkTuples(e) /\ B \subseteq Inodes \X Inodes \X Names
  /\ IsFiniteSet(DOMAIN e) /\ Cardinality(DOMAIN e) = t.entries + 1
  /\ \A k : /\ Count(t.back, k) \in Nat
            /\ Count(B, k) = Count(t.back, k) + (IF i = k THEN 1 ELSE 0)

LEMMA LinkAdded ==
  ASSUME NEW t, IsTree(t), Recorded(t), NEW d \in Inodes, NEW n \in Names,
         <<d, n>> \notin DOMAIN t.entry, NEW i \in Inodes, NEW e, OneMore(t, e, d, n, i)
  PROVE  LinksMore(t, e, t.back \cup {<<i, d, n>>}, i)
<1> USE DEF OneMore, LinksMore
<1> DEFINE b == <<i, d, n>>
           y == <<d, n>>
<1>1. DOMAIN t.entry \subseteq Inodes \X Names /\ t.back \subseteq Inodes \X Inodes \X Names
      /\ t.entry \in [DOMAIN t.entry -> Inodes]
  BY TreeParts
<1>2. \A x \in DOMAIN t.entry : x = <<x[1], x[2]>>
  BY <1>1
<1>3. b \notin t.back
  <2> SUFFICES ASSUME b \in t.back PROVE FALSE
    OBVIOUS
  <2>1. PICK x \in DOMAIN t.entry : b = <<t.entry[x], x[1], x[2]>>
    BY DEF Recorded
  <2>2. x[1] = d /\ x[2] = n
    BY <2>1
  <2>3. x = y
    BY <1>2, <2>2
  <2> QED
    BY <2>3
<1>4. t.back \cup {b} = LinkTuples(e)
  <2>1. ASSUME NEW c \in t.back \cup {b} PROVE c \in LinkTuples(e)
    <3>1. CASE c = b
      <4>1. b = <<e[y], y[1], y[2]>> /\ y \in DOMAIN e
        OBVIOUS
      <4> QED
        BY <3>1, <4>1 DEF LinkTuples
    <3>2. CASE c \in t.back
      <4>1. PICK x \in DOMAIN t.entry : c = <<t.entry[x], x[1], x[2]>>
        BY <3>2 DEF Recorded
      <4>2. c = <<e[x], x[1], x[2]>> /\ x \in DOMAIN e
        BY <4>1
      <4> QED
        BY <4>2 DEF LinkTuples
    <3> QED
      BY <3>1, <3>2
  <2>2. ASSUME NEW c \in LinkTuples(e) PROVE c \in t.back \cup {b}
    <3>1. PICK x \in DOMAIN e : c = <<e[x], x[1], x[2]>>
      BY DEF LinkTuples
    <3>2. CASE x = y
      <4>1. c = b
        BY <3>1, <3>2
      <4> QED
        BY <4>1
    <3>3. CASE x \in DOMAIN t.entry
      <4>1. c = <<t.entry[x], x[1], x[2]>>
        BY <3>1, <3>3
      <4> QED
        BY <3>3, <4>1 DEF Recorded
    <3> QED
      BY <3>1, <3>2, <3>3
  <2> QED
    BY <2>1, <2>2
<1>5. IsFiniteSet(DOMAIN t.entry) /\ t.entries = Cardinality(DOMAIN t.entry)
  BY DEF Recorded
<1>6. IsFiniteSet(DOMAIN e) /\ Cardinality(DOMAIN e) = t.entries + 1
  BY <1>5, FS_AddElement
<1>7. IsFiniteSet(t.back)
  BY LinksFinite
<1>8. b[1] = i /\ b \in Inodes \X Inodes \X Names
  OBVIOUS
<1> HIDE DEF b
<1>9. \A k : /\ Count(t.back, k) \in Nat
             /\ Count(t.back \cup {b}, k) = Count(t.back, k) + (IF b[1] = k THEN 1 ELSE 0)
  BY <1>3, <1>7, CountAdds
<1> QED
  BY <1>1, <1>4, <1>6, <1>8, <1>9 DEF b

\* The entries e are those of t without one, and B their reverse links.
OneLess(t, e, d, n) ==
  DOMAIN e = DOMAIN t.entry \ {<<d, n>>} /\ \A x \in DOMAIN e : e[x] = t.entry[x]
LinksLess(t, e, B, i) ==
  /\ B = LinkTuples(e) /\ B \subseteq t.back
  /\ IsFiniteSet(DOMAIN e) /\ Cardinality(DOMAIN e) = t.entries - 1
  /\ \A k : /\ Count(B, k) \in Nat
            /\ Count(t.back, k) = Count(B, k) + (IF i = k THEN 1 ELSE 0)

LEMMA LinkTaken ==
  ASSUME NEW t, IsTree(t), Recorded(t), NEW d, NEW n,
         <<d, n>> \in DOMAIN t.entry, NEW e, OneLess(t, e, d, n)
  PROVE  LET i == t.entry[<<d, n>>]
         IN <<i, d, n>> \in t.back /\ LinksLess(t, e, t.back \ {<<i, d, n>>}, i)
<1> USE DEF OneLess, LinksLess
<1> DEFINE y == <<d, n>>
           i == t.entry[y]
           b == <<i, d, n>>
<1>1. DOMAIN t.entry \subseteq Inodes \X Names
  BY TreeParts
<1>2. \A x \in DOMAIN t.entry : x = <<x[1], x[2]>>
  BY <1>1
<1>3. b \in t.back
  <2>1. y[1] = d /\ y[2] = n
    OBVIOUS
  <2>2. b = <<t.entry[y], y[1], y[2]>>
    BY <2>1
  <2> QED
    BY <2>2 DEF Recorded
<1>4. t.back \ {b} = LinkTuples(e)
  <2>1. ASSUME NEW c \in t.back \ {b} PROVE c \in LinkTuples(e)
    <3>1. PICK x \in DOMAIN t.entry : c = <<t.entry[x], x[1], x[2]>>
      BY DEF Recorded
    <3>2. x # y
      BY <3>1
    <3>3. x \in DOMAIN e /\ c = <<e[x], x[1], x[2]>>
      BY <3>1, <3>2
    <3> QED
      BY <3>3 DEF LinkTuples
  <2>2. ASSUME NEW c \in LinkTuples(e) PROVE c \in t.back \ {b}
    <3>1. PICK x \in DOMAIN e : c = <<e[x], x[1], x[2]>>
      BY DEF LinkTuples
    <3>2. x \in DOMAIN t.entry /\ c = <<t.entry[x], x[1], x[2]>> /\ x # y
      BY <3>1
    <3>3. c \in t.back
      BY <3>2 DEF Recorded
    <3>4. c # b
      <4>1. c = b => x[1] = d /\ x[2] = n
        BY <3>2
      <4> QED
        BY <1>2, <3>2, <4>1
    <3> QED
      BY <3>3, <3>4
  <2> QED
    BY <2>1, <2>2
<1>5. IsFiniteSet(DOMAIN t.entry) /\ t.entries = Cardinality(DOMAIN t.entry)
  BY DEF Recorded
<1>6. IsFiniteSet(DOMAIN e) /\ Cardinality(DOMAIN e) = t.entries - 1
  BY <1>5, FS_RemoveElement
<1>7. IsFiniteSet(t.back)
  BY LinksFinite
<1>8. b[1] = i
  OBVIOUS
<1> HIDE DEF b
<1>9. \A k : /\ Count(t.back \ {b}, k) \in Nat
             /\ Count(t.back, k) = Count(t.back \ {b}, k) + (IF b[1] = k THEN 1 ELSE 0)
  BY <1>3, <1>7, CountTakes
<1> QED
  BY <1>3, <1>4, <1>6, <1>8, <1>9 DEF b

\* The part of a tree that a number given to an entry changes.
LEMMA NumberedParts ==
  ASSUME NEW t, IsTree(t), NEW d \in DOMAIN t.inode, NEW n \in Names
  PROVE  LET u == Numbered(t, d, n)
         IN /\ IsTree(u)
            /\ u.root = t.root /\ u.next = t.next /\ u.generation = t.generation
            /\ u.entry = t.entry /\ u.back = t.back /\ u.bytes = t.bytes
            /\ u.entries = t.entries /\ u.locks = t.locks /\ u.tracking = t.tracking
            /\ DOMAIN u.inode = DOMAIN t.inode
            /\ \A k \in DOMAIN t.inode :
                 /\ u.inode[k] \in Records
                 /\ u.inode[k].kind = t.inode[k].kind /\ u.inode[k].links = t.inode[k].links
                 /\ u.inode[k].parent = t.inode[k].parent /\ u.inode[k].size = t.inode[k].size
                 /\ u.inode[k].refs = t.inode[k].refs
            /\ u.changes = t.changes
            /\ u.cookie = With(t.cookie, <<d, n>>, t.inode[d].next_cookie)
            /\ \A k \in DOMAIN t.inode :
                 u.inode[k].next_cookie = t.inode[k].next_cookie + (IF k = d THEN 1 ELSE 0)
<1> DEFINE u == Numbered(t, d, n)
           a == [t.inode EXCEPT ![d].next_cookie = @ + 1]
           c == With(t.cookie, <<d, n>>, t.inode[d].next_cookie)
<1>1. /\ IsTree(t) /\ t.inode \in [DOMAIN t.inode -> Records] /\ DOMAIN t.inode \subseteq Inodes
  BY TreeParts
<1>2. a \in [DOMAIN t.inode -> Records]
  BY <1>1 DEF Records
<1>3. a \in Maps(Inodes, Records)
  BY <1>1, <1>2, MapIs
<1>4. \A k \in DOMAIN t.inode :
         /\ a[k] \in Records
         /\ a[k].kind = t.inode[k].kind /\ a[k].links = t.inode[k].links
         /\ a[k].parent = t.inode[k].parent /\ a[k].size = t.inode[k].size
         /\ a[k].refs = t.inode[k].refs
         /\ a[k].next_cookie = t.inode[k].next_cookie + (IF k = d THEN 1 ELSE 0)
  BY <1>1, <1>2 DEF Records
<1>6. u = [t EXCEPT !.cookie = c, !.inode = a]
  BY <1>1 DEF Numbered, IsTree, Trees
<1>7. DOMAIN a = DOMAIN t.inode
  OBVIOUS
<1> HIDE DEF a, c
<1>8. /\ IsTree(u) /\ u.inode = a /\ u.root = t.root /\ u.entry = t.entry /\ u.back = t.back
      /\ u.entries = t.entries /\ u.next = t.next /\ u.generation = t.generation
      /\ u.locks = t.locks /\ u.bytes = t.bytes /\ u.tracking = t.tracking
      /\ u.changes = t.changes /\ u.cookie = c
  BY <1>1, <1>3, <1>6 DEF IsTree, Trees
<1> HIDE DEF u
<1> QED
  BY <1>4, <1>7, <1>8 DEF u, c

LEMMA InsertKeeps ==
  ASSUME NEW t, Sound(t), NEW d, NEW n \in Names, MayInsert(t, d, n),
         NEW kind \in Kinds, NEW size \in Nat
  PROVE  /\ Keeps(t, Inserted(t, d, n, kind, size))
         /\ t.next \in DOMAIN Inserted(t, d, n, kind, size).inode
         /\ \E v : /\ IsTree(v) /\ Adds(t, v, d, n, t.next)
                   /\ DOMAIN v.inode = DOMAIN t.inode \cup {t.next}
                   /\ v.next = t.next + 1 /\ v.inode[t.next].next_cookie = 1
                   /\ Inserted(t, d, n, kind, size)
                        = Emit(v, Change("create", t.next, EntryPath(t, d, n), <<>>))
<1> DEFINE i == t.next
           y == <<d, n>>
           r == NewInode(kind, IF kind = "directory" THEN d ELSE None, size)
           v == Numbered(t, d, n)
           change == Change("create", i, EntryPath(t, d, n), <<>>)
           a == With(v.inode, i, r)
           e == With(t.entry, y, i)
           B == t.back \cup {<<i, d, n>>}
           u == [v EXCEPT !.inode = a, !.entry = e, !.back = B, !.bytes = t.bytes + size,
                          !.entries = t.entries + 1, !.next = i + 1]
<1>1. /\ IsTree(t) /\ t.inode \in [DOMAIN t.inode -> Records] /\ DOMAIN t.inode \subseteq Inodes
      /\ t.next \in 2 .. LastInode + 1 /\ t.bytes \in Int /\ t.entries \in Int
      /\ t.entry \in [DOMAIN t.entry -> Inodes] /\ DOMAIN t.entry \subseteq Inodes \X Names
  BY TreeParts DEF Sound, Ground
<1>2. d \in Dirs(t) /\ d \in DOMAIN t.inode /\ t.inode[d].links > 0
      /\ y \notin DOMAIN t.entry /\ i \in Inodes
  BY <1>1, NamespaceAssumption DEF MayInsert, MayEnter, IsDirectory, Exists, Listed, Dirs, Inodes
<1>3. i \notin DOMAIN t.inode
  BY <1>1 DEF Sound, Ground, Shaped, SoundEntries
<1>4. /\ IsTree(v)
      /\ v.root = t.root /\ v.next = t.next /\ v.generation = t.generation
      /\ v.entry = t.entry /\ v.back = t.back /\ v.bytes = t.bytes
      /\ v.entries = t.entries /\ v.locks = t.locks /\ v.tracking = t.tracking
      /\ DOMAIN v.inode = DOMAIN t.inode
      /\ \A k \in DOMAIN t.inode :
           /\ v.inode[k] \in Records
           /\ v.inode[k].kind = t.inode[k].kind /\ v.inode[k].links = t.inode[k].links
           /\ v.inode[k].parent = t.inode[k].parent /\ v.inode[k].size = t.inode[k].size
           /\ v.inode[k].refs = t.inode[k].refs
      /\ v.changes = t.changes
      /\ v.cookie = With(t.cookie, <<d, n>>, t.inode[d].next_cookie)
      /\ \A k \in DOMAIN t.inode :
           v.inode[k].next_cookie = t.inode[k].next_cookie + (IF k = d THEN 1 ELSE 0)
  BY <1>1, <1>2, NumberedParts
<1>5. /\ r \in Records /\ r.kind = kind /\ r.links = 1 /\ r.refs = 0 /\ r.size = size /\ r.next_cookie = 1
      /\ kind = "directory" => r.parent = d
  <2>1. d \in 0 .. LastInode /\ None \in 0 .. LastInode
    BY <1>1, <1>2, NamespaceAssumption DEF Inodes, None
  <2> QED
    BY <2>1 DEF NewInode, Records
<1> HIDE DEF v, r, change
<1>6. /\ DOMAIN a = DOMAIN t.inode \cup {i} /\ a[i] = r
      /\ \A k \in DOMAIN t.inode : a[k] = v.inode[k]
  BY <1>3, <1>4 DEF With
<1>7. a \in Maps(Inodes, Records)
  <2>1. DOMAIN a \subseteq Inodes /\ \A k \in DOMAIN a : a[k] \in Records
    BY <1>1, <1>2, <1>4, <1>5, <1>6
  <2>2. a = [k \in DOMAIN a |-> a[k]]
    BY DEF With
  <2> HIDE DEF a
  <2>3. a \in [DOMAIN a -> Records]
    BY <2>1, <2>2
  <2> QED
    BY <2>1, <2>3, MapIs
<1>8. /\ DOMAIN e = DOMAIN t.entry \cup {y} /\ e[y] = i
      /\ \A x \in DOMAIN t.entry : e[x] = t.entry[x]
  BY <1>2 DEF With
<1>9. e \in Maps(Inodes \X Names, Inodes)
  <2>1. DOMAIN e \subseteq Inodes \X Names /\ \A x \in DOMAIN e : e[x] \in Inodes
    BY <1>1, <1>2, <1>8
  <2>2. e = [x \in DOMAIN e |-> e[x]]
    BY DEF With
  <2> HIDE DEF e
  <2>3. e \in [DOMAIN e -> Inodes]
    BY <2>1, <2>2
  <2> QED
    BY <2>1, <2>3, MapIs
<1>10. Inserted(t, d, n, kind, size) = Emit(u, change)
  BY <1>4 DEF Inserted, r, v, change
<1> HIDE DEF a, e
<1>11. /\ B = LinkTuples(e) /\ B \subseteq Inodes \X Inodes \X Names
       /\ IsFiniteSet(DOMAIN e) /\ Cardinality(DOMAIN e) = t.entries + 1
       /\ \A k : /\ Count(t.back, k) \in Nat
                 /\ Count(B, k) = Count(t.back, k) + (IF i = k THEN 1 ELSE 0)
  <2>1. Recorded(t) /\ d \in Inodes
    BY <1>1, <1>2 DEF Sound, Ground, Shaped, SoundEntries, SoundLinks, Recorded
  <2>2. IsTree(t) /\ i \in Inodes /\ <<d, n>> \notin DOMAIN t.entry
    BY <1>1, <1>2
  <2>3. OneMore(t, e, d, n, i)
    BY <1>8 DEF OneMore
  <2>4. LinksMore(t, e, t.back \cup {<<i, d, n>>}, i)
    BY <2>1, <2>2, <2>3, LinkAdded
  <2> QED
    BY <2>4 DEF LinksMore
<1> HIDE DEF B
<1>12. /\ IsTree(u) /\ u.inode = a /\ u.root = t.root /\ u.entry = e /\ u.back = B
       /\ u.entries = t.entries + 1 /\ u.next = i + 1 /\ u.generation = t.generation
       /\ u.locks = t.locks /\ u.bytes = t.bytes + size
       /\ u.changes = v.changes /\ u.cookie = v.cookie /\ u.tracking = v.tracking
  <2>1. t.bytes + size \in Int /\ t.entries + 1 \in Int /\ i + 1 \in 2 .. LastInode + 1
    BY <1>1, <1>2, NamespaceAssumption DEF Inodes
  <2> QED
    BY <1>4, <1>7, <1>9, <1>11, <2>1 DEF IsTree, Trees
<1> HIDE DEF u
<1>13. \A k \in DOMAIN t.inode :
         /\ u.inode[k].kind = t.inode[k].kind /\ u.inode[k].links = t.inode[k].links
         /\ u.inode[k].parent = t.inode[k].parent /\ u.inode[k].size = t.inode[k].size
         /\ u.inode[k].refs = t.inode[k].refs /\ k \in DOMAIN u.inode /\ k # i
  BY <1>3, <1>4, <1>6, <1>12
<1>14. /\ DOMAIN u.inode = DOMAIN t.inode \cup {i} /\ u.inode[i].kind = kind
       /\ u.inode[i].links = 1 /\ u.inode[i].refs = 0 /\ u.inode[i].size = size
       /\ kind = "directory" => u.inode[i].parent = d
  BY <1>5, <1>6, <1>12
<1>15. t.root \in DOMAIN t.inode /\ t.root # i
  BY <1>3 DEF Sound, Ground, Shaped, SoundEntries, Dirs
<1>16. Dirs(u) = Dirs(t) \cup (IF kind = "directory" THEN {i} ELSE {})
  BY <1>13, <1>14 DEF Dirs
<1>17. SoundEntries(u)
  <2>1. u.root \in Dirs(u) /\ IsFiniteSet(DOMAIN u.entry)
    BY <1>11, <1>12, <1>16 DEF Sound, Ground, Shaped, SoundEntries
  <2>2. DOMAIN u.inode \subseteq 1 .. u.next - 1
    <3>1. DOMAIN t.inode \subseteq 1 .. t.next - 1
      BY DEF Sound, Ground, Shaped, SoundEntries
    <3> QED
      BY <1>1, <1>12, <1>14, <3>1
  <2>3. ASSUME NEW x \in DOMAIN u.entry
        PROVE  /\ x[1] \in Dirs(u) /\ u.inode[x[1]].links > 0
               /\ u.entry[x] \in DOMAIN u.inode /\ u.entry[x] # u.root
    <3>1. CASE x = y
      <4>1. x[1] = d /\ u.entry[x] = i
        BY <1>8, <1>12, <3>1
      <4> QED
        BY <1>2, <1>12, <1>13, <1>14, <1>15, <1>16, <4>1
    <3>2. CASE x \in DOMAIN t.entry
      <4>1. /\ x[1] \in Dirs(t) /\ t.inode[x[1]].links > 0
            /\ t.entry[x] \in DOMAIN t.inode /\ t.entry[x] # t.root
        BY <3>2 DEF Sound, Ground, Shaped, SoundEntries
      <4>2. u.entry[x] = t.entry[x] /\ x[1] \in DOMAIN t.inode
        BY <1>8, <1>12, <3>2, <4>1 DEF Dirs
      <4> QED
        BY <1>12, <1>13, <1>16, <4>1, <4>2
    <3> QED
      BY <1>8, <1>12, <3>1, <3>2
  <2> QED
    BY <2>1, <2>2, <2>3 DEF SoundEntries
<1>18. SoundLinks(u)
  <2>1. ASSUME NEW k \in DOMAIN u.inode
        PROVE  u.inode[k].links = Count(u.back, k) + (IF k = u.root THEN 1 ELSE 0)
    <3>1. CASE k = i
      <4>1. Count(t.back, i) = 0
        <5>1. IsFiniteSet(t.back)
          BY LinksFinite DEF Sound, Ground, Shaped, SoundEntries, SoundLinks, Recorded
        <5>2. \A b \in t.back : b[1] # i
          BY <1>3 DEF Sound, Ground, Shaped, SoundEntries, SoundLinks
        <5> QED
          BY <5>1, <5>2, CountNone
      <4> HIDE DEF Count
      <4> QED
        BY <1>11, <1>12, <1>14, <1>15, <3>1, <4>1
    <3>2. CASE k \in DOMAIN t.inode
      <4>1. t.inode[k].links = Count(t.back, k) + (IF k = t.root THEN 1 ELSE 0)
        BY <3>2 DEF Sound, Ground, Shaped, SoundLinks
      <4> HIDE DEF Count
      <4> QED
        BY <1>11, <1>12, <1>13, <3>2, <4>1
    <3> QED
      BY <1>14, <3>1, <3>2
  <2> QED
    BY <1>11, <1>12, <2>1 DEF SoundLinks, LinkTuples
<1>19. SoundDirs(u)
  <2> SUFFICES ASSUME NEW k \in Dirs(u)
               PROVE  IF u.inode[k].links = 0 THEN u.inode[k].parent = None
                      ELSE /\ u.inode[k].links = 1
                           /\ k # u.root => \E m \in Names : <<k, u.inode[k].parent, m>> \in u.back
    BY DEF SoundDirs
  <2>1. CASE k = i
    <3>1. kind = "directory"
      BY <1>14, <2>1 DEF Dirs
    <3>2. <<k, u.inode[k].parent, n>> \in u.back
      BY <1>12, <1>14, <2>1, <3>1 DEF B
    <3> QED
      BY <1>14, <2>1, <3>2
  <2>2. CASE k # i
    <3>1. k \in Dirs(t) /\ k \in DOMAIN t.inode
      BY <1>16, <2>2 DEF Dirs
    <3>2. t.back \subseteq u.back /\ u.root = t.root
      BY <1>12 DEF B
    <3> QED
      BY <1>13, <3>1, <3>2 DEF Sound, Ground, Shaped, SoundDirs
  <2> QED
    BY <2>1, <2>2
<1>20. NoLoop(u)
  <2> SUFFICES ASSUME NEW S \in SUBSET Hanging(u), S # {} PROVE \E x \in S : u.inode[x].parent \notin S
    BY DEF NoLoop
  <2>1. \A x \in S \ {i} : x \in Hanging(t) /\ x \in DOMAIN t.inode
    BY <1>12, <1>13, <1>14 DEF Hanging, Dirs
  <2>2. CASE S = {i}
    <3>1. u.inode[i].parent = d
      BY <1>14, <2>2 DEF Hanging, Dirs
    <3> QED
      BY <1>2, <1>3, <2>2, <3>1
  <2>3. CASE S # {i}
    <3>1. S \ {i} \in SUBSET Hanging(t) /\ S \ {i} # {}
      BY <2>1, <2>3
    <3>2. PICK x \in S \ {i} : t.inode[x].parent \notin S \ {i}
      BY <3>1 DEF Sound, Ground, Shaped, NoLoop
    <3>3. t.inode[x].parent # i
      <4>1. x \in Hanging(t)
        BY <2>1
      <4>2. PICK m \in Names : <<x, t.inode[x].parent, m>> \in t.back
        BY <4>1 DEF Sound, Ground, Shaped, SoundDirs, Hanging
      <4>3. PICK z \in DOMAIN t.entry : <<x, t.inode[x].parent, m>> = <<t.entry[z], z[1], z[2]>>
        BY <4>2 DEF Sound, Ground, Shaped, SoundLinks
      <4>4. z[1] \in DOMAIN t.inode
        BY DEF Sound, Ground, Shaped, SoundEntries, Dirs
      <4> QED
        BY <1>3, <4>3, <4>4
    <3> QED
      BY <1>13, <2>1, <3>2, <3>3
  <2> QED
    BY <2>2, <2>3
<1>21. SoundBytes(u)
  <2>1. DOMAIN t.inode = DOMAIN u.inode \ {i} /\ i \in DOMAIN u.inode
    BY <1>3, <1>14
  <2>2. \A k \in DOMAIN t.inode : t.inode[k].size = u.inode[k].size
    BY <1>13
  <2>3. Total(u) = Total(t) + u.inode[i].size
    BY <1>1, <1>12, <2>1, <2>2, TotalWithout
  <2>4. t.bytes = Total(t)
    BY DEF Sound, Ground, SoundBytes, Total
  <2>5. u.bytes = Total(u)
    BY <1>12, <1>14, <2>3, <2>4
  <2> QED
    BY <2>5 DEF SoundBytes, Total
<1>22. SoundLocks(u)
  BY <1>12, <1>13 DEF Sound, Ground, SoundLocks
<1>23. SoundLive(u)
  BY <1>13, <1>14 DEF Sound, SoundLive
<1>24. Evolves(t, u, {})
  <2>1. u.next >= t.next /\ i \in t.next .. u.next - 1
    BY <1>1, <1>12
  <2>2. u.locks = {l \in t.locks : l.inode \in DOMAIN u.inode}
    BY <1>12, <1>14 DEF Sound, Ground, SoundLocks
  <2> QED
    BY <1>12, <1>13, <1>14, <2>1, <2>2 DEF Evolves
<1>25. SameRefs(t, u)
  BY <1>3, <1>13, <1>14 DEF SameRefs, RefsOf
<1>26. Keeps(t, u)
  BY <1>12, <1>17, <1>18, <1>19, <1>20, <1>21, <1>22, <1>23, <1>24, <1>25
     DEF Keeps, Sound, Ground, Shaped
<1>27. Inserted(t, d, n, kind, size) = Emit(u, change)
  BY <1>10 DEF u, a, e, B
<1>28. Keeps(u, Emit(u, change))
  BY <1>12, <1>26, EmitCore, CoreKeeps DEF Keeps
<1>29. Emit(u, change).inode = u.inode
  BY <1>12, EmitCore, CoreParts
<1>30. Adds(t, u, d, n, i)
  <2>1. \A k \in DOMAIN t.inode : u.inode[k] = v.inode[k]
    BY <1>3, <1>6, <1>12
  <2> QED
    BY <1>4, <1>12, <1>14, <2>1 DEF Adds, Beside, e
<1>31. u.inode[i].next_cookie = 1
  BY <1>5, <1>6, <1>12
<1> QED
  BY <1>12, <1>14, <1>26, <1>27, <1>28, <1>29, <1>30, <1>31, KeepsFurther DEF change

\* Apart from i, the arena is as before.
SameBut(t, u, i) ==
  /\ u.root = t.root /\ u.next = t.next
  /\ DOMAIN t.inode \ {i} \subseteq DOMAIN u.inode /\ DOMAIN u.inode \subseteq DOMAIN t.inode
  /\ \A k \in DOMAIN t.inode \ {i} : u.inode[k] = t.inode[k]

LEMMA ReclaimParts ==
  ASSUME NEW t, IsTree(t), NEW i \in DOMAIN t.inode
  PROVE  SameBut(t, Reclaimed(t, i), i) /\ Reclaimed(t, i).entry = t.entry
<1> DEFINE u == Reclaimed(t, i)
           a == Restrict(t.inode, DOMAIN t.inode \ {i})
<1>1. CASE u = t
  BY <1>1 DEF SameBut
<1>2. CASE u # t
  <2>1. \E B, q, L : u = [t EXCEPT !.inode = a, !.back = B, !.bytes = q, !.locks = L]
    <3>1. u = [t EXCEPT !.inode = Restrict(@, DOMAIN @ \ {i}),
                        !.back = {b \in @ : b[1] # i},
                        !.bytes = @ - t.inode[i].size,
                        !.locks = {l \in @ : l.inode # i}]
      BY <1>2 DEF Reclaimed
    <3>2. u = [t EXCEPT !.inode = a,
                        !.back = {b \in t.back : b[1] # i},
                        !.bytes = t.bytes - t.inode[i].size,
                        !.locks = {l \in t.locks : l.inode # i}]
      BY <3>1 DEF IsTree, Trees
    <3> QED
      BY <3>2
  <2>2. u.inode = a /\ u.root = t.root /\ u.next = t.next /\ u.entry = t.entry
    BY <2>1 DEF IsTree, Trees
  <2>3. DOMAIN a = DOMAIN t.inode \ {i} /\ \A k \in DOMAIN a : a[k] = t.inode[k]
    BY DEF Restrict
  <2> HIDE DEF a, u
  <2> QED
    BY <2>2, <2>3 DEF SameBut, u
<1> QED
  BY <1>1, <1>2

\* Removing an entry that leads to nothing else.
LEMMA UnlinkKeeps ==
  ASSUME NEW t, Sound(t), NEW d, NEW n, Listed(t, d, n), Empty(t, t.entry[<<d, n>>])
  PROVE  LET u == Unlinked(t, d, n)
         IN Keeps(t, u) /\ OneLess(t, u.entry, d, n) /\ SameBut(t, u, t.entry[<<d, n>>])
            /\ \E v : /\ IsTree(v) /\ Removes(t, v, d, n)
                      /\ u = Emit(v, Change("remove", t.entry[<<d, n>>], EntryPath(t, d, n), <<>>))
<1> DEFINE y == <<d, n>>
           i == t.entry[y]
           change == Change("remove", i, EntryPath(t, d, n), <<>>)
           a == [t.inode EXCEPT ![i].links = @ - 1, ![i].parent = IF t.inode[i].links = 1 THEN None ELSE @]
           e == Restrict(t.entry, DOMAIN t.entry \ {y})
           c == Restrict(t.cookie, DOMAIN t.cookie \ {y})
           B == t.back \ {<<i, d, n>>}
           v == [t EXCEPT !.entry = e, !.cookie = c, !.back = B, !.entries = t.entries - 1, !.inode = a]
<1>1. /\ IsTree(t) /\ t.inode \in [DOMAIN t.inode -> Records] /\ DOMAIN t.inode \subseteq Inodes
      /\ t.next \in 2 .. LastInode + 1 /\ t.bytes \in Int /\ t.entries \in Int
      /\ t.entry \in [DOMAIN t.entry -> Inodes] /\ DOMAIN t.entry \subseteq Inodes \X Names
      /\ t.back \subseteq Inodes \X Inodes \X Names
  BY TreeParts DEF Sound, Ground
<1>2. y \in DOMAIN t.entry /\ d \in Inodes /\ n \in Names
  BY <1>1 DEF Listed
<1>3. i \in DOMAIN t.inode /\ i # t.root
  BY <1>2 DEF Sound, Ground, Shaped, SoundEntries
<1>4. OneLess(t, e, d, n)
  BY DEF OneLess, Restrict
<1>5. <<i, d, n>> \in t.back /\ LinksLess(t, e, B, i)
  <2>1. Recorded(t)
    BY DEF Sound, Ground, Shaped, SoundEntries, SoundLinks, Recorded
  <2> QED
    BY <1>1, <1>2, <1>4, <2>1, LinkTaken
<1>6. \A k \in DOMAIN t.inode : t.inode[k] \in Records
  BY <1>1
<1>7. t.inode[i].links = Count(t.back, i) /\ Count(B, i) \in Nat /\ Count(t.back, i) = Count(B, i) + 1
  <2>1. Count(B, i) \in Nat /\ Count(t.back, i) = Count(B, i) + 1
    BY <1>5 DEF LinksLess
  <2>2. t.inode[i].links = Count(t.back, i) + 0
    BY <1>3 DEF Sound, Ground, Shaped, SoundLinks
  <2> HIDE DEF Count
  <2> QED
    BY <2>1, <2>2
<1>8. t.inode[i].links - 1 \in Nat
  <2> HIDE DEF Count, B
  <2> QED
    BY <1>7
<1>9. /\ DOMAIN a = DOMAIN t.inode
      /\ \A k \in DOMAIN t.inode \ {i} : a[k] = t.inode[k]
      /\ a[i].kind = t.inode[i].kind /\ a[i].links = t.inode[i].links - 1
      /\ a[i].refs = t.inode[i].refs /\ a[i].size = t.inode[i].size
      /\ a[i].parent = IF t.inode[i].links = 1 THEN None ELSE t.inode[i].parent
      /\ a[i] \in Records /\ a[i].next_cookie = t.inode[i].next_cookie
  <2>1. None \in 0 .. LastInode
    BY NamespaceAssumption DEF None
  <2> HIDE DEF i
  <2> QED
    BY <1>1, <1>3, <1>6, <1>8, <2>1 DEF Records
<1>10. a \in Maps(Inodes, Records)
  <2>1. \A k \in DOMAIN a : a[k] \in Records
    BY <1>6, <1>9
  <2>2. a = [k \in DOMAIN a |-> a[k]]
    OBVIOUS
  <2> HIDE DEF a
  <2>3. a \in [DOMAIN a -> Records]
    BY <2>1, <2>2
  <2> QED
    BY <1>1, <1>9, <2>3, MapIs
<1>11. e \in Maps(Inodes \X Names, Inodes)
  <2>1. e \in [DOMAIN e -> Inodes] /\ DOMAIN e \subseteq Inodes \X Names
    BY <1>1 DEF Restrict
  <2> HIDE DEF e
  <2> QED
    BY <2>1, MapIs
<1>12. Unlinked(t, d, n) = Emit(Reclaimed(v, i), change)
  <2>1. v = [t EXCEPT !.entry = Restrict(@, DOMAIN @ \ {<<d, n>>}),
                             !.cookie = Restrict(@, DOMAIN @ \ {<<d, n>>}),
                             !.back = @ \ {<<i, d, n>>},
                             !.entries = @ - 1,
                             !.inode[i].links = @ - 1,
                             !.inode[i].parent = IF t.inode[i].links = 1 THEN None ELSE @]
    <3>1. ASSUME NEW k \in DOMAIN t.inode, NEW f, NEW g, NEW b, NEW m, NEW l, NEW p
          PROVE  [t EXCEPT !.entry = f, !.cookie = g, !.back = b, !.entries = m,
                           !.inode = [t.inode EXCEPT ![k].links = l, ![k].parent = p]]
                   = [t EXCEPT !.entry = f, !.cookie = g, !.back = b, !.entries = m,
                               !.inode[k].links = l, !.inode[k].parent = p]
      BY <1>1, <3>1 DEF IsTree, Trees
    <3> DEFINE l == t.inode[i].links - 1
               p == IF t.inode[i].links = 1 THEN None ELSE t.inode[i].parent
               m == t.entries - 1
    <3> HIDE DEF i, e, c, B, l, p, m
    <3>2. [t EXCEPT !.entry = e, !.cookie = c, !.back = B, !.entries = m,
                    !.inode = [t.inode EXCEPT ![i].links = l, ![i].parent = p]]
            = [t EXCEPT !.entry = e, !.cookie = c, !.back = B, !.entries = m,
                        !.inode[i].links = l, !.inode[i].parent = p]
      BY <1>3, <3>1
    <3> QED
      BY <3>2 DEF i, e, c, B, l, p, m
  <2> HIDE DEF v
  <2> QED
    BY <2>1 DEF Unlinked
<1> HIDE DEF a, e, c, change
<1>13. /\ IsTree(v) /\ v.inode = a /\ v.root = t.root /\ v.entry = e /\ v.back = B
       /\ v.entries = t.entries - 1 /\ v.next = t.next /\ v.generation = t.generation
       /\ v.locks = t.locks /\ v.bytes = t.bytes
       /\ v.changes = t.changes /\ v.cookie = c /\ v.tracking = t.tracking
  <2>1. t.entries - 1 \in Int /\ B \subseteq Inodes \X Inodes \X Names
    BY <1>1
  <2> HIDE DEF B
  <2> QED
    BY <1>1, <1>10, <1>11, <2>1 DEF IsTree, Trees
<1> HIDE DEF v, i
<1>14. \A x \in DOMAIN e : /\ x \in DOMAIN t.entry /\ e[x] = t.entry[x] /\ x[1] # i
  <2> SUFFICES ASSUME NEW x \in DOMAIN e PROVE x \in DOMAIN t.entry /\ e[x] = t.entry[x] /\ x[1] # i
    OBVIOUS
  <2>1. x \in DOMAIN t.entry /\ e[x] = t.entry[x] /\ x = <<x[1], x[2]>> /\ x[2] \in Names
    BY <1>1, <1>4 DEF OneLess
  <2> QED
    BY <2>1 DEF Empty, Listed, i
<1>15. Dirs(v) = Dirs(t) /\ Hanging(v) \subseteq Hanging(t)
  <2>1. t.inode[i].links > 0
    BY <1>8, <1>6, <1>3 DEF Records
  <2> QED
    BY <1>3, <1>9, <1>13, <2>1 DEF Dirs, Hanging
<1>16. SoundEntries(v)
  <2>1. ASSUME NEW x \in DOMAIN v.entry
        PROVE  /\ x[1] \in Dirs(v) /\ v.inode[x[1]].links > 0
               /\ v.entry[x] \in DOMAIN v.inode /\ v.entry[x] # v.root
    <3>1. x \in DOMAIN t.entry /\ v.entry[x] = t.entry[x] /\ x[1] # i
      BY <1>13, <1>14
    <3>2. /\ x[1] \in Dirs(t) /\ t.inode[x[1]].links > 0 /\ x[1] \in DOMAIN t.inode
          /\ t.entry[x] \in DOMAIN t.inode /\ t.entry[x] # t.root
      BY <3>1 DEF Sound, Ground, Shaped, SoundEntries, Dirs
    <3> QED
      BY <1>9, <1>13, <1>15, <3>1, <3>2
  <2>2. v.root \in Dirs(v) /\ DOMAIN v.inode \subseteq 1 .. v.next - 1 /\ IsFiniteSet(DOMAIN v.entry)
    BY <1>5, <1>9, <1>13, <1>15 DEF Sound, Ground, Shaped, SoundEntries, LinksLess
  <2> QED
    BY <2>1, <2>2 DEF SoundEntries
<1>17. SoundLinks(v)
  <2>1. ASSUME NEW k \in DOMAIN v.inode
        PROVE  v.inode[k].links = Count(v.back, k) + (IF k = v.root THEN 1 ELSE 0)
    <3>1. k \in DOMAIN t.inode
      BY <1>9, <1>13
    <3>2. t.inode[k].links = Count(t.back, k) + (IF k = t.root THEN 1 ELSE 0)
      BY <3>1 DEF Sound, Ground, Shaped, SoundLinks
    <3>3. Count(B, k) \in Nat /\ Count(t.back, k) = Count(B, k) + (IF i = k THEN 1 ELSE 0)
      BY <1>5 DEF LinksLess
    <3> HIDE DEF Count, B
    <3> QED
      BY <1>3, <1>9, <1>13, <3>1, <3>2, <3>3
  <2>2. B = LinkTuples(e) /\ Cardinality(DOMAIN e) = t.entries - 1
    BY <1>5 DEF LinksLess
  <2> HIDE DEF B, Count
  <2>3. v.back = LinkTuples(v.entry) /\ v.entries = Cardinality(DOMAIN v.entry)
    BY <1>13, <2>2
  <2> QED
    BY <2>1, <2>3 DEF SoundLinks, LinkTuples
<1>18. SoundDirs(v)
  <2> SUFFICES ASSUME NEW k \in Dirs(v)
               PROVE  IF v.inode[k].links = 0 THEN v.inode[k].parent = None
                      ELSE /\ v.inode[k].links = 1
                           /\ k # v.root => \E m \in Names : <<k, v.inode[k].parent, m>> \in v.back
    BY DEF SoundDirs
  <2>1. k \in Dirs(t) /\ k \in DOMAIN t.inode
    BY <1>15 DEF Dirs
  <2>2. IF t.inode[k].links = 0 THEN t.inode[k].parent = None
        ELSE /\ t.inode[k].links = 1
             /\ k # t.root => \E m \in Names : <<k, t.inode[k].parent, m>> \in t.back
    BY <2>1 DEF Sound, Ground, Shaped, SoundDirs
  <2>3. CASE k = i
    <3>1. t.inode[i].links = 1
      BY <1>8, <2>2, <2>3
    <3> QED
      BY <1>9, <1>13, <2>3, <3>1
  <2>4. CASE k # i
    <3>1. v.inode[k] = t.inode[k] /\ v.root = t.root
      BY <1>9, <1>13, <2>1, <2>4
    <3>2. \A p, m : <<k, p, m>> \in t.back => <<k, p, m>> \in v.back
      BY <1>13, <2>4
    <3> QED
      BY <2>2, <3>1, <3>2
  <2> QED
    BY <2>3, <2>4
<1>19. NoLoop(v)
  <2> SUFFICES ASSUME NEW S \in SUBSET Hanging(v), S # {} PROVE \E x \in S : v.inode[x].parent \notin S
    BY DEF NoLoop
  <2>1. i \notin S
    <3> SUFFICES ASSUME i \in Hanging(v) PROVE FALSE
      OBVIOUS
    <3>1. i \in Dirs(t) /\ i # t.root /\ v.inode[i].links > 0
      BY <1>13, <1>15 DEF Hanging
    <3>2. t.inode[i].links = 1
      BY <1>8, <3>1 DEF Sound, Ground, Shaped, SoundDirs
    <3> QED
      BY <1>9, <1>13, <3>1, <3>2
  <2>2. PICK x \in S : t.inode[x].parent \notin S
    BY <1>15 DEF Sound, Ground, Shaped, NoLoop
  <2>3. x \in DOMAIN t.inode /\ x # i
    BY <1>15, <2>1 DEF Hanging, Dirs
  <2> QED
    BY <1>9, <1>13, <2>2, <2>3
<1>20. SoundBytes(v)
  <2>1. \A k \in DOMAIN v.inode : v.inode[k].size = t.inode[k].size
    BY <1>9, <1>13
  <2> QED
    BY <1>1, <1>9, <1>13, <2>1, TotalSame DEF Sound, Ground, SoundBytes, Total
<1>21. SoundLocks(v)
  BY <1>9, <1>13 DEF Sound, Ground, SoundLocks
<1>22. Ground(v)
  BY <1>13, <1>16, <1>17, <1>18, <1>19, <1>20, <1>21 DEF Ground, Shaped
<1>23. \A k \in DOMAIN v.inode \ {i} : v.inode[k].links > 0 \/ v.inode[k].refs > 0
  BY <1>9, <1>13 DEF Sound, SoundLive
<1>24. i \in DOMAIN v.inode
  BY <1>3, <1>9, <1>13
<1>25. Keeps(v, Reclaimed(v, i))
  BY <1>22, <1>23, <1>24, ReclaimKeeps
<1>26. Evolves(t, v, {})
  <2>1. v.locks = {l \in t.locks : l.inode \in DOMAIN v.inode}
    BY <1>9, <1>13 DEF Sound, Ground, SoundLocks
  <2> QED
    BY <1>1, <1>9, <1>13, <2>1 DEF Evolves
<1>27. SameRefs(t, v)
  BY <1>9, <1>13 DEF SameRefs, RefsOf
<1>28. Keeps(t, Reclaimed(v, i))
  <2>1. Evolves(t, Reclaimed(v, i), {} \cup {})
    BY <1>22, <1>25, <1>26, EvolvesFurther DEF Keeps, Sound
  <2> QED
    BY <1>25, <1>27, <2>1 DEF Keeps, SameRefs
<1>29. SameBut(v, Reclaimed(v, i), i) /\ Reclaimed(v, i).entry = v.entry
  BY <1>13, <1>24, ReclaimParts
<1>30. Unlinked(t, d, n) = Emit(Reclaimed(v, i), change)
  BY <1>12 DEF v, a, e, c, i
<1> DEFINE w == Reclaimed(v, i)
           u == Unlinked(t, d, n)
<1> HIDE DEF w, u
<1>31. Keeps(w, u) /\ u.entry = w.entry /\ u.inode = w.inode /\ u.root = w.root /\ u.next = w.next
  <2>1. Sound(w) /\ IsTree(w) /\ u = Emit(w, change)
    BY <1>25, <1>30 DEF Keeps, Sound, Ground, w, u
  <2>2. IsTree(u) /\ Core(u) = Core(w)
    BY <2>1, EmitCore
  <2> QED
    BY <2>1, <2>2, CoreKeeps, CoreParts
<1>32. Keeps(t, u)
  BY <1>28, <1>31, KeepsFurther DEF w
<1>33. OneLess(t, u.entry, d, n)
  BY <1>4, <1>13, <1>29, <1>31 DEF w
<1>34. SameBut(t, u, i)
  <2>1. w.root = t.root /\ w.next = t.next
    BY <1>13, <1>29 DEF SameBut, w
  <2>2. DOMAIN t.inode \ {i} \subseteq DOMAIN w.inode /\ DOMAIN w.inode \subseteq DOMAIN t.inode
    BY <1>9, <1>13, <1>29 DEF SameBut, w
  <2>3. \A k \in DOMAIN t.inode \ {i} : w.inode[k] = t.inode[k]
    BY <1>9, <1>13, <1>29 DEF SameBut, w
  <2> QED
    BY <1>31, <2>1, <2>2, <2>3 DEF SameBut
<1>35. Removes(t, w, d, n)
  <2>1. Quiet(v, w)
    BY <1>13, <1>24, ReclaimQuiet DEF w
  <2>2. \A k \in DOMAIN v.inode : v.inode[k].next_cookie = t.inode[k].next_cookie
    BY <1>9, <1>13
  <2> QED
    BY <1>9, <1>13, <2>1, <2>2 DEF Removes, Beside, Quiet, e, c
<1>36. IsTree(w) /\ u = Emit(w, change)
  BY <1>25, <1>30 DEF Keeps, Sound, Ground, w, u
<1> QED
  BY <1>32, <1>33, <1>34, <1>35, <1>36 DEF u, i, change

\* A second name for a file.
LEMMA LinkKeeps ==
  ASSUME NEW t, Sound(t), NEW d, NEW n \in Names, NEW i, MayLink(t, d, n, i)
  PROVE  /\ Keeps(t, Linked(t, d, n, i))
         /\ \E v : /\ IsTree(v) /\ Adds(t, v, d, n, i)
                   /\ DOMAIN v.inode = DOMAIN t.inode /\ v.next = t.next
                   /\ Linked(t, d, n, i) = Emit(v, Change("create", i, EntryPath(t, d, n), <<>>))
<1> DEFINE y == <<d, n>>
           v == Numbered(t, d, n)
           change == Change("create", i, EntryPath(t, d, n), <<>>)
           a == [v.inode EXCEPT ![i].links = @ + 1]
           e == With(t.entry, y, i)
           B == t.back \cup {<<i, d, n>>}
           u == [v EXCEPT !.entry = e, !.back = B, !.entries = t.entries + 1, !.inode = a]
<1>1. /\ IsTree(t) /\ t.inode \in [DOMAIN t.inode -> Records] /\ DOMAIN t.inode \subseteq Inodes
      /\ t.next \in 2 .. LastInode + 1 /\ t.bytes \in Int /\ t.entries \in Int
      /\ t.entry \in [DOMAIN t.entry -> Inodes] /\ DOMAIN t.entry \subseteq Inodes \X Names
      /\ t.back \subseteq Inodes \X Inodes \X Names
  BY TreeParts DEF Sound, Ground
<1>2. /\ d \in Dirs(t) /\ d \in DOMAIN t.inode /\ t.inode[d].links > 0
      /\ y \notin DOMAIN t.entry /\ i \in DOMAIN t.inode /\ i \notin Dirs(t) /\ i \in Inodes
  BY <1>1 DEF MayLink, MayEnter, IsDirectory, Exists, Listed, Dirs
<1>3. i # t.root
  BY <1>2 DEF Sound, Ground, Shaped, SoundEntries
<1>4. /\ IsTree(v)
      /\ v.root = t.root /\ v.next = t.next /\ v.generation = t.generation
      /\ v.entry = t.entry /\ v.back = t.back /\ v.bytes = t.bytes
      /\ v.entries = t.entries /\ v.locks = t.locks /\ v.tracking = t.tracking
      /\ DOMAIN v.inode = DOMAIN t.inode
      /\ \A k \in DOMAIN t.inode :
           /\ v.inode[k] \in Records
           /\ v.inode[k].kind = t.inode[k].kind /\ v.inode[k].links = t.inode[k].links
           /\ v.inode[k].parent = t.inode[k].parent /\ v.inode[k].size = t.inode[k].size
           /\ v.inode[k].refs = t.inode[k].refs
      /\ v.changes = t.changes
      /\ v.cookie = With(t.cookie, <<d, n>>, t.inode[d].next_cookie)
      /\ \A k \in DOMAIN t.inode :
           v.inode[k].next_cookie = t.inode[k].next_cookie + (IF k = d THEN 1 ELSE 0)
  BY <1>1, <1>2, NumberedParts
<1> HIDE DEF v, change
<1>5. v.inode \in [DOMAIN t.inode -> Records]
  BY <1>4, TreeParts
<1>6. a \in [DOMAIN t.inode -> Records]
  <2>1. v.inode[i].links + 1 \in Nat
    BY <1>2, <1>4 DEF Records
  <2> QED
    BY <1>2, <1>5, <2>1 DEF Records
<1>7. DOMAIN a = DOMAIN t.inode
      /\ \A k \in DOMAIN t.inode :
           /\ a[k].kind = t.inode[k].kind /\ a[k].parent = t.inode[k].parent
           /\ a[k].size = t.inode[k].size /\ a[k].refs = t.inode[k].refs
           /\ a[k].links = t.inode[k].links + (IF k = i THEN 1 ELSE 0)
           /\ a[k].next_cookie = v.inode[k].next_cookie
           /\ t.inode[k].links \in Nat
  BY <1>1, <1>4, <1>5 DEF Records
<1>8. /\ DOMAIN e = DOMAIN t.entry \cup {y} /\ e[y] = i
      /\ \A x \in DOMAIN t.entry : e[x] = t.entry[x]
  BY <1>2 DEF With
<1>9. e \in Maps(Inodes \X Names, Inodes)
  <2>1. DOMAIN e \subseteq Inodes \X Names /\ \A x \in DOMAIN e : e[x] \in Inodes
    BY <1>1, <1>2, <1>8
  <2>2. e = [x \in DOMAIN e |-> e[x]]
    BY DEF With
  <2> HIDE DEF e
  <2>3. e \in [DOMAIN e -> Inodes]
    BY <2>1, <2>2
  <2> QED
    BY <2>1, <2>3, MapIs
<1>10. Linked(t, d, n, i) = Emit(u, change)
  <2>1. u = [Numbered(t, d, n) EXCEPT
               !.entry = With(@, <<d, n>>, i), !.back = @ \cup {<<i, d, n>>},
               !.entries = @ + 1, !.inode[i].links = @ + 1]
    BY <1>2, <1>4 DEF IsTree, Trees, v
  <2> HIDE DEF u
  <2> QED
    BY <2>1 DEF Linked, change
<1> HIDE DEF a, e
<1>11. LinksMore(t, e, B, i)
  <2>1. Recorded(t) /\ d \in Inodes
    BY <1>1, <1>2 DEF Sound, Ground, Shaped, SoundEntries, SoundLinks, Recorded
  <2>2. OneMore(t, e, d, n, i)
    BY <1>8 DEF OneMore
  <2>3. IsTree(t) /\ i \in Inodes /\ <<d, n>> \notin DOMAIN t.entry
    BY <1>1, <1>2
  <2> QED
    BY <2>1, <2>2, <2>3, LinkAdded
<1>12. /\ IsTree(u) /\ u.inode = a /\ u.root = t.root /\ u.entry = e /\ u.back = B
       /\ u.entries = t.entries + 1 /\ u.next = t.next /\ u.generation = t.generation
       /\ u.locks = t.locks /\ u.bytes = t.bytes
       /\ u.changes = v.changes /\ u.cookie = v.cookie /\ u.tracking = v.tracking
  <2>1. t.entries + 1 \in Int /\ B \subseteq Inodes \X Inodes \X Names /\ a \in Maps(Inodes, Records)
    BY <1>1, <1>6, <1>11, MapIs DEF LinksMore
  <2> HIDE DEF B
  <2> QED
    BY <1>4, <1>9, <2>1 DEF IsTree, Trees
<1> HIDE DEF u
<1>13. Dirs(u) = Dirs(t) /\ Hanging(u) = Hanging(t)
  BY <1>2, <1>7, <1>12 DEF Dirs, Hanging
<1>14. SoundEntries(u)
  <2>1. ASSUME NEW x \in DOMAIN u.entry
        PROVE  /\ x[1] \in Dirs(u) /\ u.inode[x[1]].links > 0
               /\ u.entry[x] \in DOMAIN u.inode /\ u.entry[x] # u.root
    <3>1. x[1] \in Dirs(t) /\ x[1] \in DOMAIN t.inode /\ t.inode[x[1]].links > 0
          /\ u.entry[x] \in DOMAIN t.inode /\ u.entry[x] # t.root
      <4>1. CASE x = y
        <5>1. x[1] = d /\ u.entry[x] = i
          BY <1>8, <1>12, <4>1
        <5> QED
          BY <1>2, <1>3, <5>1
      <4>2. CASE x \in DOMAIN t.entry
        BY <1>8, <1>12, <4>2 DEF Sound, Ground, Shaped, SoundEntries, Dirs
      <4> QED
        BY <1>8, <1>12, <4>1, <4>2
    <3> QED
      BY <1>2, <1>7, <1>12, <1>13, <3>1
  <2>2. u.root \in Dirs(u) /\ DOMAIN u.inode \subseteq 1 .. u.next - 1 /\ IsFiniteSet(DOMAIN u.entry)
    BY <1>7, <1>11, <1>12, <1>13 DEF Sound, Ground, Shaped, SoundEntries, LinksMore
  <2> QED
    BY <2>1, <2>2 DEF SoundEntries
<1>15. SoundLinks(u)
  <2>1. ASSUME NEW k \in DOMAIN u.inode
        PROVE  u.inode[k].links = Count(u.back, k) + (IF k = u.root THEN 1 ELSE 0)
    <3>1. k \in DOMAIN t.inode
      BY <1>7, <1>12
    <3>2. t.inode[k].links = Count(t.back, k) + (IF k = t.root THEN 1 ELSE 0)
      BY <3>1 DEF Sound, Ground, Shaped, SoundLinks
    <3>3. Count(t.back, k) \in Nat /\ Count(B, k) = Count(t.back, k) + (IF i = k THEN 1 ELSE 0)
      BY <1>11 DEF LinksMore
    <3> HIDE DEF Count, B
    <3> QED
      BY <1>3, <1>7, <1>12, <3>1, <3>2, <3>3
  <2>2. B = LinkTuples(e) /\ Cardinality(DOMAIN e) = t.entries + 1
    BY <1>11 DEF LinksMore
  <2> HIDE DEF B, Count
  <2>3. u.back = LinkTuples(u.entry) /\ u.entries = Cardinality(DOMAIN u.entry)
    BY <1>12, <2>2
  <2> QED
    BY <2>1, <2>3 DEF SoundLinks, LinkTuples
<1>16. SoundDirs(u)
  <2> SUFFICES ASSUME NEW k \in Dirs(u)
               PROVE  IF u.inode[k].links = 0 THEN u.inode[k].parent = None
                      ELSE /\ u.inode[k].links = 1
                           /\ k # u.root => \E m \in Names : <<k, u.inode[k].parent, m>> \in u.back
    BY DEF SoundDirs
  <2>1. k \in Dirs(t) /\ k \in DOMAIN t.inode /\ k # i
    BY <1>2, <1>13 DEF Dirs
  <2>2. IF t.inode[k].links = 0 THEN t.inode[k].parent = None
        ELSE /\ t.inode[k].links = 1
             /\ k # t.root => \E m \in Names : <<k, t.inode[k].parent, m>> \in t.back
    BY <2>1 DEF Sound, Ground, Shaped, SoundDirs
  <2>3. u.inode[k].links = t.inode[k].links /\ u.inode[k].parent = t.inode[k].parent
    BY <1>7, <1>12, <2>1
  <2>4. t.back \subseteq u.back /\ u.root = t.root
    BY <1>12
  <2> QED
    BY <2>2, <2>3, <2>4
<1>17. NoLoop(u)
  <2> SUFFICES ASSUME NEW S \in SUBSET Hanging(u), S # {} PROVE \E x \in S : u.inode[x].parent \notin S
    BY DEF NoLoop
  <2>1. PICK x \in S : t.inode[x].parent \notin S
    BY <1>13 DEF Sound, Ground, Shaped, NoLoop
  <2>2. x \in DOMAIN t.inode
    BY <1>13 DEF Hanging, Dirs
  <2> QED
    BY <1>7, <1>12, <2>1, <2>2
<1>18. SoundBytes(u)
  <2>1. \A k \in DOMAIN u.inode : u.inode[k].size = t.inode[k].size
    BY <1>7, <1>12
  <2> QED
    BY <1>1, <1>7, <1>12, <2>1, TotalSame DEF Sound, Ground, SoundBytes, Total
<1>19. SoundLocks(u) /\ SoundLive(u)
  BY <1>7, <1>12 DEF Sound, Ground, SoundLocks, SoundLive
<1>20. Evolves(t, u, {})
  <2>1. u.locks = {l \in t.locks : l.inode \in DOMAIN u.inode}
    BY <1>7, <1>12 DEF Sound, Ground, SoundLocks
  <2> QED
    BY <1>1, <1>7, <1>12, <2>1 DEF Evolves
<1>21. SameRefs(t, u)
  BY <1>7, <1>12 DEF SameRefs, RefsOf
<1>22. Keeps(t, u)
  BY <1>12, <1>14, <1>15, <1>16, <1>17, <1>18, <1>19, <1>20, <1>21 DEF Keeps, Sound, Ground, Shaped
<1>23. Linked(t, d, n, i) = Emit(u, change)
  BY <1>10 DEF u, a, e, B
<1>24. Keeps(u, Emit(u, change))
  BY <1>12, <1>22, EmitCore, CoreKeeps DEF Keeps
<1>25. Adds(t, u, d, n, i) /\ DOMAIN u.inode = DOMAIN t.inode
  BY <1>4, <1>7, <1>12 DEF Adds, Beside, e
<1> HIDE DEF u
<1> QED
  BY <1>12, <1>22, <1>23, <1>24, <1>25, KeepsFurther DEF change

\* What moving an entry leaves of a tree before the entry itself moves.
LEMMA RenumberedParts ==
  ASSUME NEW t, IsTree(t), NEW e \in DOMAIN t.inode, NEW m \in Names, NEW d, NEW n
  PROVE  LET u == Renumbered(t, d, n, e, m)
         IN /\ IsTree(u)
            /\ u.root = t.root /\ u.next = t.next /\ u.generation = t.generation
            /\ u.entry = t.entry /\ u.back = t.back /\ u.bytes = t.bytes
            /\ u.entries = t.entries /\ u.locks = t.locks /\ u.tracking = t.tracking
            /\ DOMAIN u.inode = DOMAIN t.inode
            /\ \A k \in DOMAIN t.inode :
                 /\ u.inode[k] \in Records
                 /\ u.inode[k].kind = t.inode[k].kind /\ u.inode[k].links = t.inode[k].links
                 /\ u.inode[k].parent = t.inode[k].parent /\ u.inode[k].size = t.inode[k].size
                 /\ u.inode[k].refs = t.inode[k].refs
            /\ u.changes = t.changes /\ Shifts(t, u, d, n, e, m)
<1> DEFINE c == Restrict(t.cookie, DOMAIN t.cookie \ {<<d, n>>})
           rest == [t EXCEPT !.cookie = c]
<1>1. \A k \in DOMAIN t.inode : t.inode[k] \in Records
  BY TreeParts
<1>2. /\ IsTree(rest) /\ rest.root = t.root /\ rest.next = t.next /\ rest.generation = t.generation
      /\ rest.entry = t.entry /\ rest.back = t.back /\ rest.bytes = t.bytes
      /\ rest.entries = t.entries /\ rest.locks = t.locks /\ rest.tracking = t.tracking
      /\ rest.inode = t.inode /\ rest.changes = t.changes /\ rest.cookie = c
  BY DEF IsTree, Trees
<1>3. rest = [t EXCEPT !.cookie = Restrict(@, DOMAIN @ \ {<<d, n>>})]
  BY DEF IsTree, Trees
<1>6. \A k \in DOMAIN t.inode : t.inode[k].next_cookie + 0 = t.inode[k].next_cookie
  BY <1>1 DEF Records
<1> HIDE DEF rest
<1>4. CASE d = e
  <2> DEFINE b == With(rest.cookie, <<e, m>>, t.cookie[<<d, n>>])
             u == [rest EXCEPT !.cookie = b]
  <2>1. /\ IsTree(u) /\ u.root = t.root /\ u.next = t.next /\ u.generation = t.generation
        /\ u.entry = t.entry /\ u.back = t.back /\ u.bytes = t.bytes
        /\ u.entries = t.entries /\ u.locks = t.locks /\ u.tracking = t.tracking
        /\ u.inode = t.inode /\ u.changes = t.changes /\ u.cookie = b
    BY <1>2 DEF IsTree, Trees
  <2>2. u = Renumbered(t, d, n, e, m)
    <3>1. u = [rest EXCEPT !.cookie = With(@, <<e, m>>, t.cookie[<<d, n>>])]
      BY <1>2 DEF IsTree, Trees
    <3> HIDE DEF u
    <3> QED
      BY <1>3, <1>4, <3>1 DEF Renumbered
  <2> HIDE DEF u
  <2> QED
    BY <1>1, <1>2, <1>4, <1>6, <2>1, <2>2 DEF Shifts
<1>5. CASE d # e
  <2>1. Renumbered(t, d, n, e, m) = Numbered(rest, e, m)
    BY <1>3, <1>5 DEF Renumbered
  <2> QED
    BY <1>2, <1>5, <2>1, NumberedParts DEF Shifts
<1> QED
  BY <1>4, <1>5

\* Some set of directories holds e and the ones above it, and not i.
ClearOf(t, e, i) ==
  \E A : e \in A /\ i \notin A /\ \A x \in A \cap Hanging(t) : t.inode[x].parent \in A

\* The entry <<d, n>> of t made the entry <<e, m>>, which was free.
Rehung(t, d, n, e, m, parent) ==
  LET i == t.entry[<<d, n>>]
  IN [Renumbered(t, d, n, e, m) EXCEPT
        !.entry = With(Restrict(@, DOMAIN @ \ {<<d, n>>}), <<e, m>>, i),
        !.back = (@ \ {<<i, d, n>>}) \cup {<<i, e, m>>},
        !.inode[i].parent = parent]

LEMMA RehungKeeps ==
  ASSUME NEW t, Sound(t), NEW d, NEW n, <<d, n>> \in DOMAIN t.entry,
         NEW e \in Dirs(t), t.inode[e].links > 0, NEW m \in Names, <<e, m>> \notin DOMAIN t.entry,
         NEW parent \in 0 .. LastInode,
         t.entry[<<d, n>>] \in Dirs(t) => parent = e /\ ClearOf(t, e, t.entry[<<d, n>>])
  PROVE  LET u == Rehung(t, d, n, e, m, parent)
         IN Keeps(t, u) /\ Moves(t, u, d, n, e, m)
<1> DEFINE y == <<d, n>>
           z == <<e, m>>
           i == t.entry[y]
           v == Renumbered(t, d, n, e, m)
           a == [v.inode EXCEPT ![i].parent = parent]
           g == Restrict(t.entry, DOMAIN t.entry \ {y})
           f == With(g, z, i)
           C == t.back \ {<<i, d, n>>}
           B == C \cup {<<i, e, m>>}
           u == [v EXCEPT !.entry = f, !.back = B, !.inode = a]
<1>1. /\ IsTree(t) /\ t.inode \in [DOMAIN t.inode -> Records] /\ DOMAIN t.inode \subseteq Inodes
      /\ t.next \in 2 .. LastInode + 1 /\ t.bytes \in Int /\ t.entries \in Int
      /\ t.entry \in [DOMAIN t.entry -> Inodes] /\ DOMAIN t.entry \subseteq Inodes \X Names
      /\ t.back \subseteq Inodes \X Inodes \X Names
  BY TreeParts DEF Sound, Ground
<1>2. /\ i \in DOMAIN t.inode /\ i # t.root /\ i \in Inodes
      /\ e \in DOMAIN t.inode /\ e \in Inodes
  BY <1>1 DEF Sound, Ground, Shaped, SoundEntries, Dirs
<1>3. /\ IsTree(v)
      /\ v.root = t.root /\ v.next = t.next /\ v.generation = t.generation
      /\ v.entry = t.entry /\ v.back = t.back /\ v.bytes = t.bytes
      /\ v.entries = t.entries /\ v.locks = t.locks /\ v.tracking = t.tracking
      /\ DOMAIN v.inode = DOMAIN t.inode
      /\ \A k \in DOMAIN t.inode :
           /\ v.inode[k] \in Records
           /\ v.inode[k].kind = t.inode[k].kind /\ v.inode[k].links = t.inode[k].links
           /\ v.inode[k].parent = t.inode[k].parent /\ v.inode[k].size = t.inode[k].size
           /\ v.inode[k].refs = t.inode[k].refs
      /\ v.changes = t.changes /\ Shifts(t, v, d, n, e, m)
  BY <1>1, <1>2, RenumberedParts
<1> HIDE DEF v
<1>4. v.inode \in [DOMAIN t.inode -> Records]
  BY <1>3, TreeParts
<1>5. a \in [DOMAIN t.inode -> Records]
  BY <1>2, <1>4 DEF Records
<1>6. /\ DOMAIN a = DOMAIN t.inode /\ a[i].parent = parent
      /\ \A k \in DOMAIN t.inode :
           /\ a[k].kind = t.inode[k].kind /\ a[k].links = t.inode[k].links
           /\ a[k].size = t.inode[k].size /\ a[k].refs = t.inode[k].refs
           /\ k # i => a[k].parent = t.inode[k].parent
           /\ a[k].next_cookie = v.inode[k].next_cookie
  BY <1>2, <1>3, <1>4 DEF Records
<1>7. Rehung(t, d, n, e, m, parent) = u
  <2>1. u = [Renumbered(t, d, n, e, m) EXCEPT
               !.entry = With(Restrict(@, DOMAIN @ \ {<<d, n>>}), <<e, m>>, i),
               !.back = (@ \ {<<i, d, n>>}) \cup {<<i, e, m>>},
               !.inode[i].parent = parent]
    BY <1>2, <1>3 DEF IsTree, Trees, v
  <2> HIDE DEF u
  <2> QED
    BY <2>1 DEF Rehung
<1>8. OneLess(t, g, d, n)
  BY DEF OneLess, Restrict
<1>9. /\ DOMAIN f = DOMAIN g \cup {z} /\ f[z] = i
      /\ \A x \in DOMAIN g : f[x] = g[x]
  BY <1>8 DEF With, OneLess
<1>10. g \in Maps(Inodes \X Names, Inodes)
  <2>1. g \in [DOMAIN g -> Inodes] /\ DOMAIN g \subseteq Inodes \X Names
    BY <1>1 DEF Restrict
  <2> HIDE DEF g
  <2> QED
    BY <2>1, MapIs
<1>11. f \in Maps(Inodes \X Names, Inodes)
  <2> HIDE DEF g
  <2>1. DOMAIN g \subseteq Inodes \X Names /\ g \in [DOMAIN g -> Inodes]
    BY <1>10, MapIs
  <2>2. DOMAIN f \subseteq Inodes \X Names /\ \A x \in DOMAIN f : f[x] \in Inodes
    BY <1>2, <1>9, <2>1
  <2>3. f = [x \in DOMAIN f |-> f[x]]
    BY DEF With
  <2> HIDE DEF f
  <2>4. f \in [DOMAIN f -> Inodes]
    BY <2>2, <2>3
  <2> QED
    BY <2>2, <2>4, MapIs
<1> HIDE DEF a, f, g
<1>12. <<i, d, n>> \in t.back /\ LinksLess(t, g, C, i)
  <2>1. Recorded(t)
    BY DEF Sound, Ground, Shaped, SoundEntries, SoundLinks, Recorded
  <2> QED
    BY <1>1, <1>8, <2>1, LinkTaken
<1> DEFINE w == [t EXCEPT !.entry = g, !.back = C, !.entries = t.entries - 1]
<1>13. /\ IsTree(w) /\ w.entry = g /\ w.back = C /\ w.entries = t.entries - 1
  <2>1. t.entries - 1 \in Int /\ C \subseteq Inodes \X Inodes \X Names
    BY <1>1
  <2> HIDE DEF C
  <2> QED
    BY <1>1, <1>10, <2>1 DEF IsTree, Trees
<1> HIDE DEF w
<1>14. Recorded(w)
  <2>1. C = LinkTuples(g) /\ IsFiniteSet(DOMAIN g) /\ Cardinality(DOMAIN g) = t.entries - 1
    BY <1>12 DEF LinksLess
  <2> HIDE DEF C
  <2> QED
    BY <1>13, <2>1 DEF Recorded, LinkTuples
<1>15. LinksMore(w, f, B, i)
  <2>1. OneMore(w, f, e, m, i)
    BY <1>9, <1>13 DEF OneMore
  <2>2. <<e, m>> \notin DOMAIN w.entry
    BY <1>8, <1>13 DEF OneLess
  <2>3. LinksMore(w, f, w.back \cup {<<i, e, m>>}, i)
    BY <1>2, <1>13, <1>14, <2>1, <2>2, LinkAdded
  <2> QED
    BY <1>13, <2>3
<1>16. /\ B = LinkTuples(f) /\ B \subseteq Inodes \X Inodes \X Names
       /\ IsFiniteSet(DOMAIN f) /\ Cardinality(DOMAIN f) = t.entries
  <2> HIDE DEF B
  <2>1. /\ B = LinkTuples(f) /\ B \subseteq Inodes \X Inodes \X Names
        /\ IsFiniteSet(DOMAIN f) /\ Cardinality(DOMAIN f) = t.entries - 1 + 1
    BY <1>13, <1>15 DEF LinksMore
  <2> QED
    BY <1>1, <2>1
<1>17. \A k : Count(B, k) = Count(t.back, k) /\ Count(B, k) \in Nat
  <2> SUFFICES ASSUME NEW k PROVE Count(B, k) = Count(t.back, k) /\ Count(B, k) \in Nat
    OBVIOUS
  <2>1. Count(C, k) \in Nat /\ Count(t.back, k) = Count(C, k) + (IF i = k THEN 1 ELSE 0)
    BY <1>12 DEF LinksLess
  <2>2. Count(B, k) = Count(C, k) + (IF i = k THEN 1 ELSE 0)
    <3> HIDE DEF B, C
    <3> QED
      BY <1>13, <1>15 DEF LinksMore
  <2> HIDE DEF Count, B, C
  <2> QED
    BY <2>1, <2>2
<1>18. /\ IsTree(u) /\ u.inode = a /\ u.root = t.root /\ u.entry = f /\ u.back = B
       /\ u.entries = t.entries /\ u.next = t.next /\ u.generation = t.generation
       /\ u.locks = t.locks /\ u.bytes = t.bytes
       /\ u.changes = v.changes /\ u.cookie = v.cookie /\ u.tracking = v.tracking
  <2>1. a \in Maps(Inodes, Records)
    BY <1>1, <1>5, MapIs
  <2> HIDE DEF B
  <2> QED
    BY <1>3, <1>11, <1>16, <2>1 DEF IsTree, Trees
<1> HIDE DEF u, i
<1>19. Dirs(u) = Dirs(t) /\ Hanging(u) = Hanging(t)
  BY <1>6, <1>18 DEF Dirs, Hanging
<1>20. SoundEntries(u)
  <2>1. ASSUME NEW x \in DOMAIN u.entry
        PROVE  /\ x[1] \in Dirs(u) /\ u.inode[x[1]].links > 0
               /\ u.entry[x] \in DOMAIN u.inode /\ u.entry[x] # u.root
    <3>1. x[1] \in Dirs(t) /\ x[1] \in DOMAIN t.inode /\ t.inode[x[1]].links > 0
          /\ u.entry[x] \in DOMAIN t.inode /\ u.entry[x] # t.root
      <4>1. CASE x = z
        <5>1. x[1] = e /\ u.entry[x] = i
          BY <1>9, <1>18, <4>1
        <5> QED
          BY <1>2, <5>1
      <4>2. CASE x \in DOMAIN g
        <5>1. x \in DOMAIN t.entry /\ u.entry[x] = t.entry[x]
          BY <1>8, <1>9, <1>18, <4>2 DEF OneLess
        <5> QED
          BY <5>1 DEF Sound, Ground, Shaped, SoundEntries, Dirs
      <4> QED
        BY <1>9, <1>18, <4>1, <4>2
    <3> QED
      BY <1>6, <1>18, <1>19, <3>1
  <2>2. u.root \in Dirs(u) /\ DOMAIN u.inode \subseteq 1 .. u.next - 1 /\ IsFiniteSet(DOMAIN u.entry)
    BY <1>6, <1>16, <1>18, <1>19 DEF Sound, Ground, Shaped, SoundEntries
  <2> QED
    BY <2>1, <2>2 DEF SoundEntries
<1>21. SoundLinks(u)
  <2>1. ASSUME NEW k \in DOMAIN u.inode
        PROVE  u.inode[k].links = Count(u.back, k) + (IF k = u.root THEN 1 ELSE 0)
    <3>1. k \in DOMAIN t.inode
      BY <1>6, <1>18
    <3>2. t.inode[k].links = Count(t.back, k) + (IF k = t.root THEN 1 ELSE 0)
      BY <3>1 DEF Sound, Ground, Shaped, SoundLinks
    <3> HIDE DEF Count, B
    <3> QED
      BY <1>6, <1>17, <1>18, <3>1, <3>2
  <2> HIDE DEF B, Count
  <2>2. u.back = LinkTuples(u.entry) /\ u.entries = Cardinality(DOMAIN u.entry)
    BY <1>16, <1>18
  <2> QED
    BY <2>1, <2>2 DEF SoundLinks, LinkTuples
<1>22. SoundDirs(u)
  <2> SUFFICES ASSUME NEW k \in Dirs(u)
               PROVE  IF u.inode[k].links = 0 THEN u.inode[k].parent = None
                      ELSE /\ u.inode[k].links = 1
                           /\ k # u.root => \E q \in Names : <<k, u.inode[k].parent, q>> \in u.back
    BY DEF SoundDirs
  <2>1. k \in Dirs(t) /\ k \in DOMAIN t.inode
    BY <1>19 DEF Dirs
  <2>2. IF t.inode[k].links = 0 THEN t.inode[k].parent = None
        ELSE /\ t.inode[k].links = 1
             /\ k # t.root => \E q \in Names : <<k, t.inode[k].parent, q>> \in t.back
    BY <2>1 DEF Sound, Ground, Shaped, SoundDirs
  <2>3. CASE k = i
    <3>1. u.inode[k].parent = e
      BY <1>6, <1>18, <2>1, <2>3 DEF i
    <3>2. <<k, e, m>> \in u.back
      BY <1>18, <2>3
    <3>3. u.inode[k].links # 0
      <4>1. IsFiniteSet(t.back)
        BY LinksFinite DEF Sound, Ground, Shaped, SoundEntries, SoundLinks, Recorded
      <4>2. ~ \A b \in t.back : b[1] # i
        BY <1>12
      <4>3. Count(t.back, i) \in Nat /\ Count(t.back, i) # 0
        BY <4>1, <4>2, CountNone
      <4>4. t.inode[i].links = Count(t.back, i) + 0
        BY <1>2 DEF Sound, Ground, Shaped, SoundLinks
      <4> HIDE DEF Count
      <4> QED
        BY <1>6, <1>18, <2>1, <2>3, <4>3, <4>4
    <3> QED
      BY <1>6, <1>18, <2>1, <2>2, <3>1, <3>2, <3>3
  <2>4. CASE k # i
    <3>1. u.inode[k].links = t.inode[k].links /\ u.inode[k].parent = t.inode[k].parent /\ u.root = t.root
      BY <1>6, <1>18, <2>1, <2>4
    <3>2. \A p, q : <<k, p, q>> \in t.back => <<k, p, q>> \in u.back
      BY <1>18, <2>4
    <3> QED
      BY <2>2, <3>1, <3>2
  <2> QED
    BY <2>3, <2>4
<1>23. NoLoop(u)
  <2> SUFFICES ASSUME NEW S \in SUBSET Hanging(u), S # {} PROVE \E x \in S : u.inode[x].parent \notin S
    BY DEF NoLoop
  <2>1. \A x \in S : x \in DOMAIN t.inode /\ x \in Dirs(t)
    BY <1>19 DEF Hanging, Dirs
  <2>2. \A x \in S \ {i} : u.inode[x].parent = t.inode[x].parent
    BY <1>6, <1>18, <2>1
  <2>3. CASE i \notin S
    <3>1. PICK x \in S : t.inode[x].parent \notin S
      BY <1>19 DEF Sound, Ground, Shaped, NoLoop
    <3> QED
      BY <2>2, <2>3, <3>1
  <2>4. CASE i \in S
    <3>1. i \in Dirs(t)
      BY <2>1, <2>4
    <3>2. parent = e /\ ClearOf(t, e, i)
      BY <3>1 DEF i
    <3>3. u.inode[i].parent = e
      BY <1>6, <1>18, <3>2
    <3>4. CASE e \notin S
      BY <2>4, <3>3, <3>4
    <3>5. CASE e \in S
      <4>1. PICK A : e \in A /\ i \notin A /\ \A x \in A \cap Hanging(t) : t.inode[x].parent \in A
        BY <3>2 DEF ClearOf
      <4>2. S \cap A \in SUBSET Hanging(t) /\ S \cap A # {}
        BY <1>19, <3>5, <4>1
      <4>3. PICK x \in S \cap A : t.inode[x].parent \notin S \cap A
        BY <4>2 DEF Sound, Ground, Shaped, NoLoop
      <4>4. t.inode[x].parent \notin S /\ x # i
        BY <4>1, <4>2, <4>3
      <4> QED
        BY <2>2, <4>3, <4>4
    <3> QED
      BY <3>4, <3>5
  <2> QED
    BY <2>3, <2>4
<1>24. SoundBytes(u)
  <2>1. \A k \in DOMAIN u.inode : u.inode[k].size = t.inode[k].size
    BY <1>6, <1>18
  <2> QED
    BY <1>1, <1>6, <1>18, <2>1, TotalSame DEF Sound, Ground, SoundBytes, Total
<1>25. SoundLocks(u) /\ SoundLive(u)
  BY <1>6, <1>18 DEF Sound, Ground, SoundLocks, SoundLive
<1>26. Evolves(t, u, {})
  <2>1. u.locks = {l \in t.locks : l.inode \in DOMAIN u.inode}
    BY <1>6, <1>18 DEF Sound, Ground, SoundLocks
  <2> QED
    BY <1>1, <1>6, <1>18, <2>1 DEF Evolves
<1>27. SameRefs(t, u)
  BY <1>6, <1>18 DEF SameRefs, RefsOf
<1>28. Moves(t, u, d, n, e, m)
  <2>1. Shifts(t, u, d, n, e, m)
    BY <1>3, <1>6, <1>18 DEF Shifts
  <2> QED
    BY <1>3, <1>18, <2>1 DEF Moves, Beside, f, g, i
<1> QED
  BY <1>7, <1>18, <1>28, <1>20, <1>21, <1>22, <1>23, <1>24, <1>25, <1>26, <1>27 DEF Keeps, Sound, Ground, Shaped

-----------------------------------------------------------------------------
(* Climbing from parent to parent.                                         *)

Above(t) == [x \in 0 .. LastInode |-> IF Exists(t, x) THEN t.inode[x].parent ELSE None]
Climbs(up, t, d) == Follows(up, LastInode, 0 .. LastInode, d, [k \in 1 .. LastInode |-> Above(t)])

LEMMA AboveType ==
  ASSUME NEW t, IsTree(t)
  PROVE  Above(t) \in [0 .. LastInode -> 0 .. LastInode] /\ Above(t)[None] = None
<1>1. t.inode \in [DOMAIN t.inode -> Records] /\ DOMAIN t.inode \subseteq Inodes
  BY TreeParts
<1>2. \A x \in DOMAIN t.inode : t.inode[x].parent \in 0 .. LastInode
  BY <1>1 DEF Records
<1>3. None \in 0 .. LastInode /\ None \notin Inodes
  BY NamespaceAssumption DEF None, Inodes
<1> QED
  BY <1>1, <1>2, <1>3 DEF Above, Exists

\* Ancestors is what the climb meets.
LEMMA AncestorsClimb ==
  ASSUME NEW t, IsTree(t), NEW d \in Inodes
  PROVE  \E up : Climbs(up, t, d) /\ Ancestors(t, d) = {up[k] : k \in 0 .. LastInode} \ {None}
<1> DEFINE F(f) == [k \in 0 .. LastInode |->
                      IF k = 0 THEN d
                      ELSE LET below == f[k - 1]
                           IN IF Exists(t, below) THEN t.inode[below].parent ELSE None]
           iter == CHOOSE f : f = F(f)
           step == [k \in 1 .. LastInode |-> Above(t)]
<1>1. Ancestors(t, d) = {iter[k] : k \in 0 .. LastInode} \ {None}
  BY DEF Ancestors
<1>2. LastInode \in Nat /\ d \in 0 .. LastInode
  BY NamespaceAssumption DEF Inodes
<1>3. step \in [1 .. LastInode -> [0 .. LastInode -> 0 .. LastInode]]
  BY AboveType
<1>4. PICK f : Follows(f, LastInode, 0 .. LastInode, d, step)
  <2> HIDE DEF step
  <2> QED
    BY <1>2, <1>3, Recursion
<1>5. f = F(f)
  <2>1. f \in [0 .. LastInode -> 0 .. LastInode] /\ f[0] = d
    BY <1>4 DEF Follows
  <2>2. ASSUME NEW k \in 0 .. LastInode, k # 0
        PROVE  f[k] = IF Exists(t, f[k - 1]) THEN t.inode[f[k - 1]].parent ELSE None
    <3>1. k \in 1 .. LastInode /\ k - 1 \in 0 .. LastInode
      BY <1>2, <2>2
    <3>2. f[k] = step[k][f[k - 1]] /\ f[k - 1] \in 0 .. LastInode
      BY <1>4, <2>1, <3>1 DEF Follows
    <3> QED
      BY <3>1, <3>2 DEF Above
  <2> QED
    BY <2>1, <2>2
<1>6. iter = F(iter)
  <2>1. \E g : g = F(g)
    BY <1>5
  <2> HIDE DEF F
  <2> QED
    BY <2>1, Zenon
<1> HIDE DEF iter
<1>7. /\ DOMAIN iter = 0 .. LastInode /\ iter = [k \in 0 .. LastInode |-> iter[k]] /\ iter[0] = d
      /\ \A k \in 1 .. LastInode : iter[k] = IF Exists(t, iter[k - 1]) THEN t.inode[iter[k - 1]].parent ELSE None
  <2>1. \A k \in 1 .. LastInode : k \in 0 .. LastInode /\ k # 0
    BY <1>2
  <2>2. 0 \in 0 .. LastInode
    BY <1>2
  <2> QED
    BY <1>6, <2>1, <2>2
<1>8. \A k \in 0 .. LastInode : iter[k] \in 0 .. LastInode
  <2> DEFINE Q == {k \in 0 .. LastInode : iter[k] \in 0 .. LastInode}
  <2>1. 0 \in Q
    BY <1>2, <1>7
  <2>2. ASSUME NEW k \in 0 .. LastInode - 1, k \in Q PROVE k + 1 \in Q
    <3>1. k + 1 \in 1 .. LastInode /\ k + 1 \in 0 .. LastInode /\ (k + 1) - 1 = k
      BY <1>2
    <3>2. iter[k + 1] = IF Exists(t, iter[k]) THEN t.inode[iter[k]].parent ELSE None
      BY <1>7, <3>1
    <3>3. Above(t)[iter[k]] \in 0 .. LastInode /\ iter[k] \in 0 .. LastInode
      BY <2>2, AboveType
    <3>4. iter[k + 1] = Above(t)[iter[k]]
      BY <3>2, <3>3 DEF Above
    <3> QED
      BY <3>1, <3>3, <3>4
  <2> HIDE DEF Q
  <2>3. \A k \in 0 .. LastInode : k \in Q
    BY <1>2, <2>1, <2>2, InductionUpTo
  <2> QED
    BY <2>3 DEF Q
<1>9. ASSUME NEW k \in 1 .. LastInode PROVE iter[k] = step[k][iter[k - 1]]
  <2>1. k - 1 \in 0 .. LastInode
    BY <1>2
  <2>2. iter[k - 1] \in 0 .. LastInode
    BY <1>8, <2>1
  <2> QED
    BY <1>7, <2>2 DEF Above
<1>10. iter \in [0 .. LastInode -> 0 .. LastInode]
  BY <1>7, <1>8
<1> HIDE DEF step
<1>11. Follows(iter, LastInode, 0 .. LastInode, d, step)
  BY <1>7, <1>9, <1>10 DEF Follows
<1> QED
  BY <1>1, <1>11 DEF Climbs, step

\* There are not enough inodes to climb for ever without meeting one again: what is
\* above an ancestor is one.
LEMMA AncestorsClosed ==
  ASSUME NEW t, IsTree(t), NEW d \in Inodes
  PROVE  /\ d \in Ancestors(t, d) /\ Ancestors(t, d) \subseteq Inodes
         /\ \A x \in Ancestors(t, d) :
              x \in DOMAIN t.inode /\ t.inode[x].parent # None => t.inode[x].parent \in Ancestors(t, d)
<1> DEFINE L == LastInode
           P == Above(t)
<1>1. PICK up : Climbs(up, t, d) /\ Ancestors(t, d) = {up[k] : k \in 0 .. LastInode} \ {None}
  BY AncestorsClimb
<1>2. L \in Nat /\ P \in [0 .. L -> 0 .. L] /\ P[None] = None /\ None = 0 /\ Inodes = 1 .. L
  BY NamespaceAssumption, AboveType DEF None, Inodes
<1>3. /\ up \in [0 .. L -> 0 .. L] /\ up[0] = d
      /\ \A k \in 1 .. L : up[k] = P[up[k - 1]]
  BY <1>1 DEF Climbs, Follows
<1>4. \A x \in DOMAIN t.inode : x \in 1 .. L /\ P[x] = t.inode[x].parent
  <2>1. \A x \in DOMAIN t.inode : x \in 1 .. L
    BY <1>2, TreeParts
  <2> QED
    BY <1>2, <2>1 DEF Above, Exists
<1> HIDE DEF L, P
<1>5. Ancestors(t, d) = {up[k] : k \in 0 .. L} \ {None}
  BY <1>1 DEF L
<1>6. d \in Ancestors(t, d) /\ Ancestors(t, d) \subseteq Inodes
  <2>1. 0 \in 0 .. L /\ d # None
    BY <1>2
  <2> QED
    BY <1>2, <1>3, <1>5, <2>1
<1>7. \A k \in 0 .. L - 1 : up[k + 1] = P[up[k]]
  <2> SUFFICES ASSUME NEW k \in 0 .. L - 1 PROVE up[k + 1] = P[up[k]]
    OBVIOUS
  <2>1. k + 1 \in 1 .. L /\ (k + 1) - 1 = k
    BY <1>2
  <2> QED
    BY <1>3, <2>1
<1>8. ASSUME NEW x \in Ancestors(t, d), x \in DOMAIN t.inode, P[x] # None
      PROVE  P[x] \in Ancestors(t, d)
  <2>1. PICK k \in 0 .. L : x = up[k]
    BY <1>5
  <2>2. ASSUME NEW j \in 0 .. L - 1, up[j] = x PROVE P[x] \in Ancestors(t, d)
    <3>1. up[j + 1] = P[up[j]]
      BY <1>7
    <3>2. j + 1 \in 0 .. L
      BY <1>2
    <3>3. P[x] = up[j + 1]
      BY <2>2, <3>1
    <3> QED
      BY <1>5, <1>8, <3>2, <3>3
  <2>3. CASE k # L
    <3>1. k \in 0 .. L - 1
      BY <1>2, <2>3
    <3> QED
      BY <2>1, <2>2, <3>1
  <2>4. CASE k = L
    <3> DEFINE Q == {n \in 0 .. L : up[n] # None => \A j \in 0 .. n : up[j] # None}
    <3>1. 0 \in Q
      BY <1>2
    <3>2. ASSUME NEW n \in 0 .. L - 1, n \in Q PROVE n + 1 \in Q
      <4>1. up[n + 1] = P[up[n]] /\ n + 1 \in 0 .. L
        BY <1>2, <1>7
      <4>2. SUFFICES ASSUME up[n + 1] # None, NEW j \in 0 .. n + 1 PROVE up[j] # None
        BY <4>1
      <4>3. up[n] # None
        BY <1>2, <4>1, <4>2
      <4>4. j = n + 1 \/ j \in 0 .. n
        BY <1>2
      <4> QED
        BY <3>2, <4>2, <4>3, <4>4
    <3> HIDE DEF Q
    <3>3. \A n \in 0 .. L : n \in Q
      BY <1>2, <3>1, <3>2, InductionUpTo
    <3>4. up \in [0 .. L -> 1 .. L]
      <4>1. up[L] # None /\ L \in 0 .. L
        BY <1>2, <1>4, <1>8, <2>1, <2>4
      <4>2. \A j \in 0 .. L : up[j] # None
        BY <3>3, <4>1 DEF Q
      <4>3. ASSUME NEW j \in 0 .. L PROVE up[j] \in 1 .. L
        <5>1. up[j] \in 0 .. L
          BY <1>3
        <5>2. up[j] # 0
          BY <1>2, <4>2
        <5>3. L \in Nat
          BY <1>2
        <5> QED
          BY <5>1, <5>2, <5>3
      <4> QED
        BY <1>3, <4>3
    <3>5. PICK p \in 0 .. L, q \in 0 .. L : p # q /\ up[p] = up[q]
      <4>1. IsFiniteSet(0 .. L) /\ Cardinality(0 .. L) = L + 1
        BY <1>2, FS_Interval
      <4>2. IsFiniteSet(1 .. L) /\ Cardinality(1 .. L) = L
        BY <1>2, FS_Interval
      <4>3. Cardinality(1 .. L) < Cardinality(0 .. L)
        BY <1>2, <4>1, <4>2
      <4> QED
        BY <3>4, <4>1, <4>2, <4>3, FS_PigeonHole
    <3>6. PICK a \in 0 .. L, b \in 0 .. L : a < b /\ up[a] = up[b]
      <4>1. p < q \/ q < p
        BY <1>2, <3>5
      <4> QED
        BY <3>5, <4>1
    <3> DEFINE R == {n \in 0 .. L - b : up[a + n] = up[b + n]}
    <3>7. 0 \in R
      BY <1>2, <3>6
    <3>8. ASSUME NEW n \in 0 .. (L - b) - 1, n \in R PROVE n + 1 \in R
      <4>1. /\ n + 1 \in 0 .. L - b /\ a + n \in 0 .. L - 1 /\ b + n \in 0 .. L - 1
            /\ a + (n + 1) = (a + n) + 1 /\ b + (n + 1) = (b + n) + 1
        BY <1>2, <3>6
      <4>2. up[(a + n) + 1] = P[up[a + n]] /\ up[(b + n) + 1] = P[up[b + n]]
        BY <1>7, <4>1
      <4> QED
        BY <3>8, <4>1, <4>2
    <3> HIDE DEF R
    <3>9. \A n \in 0 .. L - b : n \in R
      <4>1. L - b \in Nat
        BY <1>2
      <4> QED
        BY <3>7, <3>8, <4>1, InductionUpTo
    <3>10. up[a + (L - b)] = up[L]
      <4>1. L - b \in R /\ b + (L - b) = L
        BY <1>2, <3>9
      <4> QED
        BY <4>1 DEF R
    <3>11. a + (L - b) \in 0 .. L - 1
      BY <1>2, <3>6
    <3> QED
      BY <2>1, <2>2, <2>4, <3>10, <3>11
  <2> QED
    BY <2>3, <2>4
<1> QED
  BY <1>4, <1>6, <1>8

\* The parent of a directory that is listed is a directory that is listed, or the root.
LEMMA ParentIs ==
  ASSUME NEW t, IsTree(t), Shaped(t), NEW x \in Hanging(t)
  PROVE  LET p == t.inode[x].parent
         IN p \in Dirs(t) /\ p \in DOMAIN t.inode /\ t.inode[p].links > 0 /\ p # None
<1> DEFINE p == t.inode[x].parent
<1>1. PICK m \in Names : <<x, p, m>> \in t.back
  BY DEF Shaped, SoundDirs, Hanging
<1>2. PICK y \in DOMAIN t.entry : <<x, p, m>> = <<t.entry[y], y[1], y[2]>>
  BY <1>1 DEF Shaped, SoundLinks
<1>3. p = y[1]
  BY <1>2
<1>4. y[1] \in Dirs(t) /\ t.inode[y[1]].links > 0
  BY DEF Shaped, SoundEntries
<1>5. p \in DOMAIN t.inode
  BY <1>3, <1>4 DEF Dirs
<1>6. p # None
  BY <1>5, TreeParts DEF Inodes, None
<1> QED
  BY <1>3, <1>4, <1>5, <1>6

\* Whoever climbs from a directory that is listed comes to the root.
LEMMA RootAbove ==
  ASSUME NEW t, IsTree(t), Shaped(t), NEW d \in Dirs(t), t.inode[d].links > 0
  PROVE  t.root \in Ancestors(t, d)
<1> SUFFICES ASSUME t.root \notin Ancestors(t, d) PROVE FALSE
  OBVIOUS
<1>1. d \in Inodes
  BY TreeParts DEF Dirs
<1>2. /\ d \in Ancestors(t, d)
      /\ \A x \in Ancestors(t, d) :
           x \in DOMAIN t.inode /\ t.inode[x].parent # None => t.inode[x].parent \in Ancestors(t, d)
  BY <1>1, AncestorsClosed
<1> DEFINE S == Ancestors(t, d) \cap Hanging(t)
<1>3. d \in S
  BY <1>2 DEF Hanging
<1>4. PICK x \in S : t.inode[x].parent \notin S
  <2>1. S \in SUBSET Hanging(t) /\ S # {}
    BY <1>3
  <2> HIDE DEF S
  <2> QED
    BY <2>1 DEF Shaped, NoLoop
<1>5. LET p == t.inode[x].parent
      IN p \in Dirs(t) /\ p \in DOMAIN t.inode /\ t.inode[p].links > 0 /\ p # None
  BY <1>4, ParentIs
<1>6. x \in DOMAIN t.inode
  BY <1>4 DEF Hanging, Dirs
<1>7. t.inode[x].parent \in Ancestors(t, d)
  BY <1>2, <1>4, <1>5, <1>6
<1>8. t.inode[x].parent # t.root
  BY <1>7
<1> QED
  BY <1>4, <1>5, <1>7, <1>8 DEF Hanging

\* rename_at, over an existing name or not.
LEMMA MoveKeeps ==
  ASSUME NEW t, Sound(t), NEW d, NEW n \in Names, NEW e, NEW m \in Names, MayMove(t, d, n, e, m)
  PROVE  /\ Keeps(t, Moved(t, d, n, e, m))
         /\ LET w == IF Listed(t, e, m) THEN Unlinked(t, e, m) ELSE t
            IN /\ Sound(w) /\ <<e, m>> \notin DOMAIN w.entry
               /\ <<d, n>> \in DOMAIN w.entry /\ w.entry[<<d, n>>] = t.entry[<<d, n>>]
               /\ \E v : /\ Sound(v) /\ Moves(w, v, d, n, e, m)
                         /\ Moved(t, d, n, e, m) = Emit(v, Change("rename", t.entry[<<d, n>>],
                                                                  EntryPath(t, e, m), EntryPath(t, d, n)))
<1> DEFINE i == t.entry[<<d, n>>]
           j == t.entry[<<e, m>>]
           w == IF Listed(t, e, m) THEN Unlinked(t, e, m) ELSE t
           parent == IF IsDirectory(t, i) THEN e ELSE None
           u == Rehung(w, d, n, e, m, parent)
           change == Change("rename", i, EntryPath(t, e, m), EntryPath(t, d, n))
<1>1. /\ IsTree(t) /\ DOMAIN t.inode \subseteq Inodes
      /\ t.entry \in [DOMAIN t.entry -> Inodes] /\ DOMAIN t.entry \subseteq Inodes \X Names
  BY TreeParts DEF Sound, Ground
<1>2. /\ <<d, n>> \in DOMAIN t.entry /\ d \in Dirs(t) /\ e \in Dirs(t) /\ t.inode[e].links > 0
      /\ e \in DOMAIN t.inode /\ d \in DOMAIN t.inode /\ e \in Inodes /\ d \in Inodes
      /\ IsDirectory(t, i) => i \notin Ancestors(t, e)
      /\ Listed(t, e, m) => i # j /\ Empty(t, j)
  <2>1. <<d, n>> \in DOMAIN t.entry /\ d \in Dirs(t) /\ e \in Dirs(t) /\ t.inode[e].links > 0
        /\ e \in DOMAIN t.inode /\ d \in DOMAIN t.inode
    BY DEF MayMove, MayEnter, IsDirectory, Exists, Listed, Dirs
  <2>2. IsDirectory(t, i) => i \notin Ancestors(t, e)
    BY DEF MayMove
  <2>3. Listed(t, e, m) => i # j /\ Empty(t, j)
    <3> SUFFICES ASSUME Listed(t, e, m) PROVE i # j /\ Empty(t, j)
      OBVIOUS
    <3>1. Child(t, e, m) = j
      BY DEF Child
    <3>2. j \in Inodes
      BY <1>1 DEF Listed
    <3>3. j # None
      BY <3>2 DEF Inodes, None
    <3> QED
      BY <3>1, <3>3 DEF MayMove
  <2> QED
    BY <1>1, <2>1, <2>2, <2>3
<1>3. /\ i \in DOMAIN t.inode /\ i # t.root
  BY <1>2 DEF Sound, Ground, Shaped, SoundEntries
<1>4. /\ Keeps(t, w) /\ <<d, n>> \in DOMAIN w.entry /\ w.entry[<<d, n>>] = i
      /\ <<e, m>> \notin DOMAIN w.entry /\ w.root = t.root
      /\ e \in DOMAIN w.inode /\ w.inode[e] = t.inode[e]
      /\ i \in DOMAIN w.inode /\ w.inode[i] = t.inode[i]
      /\ \A x \in Hanging(w) : x \in Hanging(t) /\ w.inode[x] = t.inode[x]
  <2>1. CASE ~Listed(t, e, m)
    <3>1. w = t
      BY <2>1
    <3>2. Keeps(t, t)
      BY <1>1, CoreKeeps
    <3> HIDE DEF w
    <3> QED
      BY <1>2, <1>3, <2>1, <3>1, <3>2 DEF Listed
  <2>2. CASE Listed(t, e, m)
    <3>1. w = Unlinked(t, e, m)
      BY <2>2
    <3>2. Keeps(t, w) /\ OneLess(t, w.entry, e, m) /\ SameBut(t, w, j)
      BY <1>2, <2>2, <3>1, UnlinkKeeps
    <3> HIDE DEF w
    <3>3. i # j /\ j # d /\ j # e
      <4>1. Listed(t, d, n) /\ Listed(t, e, m)
        BY <1>2, <2>2 DEF Listed
      <4>2. i # j /\ Empty(t, j)
        BY <1>2, <2>2
      <4> QED
        BY <4>1, <4>2 DEF Empty
    <3>4. <<d, n>> # <<e, m>>
      BY <3>3
    <3>5. <<d, n>> \in DOMAIN w.entry /\ w.entry[<<d, n>>] = i /\ <<e, m>> \notin DOMAIN w.entry
      BY <1>2, <3>2, <3>4 DEF OneLess
    <3>6. /\ w.root = t.root /\ e \in DOMAIN w.inode /\ w.inode[e] = t.inode[e]
          /\ i \in DOMAIN w.inode /\ w.inode[i] = t.inode[i]
      BY <1>2, <1>3, <3>2, <3>3 DEF SameBut
    <3>7. ASSUME NEW x \in Hanging(w) PROVE x \in Hanging(t) /\ w.inode[x] = t.inode[x]
      <4>1. x \in DOMAIN w.inode /\ x \in Dirs(w) /\ w.inode[x].links > 0 /\ x # w.root
        BY DEF Hanging, Dirs
      <4>2. x # j
        <5> SUFFICES ASSUME x = j PROVE FALSE
          OBVIOUS
        <5>1. x \in DOMAIN t.inode
          BY <3>2, <4>1 DEF SameBut
        <5>2. SoundDirs(w) /\ SoundLinks(w)
          BY <3>2 DEF Keeps, Sound, Ground, Shaped
        <5>3. PICK q \in Names : <<x, w.inode[x].parent, q>> \in w.back
          <6>1. w.inode[x].links # 0
            BY <4>1
          <6>2. \A k \in Dirs(w) : w.inode[k].links # 0 /\ k # w.root =>
                  \E q \in Names : <<k, w.inode[k].parent, q>> \in w.back
            BY <5>2 DEF SoundDirs
          <6> QED
            BY <4>1, <6>1, <6>2
        <5>4. PICK y \in DOMAIN w.entry : <<x, w.inode[x].parent, q>> = <<w.entry[y], y[1], y[2]>>
          BY <5>2, <5>3 DEF SoundLinks
        <5>5. y \in DOMAIN t.entry /\ t.entry[y] = j /\ y # <<e, m>>
          BY <3>2, <5>4 DEF OneLess
        <5>6. y[1] \in DOMAIN t.inode /\ y = <<y[1], y[2]>> /\ <<e, m>>[1] = e
          BY <1>1, <5>5 DEF Sound, Ground, Shaped, SoundEntries, Dirs
        <5>7. x \in Dirs(t)
          BY <3>2, <4>1, <5>1 DEF Keeps, Evolves, Dirs
        <5>8. <<j, e, m>> \in t.back /\ <<j, y[1], y[2]>> \in t.back
          <6>1. <<j, <<e, m>>[1], <<e, m>>[2]>> \in t.back
            BY <2>2 DEF Sound, Ground, Shaped, SoundLinks, Listed
          <6>2. <<t.entry[y], y[1], y[2]>> \in t.back
            BY <5>5 DEF Sound, Ground, Shaped, SoundLinks
          <6> QED
            BY <5>5, <6>1, <6>2
        <5>9. t.inode[j].links = 1
          <6>1. \A b \in {<<j, e, m>>} : b[1] = j
            OBVIOUS
          <6>2. IsFiniteSet(t.back)
            BY LinksFinite DEF Sound, Ground, Shaped, SoundEntries, SoundLinks, Recorded
          <6>3. Count(t.back, j) \in Nat /\ Count(t.back, j) # 0
            BY <5>8, <6>2, CountNone
          <6>4. t.inode[j].links = Count(t.back, j) + (IF j = t.root THEN 1 ELSE 0)
            BY <5>1 DEF Sound, Ground, Shaped, SoundLinks
          <6>5. t.inode[j].links # 0
            <7> HIDE DEF Count
            <7> QED
              BY <6>3, <6>4
          <6> QED
            BY <5>7, <6>5 DEF Sound, Ground, Shaped, SoundDirs
        <5>10. Count(t.back, j) = 1
          <6>1. j # t.root
            BY <2>2 DEF Sound, Ground, Shaped, SoundEntries, Listed
          <6>2. t.inode[j].links = Count(t.back, j) + 0
            BY <5>1, <6>1 DEF Sound, Ground, Shaped, SoundLinks
          <6>3. Count(t.back, j) \in Nat
            BY LinksFinite, CountNone DEF Sound, Ground, Shaped, SoundEntries, SoundLinks, Recorded
          <6> HIDE DEF Count
          <6> QED
            BY <5>9, <6>2, <6>3
        <5>11. IsFiniteSet(t.back \ {<<j, e, m>>}) /\ Count(t.back \ {<<j, e, m>>}, j) = 0
          <6>1. IsFiniteSet(t.back)
            BY LinksFinite DEF Sound, Ground, Shaped, SoundEntries, SoundLinks, Recorded
          <6> DEFINE b == <<j, e, m>>
          <6>2. b \in t.back /\ b[1] = j
            BY <5>8
          <6> HIDE DEF b
          <6>3. /\ IsFiniteSet(t.back \ {b}) /\ Count(t.back \ {b}, j) \in Nat
                /\ Count(t.back, j) = Count(t.back \ {b}, j) + (IF b[1] = j THEN 1 ELSE 0)
            BY <6>1, <6>2, CountTakes
          <6> HIDE DEF Count
          <6>4. IsFiniteSet(t.back \ {b}) /\ Count(t.back \ {b}, j) = 0
            BY <5>10, <6>2, <6>3
          <6> QED
            BY <6>4 DEF b
        <5>12. <<j, y[1], y[2]>> \notin t.back \ {<<j, e, m>>}
          BY <5>11, CountNone
        <5>13. y[1] = e /\ y[2] = m
          BY <5>8, <5>12
        <5> QED
          BY <5>5, <5>6, <5>13
      <4>3. x \in DOMAIN t.inode /\ w.inode[x] = t.inode[x]
        BY <3>2, <4>1, <4>2 DEF SameBut
      <4> QED
        BY <3>6, <4>1, <4>3 DEF Hanging, Dirs
    <3> QED
      BY <3>2, <3>5, <3>6, <3>7
  <2> QED
    BY <2>1, <2>2
<1> HIDE DEF w
<1>5. Moved(t, d, n, e, m) = Emit(u, change)
  BY <1>4 DEF Moved, Rehung, w
<1> HIDE DEF change
<1>6. Keeps(w, u) /\ Moves(w, u, d, n, e, m)
  <2>1. e \in Dirs(w) /\ w.inode[e].links > 0
    BY <1>2, <1>4 DEF Dirs
  <2>2. parent \in 0 .. LastInode
    BY <1>2, NamespaceAssumption DEF Inodes, None
  <2>3. w.entry[<<d, n>>] \in Dirs(w) => parent = e /\ ClearOf(w, e, w.entry[<<d, n>>])
    <3> SUFFICES ASSUME i \in Dirs(w) PROVE parent = e /\ ClearOf(w, e, i)
      BY <1>4
    <3>1. IsDirectory(t, i)
      BY <1>3, <1>4 DEF Dirs, IsDirectory, Exists
    <3>2. i \notin Ancestors(t, e)
      BY <1>2, <3>1
    <3>3. /\ e \in Ancestors(t, e)
          /\ \A x \in Ancestors(t, e) :
               x \in DOMAIN t.inode /\ t.inode[x].parent # None => t.inode[x].parent \in Ancestors(t, e)
      BY <1>1, <1>2, AncestorsClosed
    <3>4. ASSUME NEW x \in Ancestors(t, e) \cap Hanging(w)
          PROVE  w.inode[x].parent \in Ancestors(t, e)
      <4>1. x \in Hanging(t) /\ w.inode[x] = t.inode[x] /\ x \in DOMAIN t.inode
        BY <1>4 DEF Hanging, Dirs
      <4>2. t.inode[x].parent # None
        BY <1>1, <4>1, ParentIs DEF Sound, Ground
      <4> QED
        BY <3>3, <4>1, <4>2
    <3> QED
      BY <3>1, <3>2, <3>3, <3>4 DEF ClearOf
  <2>4. Sound(w) /\ <<d, n>> \in DOMAIN w.entry /\ <<e, m>> \notin DOMAIN w.entry
    BY <1>4 DEF Keeps
  <2> HIDE DEF parent, i
  <2> QED
    BY <2>1, <2>2, <2>3, <2>4, RehungKeeps
<1>8. Keeps(u, Emit(u, change))
  <2> HIDE DEF u
  <2> QED
    BY <1>6, EmitCore, CoreKeeps DEF Keeps, Sound, Ground
<1>9. Keeps(t, u)
  <2> HIDE DEF u
  <2> QED
    BY <1>4, <1>6, KeepsFurther
<1> HIDE DEF u
<1>10. Sound(u) /\ Sound(w)
  BY <1>4, <1>6 DEF Keeps
<1> QED
  BY <1>4, <1>5, <1>6, <1>8, <1>9, <1>10, KeepsFurther DEF w, change

-----------------------------------------------------------------------------
(* Sizes, notifications, cookies and whole namespaces.                     *)

\* Nothing changes but cookies, notifications and what they are recorded for.
Alike(t, u) ==
  /\ SameShape(t, u)
  /\ u.generation = t.generation /\ u.locks = t.locks /\ u.bytes = t.bytes
  /\ \A k \in DOMAIN t.inode : u.inode[k].size = t.inode[k].size /\ u.inode[k].refs = t.inode[k].refs

LEMMA AlikeKeeps ==
  ASSUME NEW t, NEW u, Sound(t), IsTree(u), Alike(t, u)
  PROVE  Keeps(t, u)
<1>1. IsTree(t) /\ DOMAIN u.inode = DOMAIN t.inode
  BY DEF Sound, Ground, Alike, SameShape
<1>2. SoundBytes(u)
  <2>1. \A k \in DOMAIN u.inode : u.inode[k].size = t.inode[k].size
    BY <1>1 DEF Alike
  <2>2. Total(u) = Total(t)
    BY <1>1, <2>1, TotalSame
  <2> QED
    BY <2>2 DEF Sound, Ground, SoundBytes, Total, Alike
<1>3. Ground(u) /\ Evolves(t, u, {})
  BY <1>2, ShapeKeeps DEF Alike, Sound
<1>4. SoundLive(u) /\ SameRefs(t, u)
  BY <1>1 DEF Sound, SoundLive, SameRefs, RefsOf, Alike, SameShape
<1> QED
  BY <1>3, <1>4 DEF Keeps, Sound

LEMMA EmitKeeps ==
  ASSUME NEW t, Sound(t), NEW change
  PROVE  Keeps(t, Emit(t, change))
BY EmitCore, CoreKeeps DEF Sound, Ground

\* The queue is emptied, or recording turned on or off.
LEMMA NotifyKeeps ==
  ASSUME NEW t, Sound(t), NEW c, NEW b \in BOOLEAN
  PROVE  Keeps(t, [t EXCEPT !.changes = c, !.tracking = b])
<1> DEFINE u == [t EXCEPT !.changes = c, !.tracking = b]
<1>1. IsTree(t) /\ t.next \in Nat
  BY TreeParts DEF Sound, Ground
<1>2. /\ IsTree(u) /\ u.inode = t.inode /\ u.root = t.root /\ u.entry = t.entry /\ u.back = t.back
      /\ u.entries = t.entries /\ u.next = t.next /\ u.generation = t.generation
      /\ u.locks = t.locks /\ u.bytes = t.bytes
  BY <1>1 DEF IsTree, Trees
<1> HIDE DEF u
<1>3. Alike(t, u)
  BY <1>1, <1>2 DEF Alike, SameShape
<1>4. Keeps(t, u)
  BY <1>2, <1>3, AlikeKeeps
<1> QED
  BY <1>4 DEF u

LEMMA TakenKeeps ==
  ASSUME NEW t, Sound(t)
  PROVE  Keeps(t, [t EXCEPT !.changes = <<>>])
<1>1. t.tracking \in BOOLEAN /\ IsTree(t)
  BY TreeParts DEF Sound, Ground
<1>2. Keeps(t, [t EXCEPT !.changes = <<>>, !.tracking = t.tracking])
  BY <1>1, NotifyKeeps
<1>3. [t EXCEPT !.changes = <<>>, !.tracking = t.tracking] = [t EXCEPT !.changes = <<>>]
  BY <1>1 DEF IsTree, Trees
<1> QED
  BY <1>2, <1>3

LEMMA TrackingKeeps ==
  ASSUME NEW t, Sound(t), NEW b \in BOOLEAN
  PROVE  Keeps(t, SetChangeTracking(t, b))
<1> DEFINE u == [t EXCEPT !.changes = <<>>, !.tracking = b]
<1>1. IsTree(t)
  BY DEF Sound, Ground
<1>2. Keeps(t, u)
  BY NotifyKeeps
<1>3. u = [t EXCEPT !.tracking = b, !.changes = <<>>]
  BY <1>1 DEF IsTree, Trees
<1> HIDE DEF u
<1>4. Keeps(t, Emit(u, Rescan))
  BY <1>2, EmitKeeps, KeepsFurther DEF Keeps
<1>5. Keeps(t, t)
  BY <1>1, CoreKeeps
<1> QED
  BY <1>3, <1>4, <1>5 DEF SetChangeTracking

\* Where a behaviour does not list directories, cookies are not told apart.
LEMMA RememberedKeeps ==
  ASSUME NEW t, Sound(t)
  PROVE  /\ Keeps(t, Remembered(t))
         /\ DOMAIN Remembered(t).inode = DOMAIN t.inode /\ Remembered(t).next = t.next
         /\ Remembered(t).locks = t.locks
         /\ Remembered(t).root = t.root /\ Remembered(t).entry = t.entry
         /\ Remembered(t).changes = t.changes /\ Remembered(t).tracking = t.tracking
         /\ Uses("readdir") => Remembered(t) = t
<1> DEFINE a == [k \in DOMAIN t.inode |-> [t.inode[k] EXCEPT !.next_cookie = 1]]
           c == [x \in DOMAIN t.cookie |-> 1]
           u == [t EXCEPT !.cookie = c, !.inode = a]
<1>1. /\ IsTree(t) /\ t.next \in Nat
      /\ t.inode \in [DOMAIN t.inode -> Records] /\ DOMAIN t.inode \subseteq Inodes
  BY TreeParts DEF Sound, Ground
<1>2. a \in [DOMAIN t.inode -> Records]
  BY <1>1 DEF Records
<1>3. a \in Maps(Inodes, Records)
  BY <1>1, <1>2, MapIs
<1>4. /\ DOMAIN a = DOMAIN t.inode
      /\ \A k \in DOMAIN t.inode :
           /\ a[k].kind = t.inode[k].kind /\ a[k].links = t.inode[k].links
           /\ a[k].parent = t.inode[k].parent /\ a[k].size = t.inode[k].size
           /\ a[k].refs = t.inode[k].refs
  BY <1>1 DEF Records
<1>5. u = [t EXCEPT !.cookie = [x \in DOMAIN @ |-> 1],
                    !.inode = [i \in DOMAIN @ |-> [@[i] EXCEPT !.next_cookie = 1]]]
  BY <1>1 DEF IsTree, Trees
<1> HIDE DEF a, c
<1>6. /\ IsTree(u) /\ u.inode = a /\ u.root = t.root /\ u.entry = t.entry /\ u.back = t.back
      /\ u.entries = t.entries /\ u.next = t.next /\ u.generation = t.generation
      /\ u.locks = t.locks /\ u.bytes = t.bytes
      /\ u.changes = t.changes /\ u.tracking = t.tracking
  BY <1>1, <1>3 DEF IsTree, Trees
<1> HIDE DEF u
<1>7. Alike(t, u)
  BY <1>1, <1>4, <1>6 DEF Alike, SameShape
<1>8. Keeps(t, u) /\ Keeps(t, t)
  BY <1>1, <1>6, <1>7, AlikeKeeps, CoreKeeps
<1>9. IF Uses("readdir") THEN Remembered(t) = t ELSE Remembered(t) = u
  BY <1>5 DEF Remembered
<1> QED
  BY <1>4, <1>6, <1>8, <1>9

LEMMA ResizeKeeps ==
  ASSUME NEW t, Sound(t), NEW i \in DOMAIN t.inode, NEW size \in Nat
  PROVE  Keeps(t, Resized(t, i, size)) /\ i \in DOMAIN Resized(t, i, size).inode
         /\ \E v : /\ IsTree(v) /\ Quiet(t, v)
                   /\ Resized(t, i, size) = Emit(v, Change("write", i, <<>>, <<>>))
<1> DEFINE a == [t.inode EXCEPT ![i].size = size]
           change == Change("write", i, <<>>, <<>>)
           u == [t EXCEPT !.inode = a, !.bytes = t.bytes - t.inode[i].size + size]
<1>1. /\ IsTree(t) /\ t.next \in Nat /\ t.bytes \in Int
      /\ t.inode \in [DOMAIN t.inode -> Records] /\ DOMAIN t.inode \subseteq Inodes
  BY TreeParts DEF Sound, Ground
<1>2. a \in [DOMAIN t.inode -> Records]
  BY <1>1 DEF Records
<1>3. a \in Maps(Inodes, Records)
  BY <1>1, <1>2, MapIs
<1>4. /\ DOMAIN a = DOMAIN t.inode /\ a[i].size = size
      /\ \A k \in DOMAIN t.inode :
           /\ a[k].kind = t.inode[k].kind /\ a[k].links = t.inode[k].links
           /\ a[k].parent = t.inode[k].parent /\ a[k].refs = t.inode[k].refs
           /\ k # i => a[k].size = t.inode[k].size
           /\ a[k].next_cookie = t.inode[k].next_cookie
  BY <1>1 DEF Records
<1>5. Resized(t, i, size) = Emit(u, change)
  <2>1. u = [t EXCEPT !.inode[i].size = size, !.bytes = @ - t.inode[i].size + size]
    BY <1>1 DEF IsTree, Trees
  <2> HIDE DEF u
  <2> QED
    BY <2>1 DEF Resized
<1> HIDE DEF a, change
<1>6. /\ IsTree(u) /\ u.inode = a /\ u.root = t.root /\ u.entry = t.entry /\ u.back = t.back
      /\ u.entries = t.entries /\ u.next = t.next /\ u.generation = t.generation
      /\ u.locks = t.locks /\ u.bytes = t.bytes - t.inode[i].size + size
      /\ u.changes = t.changes /\ u.cookie = t.cookie /\ u.tracking = t.tracking
  <2>1. t.inode[i].size \in Nat
    BY <1>1 DEF Records
  <2>2. t.bytes - t.inode[i].size + size \in Int
    BY <1>1, <2>1
  <2> QED
    BY <1>1, <1>3, <2>2 DEF IsTree, Trees
<1> HIDE DEF u
<1>7. SameShape(t, u)
  BY <1>1, <1>4, <1>6 DEF SameShape
<1>8. SoundBytes(u)
  <2>1. Total(u) = Total(t) - t.inode[i].size + u.inode[i].size
    BY <1>1, <1>4, <1>6, TotalResized
  <2>2. t.bytes = Total(t)
    BY DEF Sound, Ground, SoundBytes, Total
  <2>3. u.bytes = Total(u)
    BY <1>4, <1>6, <2>1, <2>2
  <2> QED
    BY <2>3 DEF SoundBytes, Total
<1>9. Ground(u) /\ Evolves(t, u, {})
  BY <1>6, <1>7, <1>8, ShapeKeeps DEF Sound
<1>10. SoundLive(u) /\ SameRefs(t, u)
  BY <1>4, <1>6 DEF Sound, SoundLive, SameRefs, RefsOf
<1>11. Keeps(t, u)
  BY <1>9, <1>10 DEF Keeps, Sound
<1>12. Resized(t, i, size) = Emit(u, change)
  BY <1>5 DEF u, a
<1>13. Keeps(u, Emit(u, change))
  BY <1>11, EmitKeeps DEF Keeps
<1>14. Emit(u, change).inode = a
  BY <1>6, EmitCore, CoreParts
<1>15. Quiet(t, u)
  BY <1>4, <1>6 DEF Quiet
<1> QED
  BY <1>4, <1>6, <1>11, <1>12, <1>13, <1>14, <1>15, KeepsFurther DEF change

\* A namespace that is new.
LEMMA FreshSound ==
  ASSUME NEW root \in Inodes, NEW g \in Nat, NEW b \in BOOLEAN
  PROVE  LET u == Fresh(root, g, b)
         IN /\ Sound(u) /\ u.next = root + 1 /\ u.generation = g /\ u.locks = {}
            /\ DOMAIN u.inode = {root} /\ \A i \in Inodes : RefsOf(u, i) = 0
<1> DEFINE r == NewInode("directory", None, 0)
           a == [i \in {root} |-> r]
           e == <<>>
           u == Fresh(root, g, b)
<1>1. LastInode \in Nat /\ None = 0 /\ None \in 0 .. LastInode /\ root \in 1 .. LastInode
  BY NamespaceAssumption DEF None, Inodes
<1>2. /\ r \in Records /\ r.kind = "directory" /\ r.parent = None /\ r.links = 1 /\ r.refs = 0
      /\ r.size = 0
  BY <1>1 DEF NewInode, Records, Kinds
<1> HIDE DEF r
<1>3. a \in Maps(Inodes, Records) /\ DOMAIN a = {root} /\ a[root] = r
  <2>1. a \in [{root} -> Records] /\ DOMAIN a = {root} /\ a[root] = r
    BY <1>2
  <2> HIDE DEF a
  <2> QED
    BY <2>1, MapIs
<1>4. e \in Maps(Inodes \X Names, Inodes) /\ DOMAIN e = {}
  <2>1. DOMAIN e = {}
    OBVIOUS
  <2>2. e \in [{} -> Inodes]
    BY <2>1
  <2> HIDE DEF e
  <2> QED
    BY <2>1, <2>2, MapIs
<1>5. u = [root |-> root, next |-> root + 1, generation |-> g, inode |-> a, entry |-> e,
           cookie |-> e, back |-> {}, bytes |-> 0, entries |-> 0, locks |-> {}, changes |-> <<>>,
           tracking |-> b]
  BY DEF Fresh, r
<1> HIDE DEF a, e
<1>6. /\ IsTree(u) /\ u.inode = a /\ u.root = root /\ u.entry = e /\ u.back = {}
      /\ u.entries = 0 /\ u.next = root + 1 /\ u.generation = g /\ u.locks = {} /\ u.bytes = 0
  <2>1. root + 1 \in 2 .. LastInode + 1
    BY <1>1
  <2> QED
    BY <1>1, <1>3, <1>4, <1>5, <2>1 DEF IsTree, Trees, Inodes
<1> HIDE DEF u
<1>7. Dirs(u) = {root} /\ Hanging(u) = {}
  BY <1>2, <1>3, <1>6 DEF Dirs, Hanging
<1>8. SoundEntries(u)
  <2>1. root \in 1 .. (root + 1) - 1
    BY <1>1
  <2> QED
    BY <1>3, <1>4, <1>6, <1>7, <2>1, FS_EmptySet DEF SoundEntries
<1>9. SoundLinks(u)
  <2>1. Count({}, root) = 0
    BY FS_EmptySet, CountNone
  <2>2. u.inode[root].links = Count(u.back, root) + (IF root = u.root THEN 1 ELSE 0)
    <3> HIDE DEF Count
    <3> QED
      BY <1>2, <1>3, <1>6, <2>1
  <2> HIDE DEF Count
  <2> QED
    BY <1>3, <1>4, <1>6, <2>2, FS_EmptySet DEF SoundLinks
<1>10. SoundDirs(u) /\ NoLoop(u)
  BY <1>2, <1>3, <1>6, <1>7 DEF SoundDirs, NoLoop
<1>11. SoundBytes(u)
  <2>1. Sizes(u)[root] = 0 /\ \A x \in {root} : Sizes(u)[x] \in Nat
    BY <1>2, <1>3, <1>6 DEF Sizes
  <2>2. IsFiniteSet({root}) /\ {root} \ {root} = {}
    BY FS_Singleton
  <2>3. Sum(Sizes(u), {root}) = Sizes(u)[root] + Sum(Sizes(u), {root} \ {root})
    BY <2>1, <2>2, SumTakes
  <2>4. Sum(Sizes(u), {root} \ {root}) = 0
    BY <2>2, SumOfNone
  <2>5. Sum(Sizes(u), {root}) = 0
    <3> HIDE DEF Sum, Sizes
    <3> QED
      BY <2>1, <2>3, <2>4
  <2> QED
    BY <1>3, <1>6, <2>5 DEF SoundBytes
<1>12. SoundLocks(u) /\ SoundLive(u)
  BY <1>2, <1>3, <1>6 DEF SoundLocks, SoundLive
<1>13. \A i \in Inodes : RefsOf(u, i) = 0
  BY <1>2, <1>3, <1>6 DEF RefsOf
<1> QED
  BY <1>3, <1>6, <1>8, <1>9, <1>10, <1>11, <1>12, <1>13 DEF Sound, Ground, Shaped, u

\* clear, entry by entry.
LEMMA PrunedKeeps ==
  ASSUME NEW t, Sound(t)
  PROVE  Keeps(t, Pruned(t))
<1>1. CASE Leaves(t) = {}
  BY <1>1, CoreKeeps DEF Pruned, Sound, Ground
<1>2. CASE Leaves(t) # {}
  <2>1. PICK x \in Leaves(t) : Pruned(t) = Unlinked(t, x[1], x[2])
    BY <1>2 DEF Pruned
  <2>2. x \in DOMAIN t.entry /\ x = <<x[1], x[2]>>
    BY TreeParts DEF Leaves, Sound, Ground
  <2>3. Listed(t, x[1], x[2]) /\ Empty(t, t.entry[<<x[1], x[2]>>])
    BY <2>2 DEF Leaves, Listed
  <2> QED
    BY <2>1, <2>3, UnlinkKeeps
<1> QED
  BY <1>1, <1>2

LEMMA ClearSteps ==
  ASSUME NEW t, Sound(t)
  PROVE  \E m, tree : /\ m \in Nat /\ tree[0] = t /\ Cleared(t) = tree[m]
                      /\ \A k \in 0 .. m - 1 : tree[k + 1] = Pruned(tree[k])
<1> DEFINE m == Cardinality(DOMAIN t.entry)
           F(f) == [k \in 0 .. m |-> IF k = 0 THEN t ELSE Pruned(f[k - 1])]
           tree == CHOOSE f : f = F(f)
           Solves(f, n) == /\ f = [i \in 0 .. n |-> f[i]] /\ f[0] = t
                           /\ \A i \in 1 .. n : f[i] = Pruned(f[i - 1])
           T == {n \in 0 .. m : \E f : Solves(f, n)}
<1>1. m \in Nat
  BY FS_CardinalityType DEF Sound, Ground, Shaped, SoundEntries
<1>2. Cleared(t) = tree[m]
  BY DEF Cleared
<1> HIDE DEF m
<1>3. 0 \in T
  <2> DEFINE f == [i \in 0 .. 0 |-> t]
  <2>1. Solves(f, 0) /\ 0 \in 0 .. m
    BY <1>1
  <2> HIDE DEF f, Solves
  <2> QED
    BY <2>1, Zenon
<1>4. ASSUME NEW n \in 0 .. m - 1, n \in T PROVE n + 1 \in T
  <2>1. PICK f : Solves(f, n)
    BY <1>4
  <2> DEFINE g == [i \in 0 .. n + 1 |-> IF i = n + 1 THEN Pruned(f[n]) ELSE f[i]]
  <2>2. ASSUME NEW i \in 1 .. n + 1 PROVE g[i] = Pruned(g[i - 1])
    <3>1. i - 1 \in 0 .. n + 1 /\ i - 1 # n + 1 /\ i \in 0 .. n + 1
      BY <1>1
    <3>2. g[i - 1] = f[i - 1]
      BY <3>1
    <3>3. CASE i = n + 1
      <4>1. g[i] = Pruned(f[n]) /\ i - 1 = n
        BY <1>1, <3>1, <3>3
      <4> QED
        BY <3>2, <4>1
    <3>4. CASE i # n + 1
      <4>1. i \in 1 .. n /\ g[i] = f[i]
        BY <1>1, <3>1, <3>4
      <4> HIDE DEF g
      <4> QED
        BY <2>1, <3>2, <4>1
    <3> QED
      BY <3>3, <3>4
  <2>3. g[0] = t /\ g = [i \in 0 .. n + 1 |-> g[i]]
    <3>1. 0 \in 0 .. n + 1 /\ 0 # n + 1
      BY <1>1
    <3> QED
      BY <2>1, <3>1
  <2>4. n + 1 \in 0 .. m
    BY <1>1
  <2> HIDE DEF g
  <2>5. Solves(g, n + 1)
    BY <2>2, <2>3
  <2> HIDE DEF Solves
  <2> QED
    BY <2>4, <2>5
<1> HIDE DEF T
<1>5. m \in T
  <2>1. \A n \in 0 .. m : n \in T
    BY <1>1, <1>3, <1>4, InductionUpTo
  <2> QED
    BY <1>1, <2>1
<1>6. PICK f : Solves(f, m)
  BY <1>5 DEF T
<1>7. f = F(f)
  <2>1. ASSUME NEW k \in 0 .. m, k # 0 PROVE f[k] = Pruned(f[k - 1])
    <3>1. k \in 1 .. m
      BY <1>1, <2>1
    <3> QED
      BY <1>6, <3>1
  <2>2. \A k \in 0 .. m : f[k] = IF k = 0 THEN t ELSE Pruned(f[k - 1])
    BY <1>6, <2>1
  <2>3. f = [k \in 0 .. m |-> f[k]]
    BY <1>6
  <2> HIDE DEF Solves
  <2> QED
    BY <2>2, <2>3
<1>8. tree = F(tree)
  <2>1. \E g : g = F(g)
    BY <1>7
  <2> HIDE DEF F
  <2> QED
    BY <2>1, Zenon
<1> HIDE DEF tree
<1>9. \A k \in 0 .. m : tree[k] = IF k = 0 THEN t ELSE Pruned(tree[k - 1])
  BY <1>8
<1>10. tree[0] = t /\ 0 \in 0 .. m
  BY <1>1, <1>9
<1>11. ASSUME NEW k \in 0 .. m - 1 PROVE tree[k + 1] = Pruned(tree[k])
  <2>1. k + 1 \in 0 .. m /\ k + 1 # 0 /\ (k + 1) - 1 = k
    BY <1>1
  <2> QED
    BY <1>9, <2>1
<1> QED
  BY <1>1, <1>2, <1>10, <1>11

LEMMA ClearKeeps ==
  ASSUME NEW t, Sound(t)
  PROVE  Keeps(t, Cleared(t))
<1>1. PICK m, tree : /\ m \in Nat /\ tree[0] = t /\ Cleared(t) = tree[m]
                     /\ \A k \in 0 .. m - 1 : tree[k + 1] = Pruned(tree[k])
  BY ClearSteps
<1> DEFINE Q == {k \in 0 .. m : Keeps(t, tree[k])}
<1>2. 0 \in Q
  <2>2. Keeps(t, t)
    BY CoreKeeps DEF Sound, Ground
  <2> QED
    BY <1>1, <2>2
<1>3. ASSUME NEW k \in 0 .. m - 1, k \in Q PROVE k + 1 \in Q
  <2>1. k + 1 \in 0 .. m
    BY <1>1
  <2>2. tree[k + 1] = Pruned(tree[k])
    BY <1>1
  <2>3. Keeps(t, tree[k])
    BY <1>3
  <2>4. Keeps(tree[k], Pruned(tree[k]))
    BY <2>3, PrunedKeeps DEF Keeps
  <2>5. Keeps(t, Pruned(tree[k]))
    BY <2>3, <2>4, KeepsFurther
  <2> QED
    BY <2>1, <2>2, <2>5
<1> HIDE DEF Q
<1>4. \A k \in 0 .. m : k \in Q
  BY <1>1, <1>2, <1>3, InductionUpTo
<1> QED
  BY <1>1, <1>4 DEF Q

-----------------------------------------------------------------------------
(* Locks change and nothing else.                                          *)

LEMMA LocksKeep ==
  ASSUME NEW t, Sound(t), NEW L, L \subseteq Ranges,
         \A l \in L : l.inode \in DOMAIN t.inode /\ t.inode[l.inode].kind = "file"
  PROVE  LET u == [t EXCEPT !.locks = L]
         IN /\ Sound(u) /\ SameRefs(t, u) /\ u.locks = L
            /\ u.inode = t.inode /\ u.next = t.next /\ u.generation = t.generation
<1> DEFINE u == [t EXCEPT !.locks = L]
<1>1. IsTree(t) /\ t.next \in Nat
  BY TreeParts DEF Sound, Ground
<1>2. /\ IsTree(u) /\ u.inode = t.inode /\ u.root = t.root /\ u.entry = t.entry /\ u.back = t.back
      /\ u.entries = t.entries /\ u.next = t.next /\ u.generation = t.generation
      /\ u.locks = L /\ u.bytes = t.bytes
  BY <1>1 DEF IsTree, Trees
<1> HIDE DEF u
<1>3. Shaped(u)
  <2>1. SameShape(t, u)
    BY <1>1, <1>2 DEF SameShape
  <2> QED
    BY <1>1, <1>2, <2>1, ShapeKept DEF Sound, Ground
<1>4. SoundLive(u) /\ SoundBytes(u) /\ SoundLocks(u)
  BY <1>2 DEF Sound, Ground, SoundLive, SoundBytes, SoundLocks, Sizes
<1>5. SameRefs(t, u)
  BY <1>2 DEF SameRefs, RefsOf
<1> QED
  BY <1>2, <1>3, <1>4, <1>5 DEF Sound, Ground, u

LEMMA SessionLocksKeep ==
  ASSUME NEW t, Sound(t), NEW s
  PROVE  LET u == ReleaseSessionLocks(t, s)
         IN Sound(u) /\ SameRefs(t, u) /\ Evolves(t, u, {s})
<1> DEFINE L == {l \in t.locks : l.session # s}
           u == [t EXCEPT !.locks = L]
<1>1. IsTree(t) /\ t.next \in Nat /\ t.locks \subseteq Ranges
  BY TreeParts DEF Sound, Ground
<1>2. u = ReleaseSessionLocks(t, s)
  BY <1>1 DEF ReleaseSessionLocks, IsTree, Trees
<1>3. L \subseteq Ranges /\ \A l \in L : l.inode \in DOMAIN t.inode /\ t.inode[l.inode].kind = "file"
  BY <1>1 DEF Sound, Ground, SoundLocks
<1>4. L = {l \in t.locks : l.session \notin {s} /\ l.inode \in DOMAIN t.inode}
  BY <1>3
<1> HIDE DEF L
<1>5. /\ Sound(u) /\ SameRefs(t, u) /\ u.locks = L
      /\ u.inode = t.inode /\ u.next = t.next /\ u.generation = t.generation
  BY <1>3, LocksKeep
<1> HIDE DEF u
<1>6. Evolves(t, u, {s})
  BY <1>1, <1>4, <1>5 DEF Evolves
<1> QED
  BY <1>2, <1>5, <1>6

-----------------------------------------------------------------------------
(* References.  What a table g of sessions' fids holds is the triples of   *)
(* an inode, a session and a fid number.                                   *)

Handles == [inode : Inodes, open : Accesses \cup {Closed}]
IsTable(g) == g \in [Sessions -> Maps(Fids, Handles)]
Pairs(g) == {x \in Sessions \X Fids : x[2] \in DOMAIN g[x[1]]}
Holds(g) == {<<g[x[1]][x[2]].inode, x[1], x[2]>> : x \in Pairs(g)}
Accounted(t, g) == \A i \in Inodes : RefsOf(t, i) = Count(Holds(g), i)

LEMMA TableParts ==
  ASSUME NEW g, IsTable(g), NEW s \in Sessions
  PROVE  g[s] \in [DOMAIN g[s] -> Handles] /\ DOMAIN g[s] \subseteq Fids
<1>1. g[s] \in Maps(Fids, Handles)
  BY DEF IsTable
<1> QED
  BY <1>1, MapIs

LEMMA HoldsIs ==
  ASSUME NEW g, NEW i, NEW s, NEW f
  PROVE  <<i, s, f>> \in Holds(g)
           <=> s \in Sessions /\ f \in Fids /\ f \in DOMAIN g[s] /\ i = g[s][f].inode
<1>1. ASSUME <<i, s, f>> \in Holds(g)
      PROVE  s \in Sessions /\ f \in Fids /\ f \in DOMAIN g[s] /\ i = g[s][f].inode
  <2>1. PICK x \in Pairs(g) : <<i, s, f>> = <<g[x[1]][x[2]].inode, x[1], x[2]>>
    BY <1>1 DEF Holds
  <2>2. x \in Sessions \X Fids /\ x[2] \in DOMAIN g[x[1]]
    BY DEF Pairs
  <2> QED
    BY <2>1, <2>2
<1>2. ASSUME s \in Sessions, f \in Fids, f \in DOMAIN g[s], i = g[s][f].inode
      PROVE  <<i, s, f>> \in Holds(g)
  <2> DEFINE x == <<s, f>>
  <2>1. x[1] = s /\ x[2] = f /\ x \in Sessions \X Fids
    BY <1>2
  <2> HIDE DEF x
  <2>2. x \in Pairs(g) /\ <<i, s, f>> = <<g[x[1]][x[2]].inode, x[1], x[2]>>
    BY <1>2, <2>1 DEF Pairs
  <2> QED
    BY <2>2 DEF Holds
<1> QED
  BY <1>1, <1>2

LEMMA HoldsTriples ==
  ASSUME NEW g
  PROVE  \A b \in Holds(g) : b = <<b[1], b[2], b[3]>>
BY DEF Holds

\* The references are as many as the pairs that refer.
LEMMA HoldsFinite ==
  ASSUME NEW g
  PROVE  /\ IsFiniteSet(Holds(g))
         /\ \A i : Count(Holds(g), i) = Cardinality({x \in Pairs(g) : g[x[1]][x[2]].inode = i})
<1>1. IsFiniteSet(Pairs(g))
  <2>1. IsFiniteSet(Sessions \X Fids)
    BY FS_Product, NinePAssumption
  <2>2. Pairs(g) \in SUBSET (Sessions \X Fids)
    BY DEF Pairs
  <2> QED
    BY <2>1, <2>2, FS_Subset
<1>2. IsFiniteSet(Holds(g))
  <2> DEFINE q == [x \in Pairs(g) |-> <<g[x[1]][x[2]].inode, x[1], x[2]>>]
  <2>1. q \in Surjection(Pairs(g), Holds(g))
    <3>1. Holds(g) = {q[x] : x \in Pairs(g)}
      BY DEF Holds
    <3> HIDE DEF q
    <3>2. q \in [Pairs(g) -> Holds(g)]
      BY <3>1 DEF q
    <3> QED
      BY <3>1, <3>2 DEF Surjection
  <2> HIDE DEF q
  <2> QED
    BY <1>1, <2>1, FS_Surjection
<1>3. ASSUME NEW i
      PROVE  Count(Holds(g), i) = Cardinality({x \in Pairs(g) : g[x[1]][x[2]].inode = i})
  <2> DEFINE X == {x \in Pairs(g) : g[x[1]][x[2]].inode = i}
             Y == Of(Holds(g), i)
             q == [x \in X |-> <<i, x[1], x[2]>>]
  <2>1. X \in SUBSET Pairs(g)
    OBVIOUS
  <2>2. IsFiniteSet(X)
    BY <1>1, <2>1, FS_Subset
  <2>3. q \in [X -> Y]
    <3> SUFFICES ASSUME NEW x \in X PROVE <<i, x[1], x[2]>> \in Y
      OBVIOUS
    <3>1. <<i, x[1], x[2]>> \in Holds(g)
      BY DEF Holds
    <3> QED
      BY <3>1 DEF Of
  <2>4. \A x, z \in X : q[x] = q[z] => x = z
    <3> SUFFICES ASSUME NEW x \in X, NEW z \in X, q[x] = q[z] PROVE x = z
      OBVIOUS
    <3>1. x[1] = z[1] /\ x[2] = z[2]
      OBVIOUS
    <3>2. x = <<x[1], x[2]>> /\ z = <<z[1], z[2]>>
      BY DEF Pairs
    <3> QED
      BY <3>1, <3>2
  <2>5. \A b \in Y : \E x \in X : q[x] = b
    <3> SUFFICES ASSUME NEW b \in Y PROVE \E x \in X : q[x] = b
      OBVIOUS
    <3>1. b \in Holds(g) /\ b[1] = i
      BY DEF Of
    <3>2. PICK x \in Pairs(g) : b = <<g[x[1]][x[2]].inode, x[1], x[2]>>
      BY <3>1 DEF Holds
    <3>3. g[x[1]][x[2]].inode = i
      BY <3>1, <3>2
    <3>4. x \in X /\ q[x] = b
      BY <3>2, <3>3
    <3> QED
      BY <3>4
  <2> HIDE DEF q, X, Y
  <2>6. q \in Bijection(X, Y)
    BY <2>3, <2>4, <2>5 DEF Bijection, Injection, Surjection, IsInjective
  <2>7. Cardinality(Y) = Cardinality(X)
    BY <2>2, <2>6, FS_Bijection DEF ExistsBijection
  <2> QED
    BY <2>7 DEF Count, X, Y
<1> QED
  BY <1>2, <1>3

\* The table without a fid, and with one, and with nothing for the sessions S.
Without(g, s, f) == [g EXCEPT ![s] = Restrict(@, DOMAIN @ \ {f})]
Given(g, s, f, r) == [g EXCEPT ![s] = With(@, f, r)]
Dropped(g, S) == [s \in Sessions |-> IF s \in S THEN <<>> ELSE g[s]]

LEMMA WithoutIs ==
  ASSUME NEW g, IsTable(g), NEW s \in Sessions, NEW f \in DOMAIN g[s]
  PROVE  /\ IsTable(Without(g, s, f))
         /\ <<g[s][f].inode, s, f>> \in Holds(g)
         /\ Holds(Without(g, s, f)) = Holds(g) \ {<<g[s][f].inode, s, f>>}
<1> DEFINE h == Without(g, s, f)
<1>1. g \in [Sessions -> Maps(Fids, Handles)]
  BY DEF IsTable
<1>2. g[s] \in [DOMAIN g[s] -> Handles] /\ DOMAIN g[s] \subseteq Fids
  BY TableParts
<1>3. /\ DOMAIN h = Sessions /\ DOMAIN h[s] = DOMAIN g[s] \ {f}
      /\ \A k \in DOMAIN h[s] : h[s][k] = g[s][k]
      /\ \A q \in Sessions \ {s} : h[q] = g[q]
  BY <1>1 DEF Without, Restrict
<1>4. IsTable(h)
  <2>1. h[s] \in [DOMAIN g[s] \ {f} -> Handles]
    BY <1>1, <1>2 DEF Without, Restrict
  <2>2. h[s] \in Maps(Fids, Handles)
    BY <1>2, <1>3, <2>1, MapIs
  <2>3. h = [q \in Sessions |-> h[q]]
    BY <1>1 DEF Without
  <2> HIDE DEF h
  <2>4. \A q \in Sessions : h[q] \in Maps(Fids, Handles)
    BY <1>1, <1>3, <2>2
  <2> QED
    BY <2>3, <2>4 DEF IsTable
<1> HIDE DEF h
<1>5. <<g[s][f].inode, s, f>> \in Holds(g)
  BY <1>2, HoldsIs
<1>6. Holds(h) = Holds(g) \ {<<g[s][f].inode, s, f>>}
  <2>1. ASSUME NEW i, NEW q, NEW k
        PROVE  <<i, q, k>> \in Holds(h) <=> <<i, q, k>> \in Holds(g) /\ <<i, q, k>> # <<g[s][f].inode, s, f>>
    <3>1. <<i, q, k>> \in Holds(h) <=> q \in Sessions /\ k \in Fids /\ k \in DOMAIN h[q] /\ i = h[q][k].inode
      BY HoldsIs
    <3>2. <<i, q, k>> \in Holds(g) <=> q \in Sessions /\ k \in Fids /\ k \in DOMAIN g[q] /\ i = g[q][k].inode
      BY HoldsIs
    <3> QED
      BY <1>3, <3>1, <3>2
  <2>2. ASSUME NEW b \in Holds(h) PROVE b \in Holds(g) /\ b # <<g[s][f].inode, s, f>>
    <3>1. b = <<b[1], b[2], b[3]>>
      BY HoldsTriples
    <3> QED
      BY <2>1, <3>1
  <2>3. ASSUME NEW b \in Holds(g), b # <<g[s][f].inode, s, f>> PROVE b \in Holds(h)
    <3>1. b = <<b[1], b[2], b[3]>>
      BY HoldsTriples
    <3> QED
      BY <2>1, <2>3, <3>1
  <2> QED
    BY <2>2, <2>3
<1> QED
  BY <1>4, <1>5, <1>6 DEF h

LEMMA GivenIs ==
  ASSUME NEW g, IsTable(g), NEW s \in Sessions, NEW f \in Fids, NEW r \in Handles
  PROVE  /\ IsTable(Given(g, s, f, r))
         /\ <<r.inode, s, f>> \in Holds(Given(g, s, f, r))
         /\ f \notin DOMAIN g[s] => /\ <<r.inode, s, f>> \notin Holds(g)
                                    /\ Holds(Given(g, s, f, r)) = Holds(g) \cup {<<r.inode, s, f>>}
<1> DEFINE h == Given(g, s, f, r)
<1>1. g \in [Sessions -> Maps(Fids, Handles)]
  BY DEF IsTable
<1>2. g[s] \in [DOMAIN g[s] -> Handles] /\ DOMAIN g[s] \subseteq Fids
  BY TableParts
<1>3. /\ DOMAIN h = Sessions /\ DOMAIN h[s] = DOMAIN g[s] \cup {f} /\ h[s][f] = r
      /\ \A k \in DOMAIN g[s] \ {f} : h[s][k] = g[s][k]
      /\ \A q \in Sessions \ {s} : h[q] = g[q]
  BY <1>1 DEF Given, With
<1>4. IsTable(h)
  <2>1. h[s] \in [DOMAIN g[s] \cup {f} -> Handles]
    BY <1>1, <1>2 DEF Given, With
  <2>2. h[s] \in Maps(Fids, Handles)
    BY <1>2, <1>3, <2>1, MapIs
  <2>3. h = [q \in Sessions |-> h[q]]
    BY <1>1 DEF Given
  <2> HIDE DEF h
  <2>4. \A q \in Sessions : h[q] \in Maps(Fids, Handles)
    BY <1>1, <1>3, <2>2
  <2> QED
    BY <2>3, <2>4 DEF IsTable
<1> HIDE DEF h
<1>6. <<r.inode, s, f>> \in Holds(h)
  BY <1>3, HoldsIs
<1>7. ASSUME f \notin DOMAIN g[s]
      PROVE  <<r.inode, s, f>> \notin Holds(g) /\ Holds(h) = Holds(g) \cup {<<r.inode, s, f>>}
  <2>1. ASSUME NEW i, NEW q, NEW k
        PROVE  <<i, q, k>> \in Holds(h) <=> <<i, q, k>> \in Holds(g) \/ <<i, q, k>> = <<r.inode, s, f>>
    <3>1. <<i, q, k>> \in Holds(h) <=> q \in Sessions /\ k \in Fids /\ k \in DOMAIN h[q] /\ i = h[q][k].inode
      BY HoldsIs
    <3>2. <<i, q, k>> \in Holds(g) <=> q \in Sessions /\ k \in Fids /\ k \in DOMAIN g[q] /\ i = g[q][k].inode
      BY HoldsIs
    <3> QED
      BY <1>3, <1>7, <3>1, <3>2
  <2>2. ASSUME NEW b \in Holds(h) PROVE b \in Holds(g) \/ b = <<r.inode, s, f>>
    <3>1. b = <<b[1], b[2], b[3]>>
      BY HoldsTriples
    <3> QED
      BY <2>1, <3>1
  <2>3. ASSUME NEW b \in Holds(g) PROVE b \in Holds(h)
    <3>1. b = <<b[1], b[2], b[3]>>
      BY HoldsTriples
    <3> QED
      BY <2>1, <3>1
  <2>4. <<r.inode, s, f>> \notin Holds(g)
    BY <1>7, HoldsIs
  <2> QED
    BY <1>6, <2>2, <2>3, <2>4
<1> QED
  BY <1>4, <1>6, <1>7 DEF h

LEMMA GivenFree ==
  ASSUME NEW g, IsTable(g), NEW s \in Sessions, NEW f \in Fids, f \notin DOMAIN g[s],
         NEW r \in Handles, NEW b, b = <<r.inode, s, f>>
  PROVE  IsTable(Given(g, s, f, r)) /\ Holds(Given(g, s, f, r)) = Holds(g) \cup {b}
<1>1. /\ IsTable(Given(g, s, f, r))
      /\ f \notin DOMAIN g[s] => Holds(Given(g, s, f, r)) = Holds(g) \cup {<<r.inode, s, f>>}
  BY GivenIs
<1> QED
  BY <1>1

LEMMA GivenInstead ==
  ASSUME NEW g, IsTable(g), NEW s \in Sessions, NEW f \in DOMAIN g[s], NEW r
  PROVE  Given(g, s, f, r) = Given(Without(g, s, f), s, f, r)
<1>1. With(Restrict(g[s], DOMAIN g[s] \ {f}), f, r) = With(g[s], f, r)
  BY DEF With, Restrict
<1> QED
  BY <1>1 DEF Given, Without, IsTable

\* A fid holds an inode that is there.
LEMMA HeldExists ==
  ASSUME NEW t, Sound(t), NEW g, IsTable(g), Accounted(t, g), NEW s \in Sessions,
         NEW f \in DOMAIN g[s]
  PROVE  LET i == g[s][f].inode
         IN i \in Inodes /\ i \in DOMAIN t.inode /\ RefsOf(t, i) > 0
<1> DEFINE i == g[s][f].inode
<1>1. g[s][f] \in Handles
  BY TableParts
<1>2. i \in Inodes
  BY <1>1 DEF Handles
<1>3. <<i, s, f>> \in Holds(g) /\ <<i, s, f>>[1] = i
  BY WithoutIs
<1>4. IsFiniteSet(Holds(g))
  BY HoldsFinite
<1>5. Count(Holds(g), i) \in Nat /\ Count(Holds(g), i) # 0
  BY <1>3, <1>4, CountNone
<1>6. RefsOf(t, i) = Count(Holds(g), i)
  BY <1>2 DEF Accounted
<1> HIDE DEF Count, i
<1>7. RefsOf(t, i) > 0
  BY <1>5, <1>6
<1> QED
  BY <1>2, <1>7 DEF RefsOf, i

\* A fid is clunked.
LEMMA ClunkAccounted ==
  ASSUME NEW t, Sound(t), NEW g, IsTable(g), Accounted(t, g), NEW s \in Sessions,
         NEW f \in DOMAIN g[s]
  PROVE  LET u == ReleaseFid(t, g[s][f].inode)
         IN Sound(u) /\ Evolves(t, u, {}) /\ Accounted(u, Without(g, s, f)) /\ Quiet(t, u)
<1> DEFINE i == g[s][f].inode
           b == <<i, s, f>>
           u == ReleaseFid(t, i)
<1>1. i \in Inodes /\ RefsOf(t, i) > 0
  BY HeldExists
<1>2. b \in Holds(g) /\ Holds(Without(g, s, f)) = Holds(g) \ {b} /\ b[1] = i
  BY WithoutIs
<1>3. IsFiniteSet(Holds(g))
  BY HoldsFinite
<1> HIDE DEF i, b
<1>4. \A k : /\ Count(Holds(g) \ {b}, k) \in Nat
             /\ Count(Holds(g), k) = Count(Holds(g) \ {b}, k) + (IF b[1] = k THEN 1 ELSE 0)
  BY <1>2, <1>3, CountTakes
<1>5. Sound(u) /\ Evolves(t, u, {})
      /\ \A k \in Inodes : RefsOf(u, k) = RefsOf(t, k) - (IF k = i THEN 1 ELSE 0)
  BY <1>1, ReleaseKeeps
<1> HIDE DEF u, Count
<1>6. Accounted(u, Without(g, s, f))
  <2> SUFFICES ASSUME NEW k \in Inodes PROVE RefsOf(u, k) = Count(Holds(g) \ {b}, k)
    BY <1>2 DEF Accounted
  <2>1. RefsOf(u, k) = RefsOf(t, k) - (IF k = i THEN 1 ELSE 0)
    BY <1>5
  <2>2. RefsOf(t, k) = Count(Holds(g), k)
    BY DEF Accounted
  <2>3. /\ Count(Holds(g) \ {b}, k) \in Nat
        /\ Count(Holds(g), k) = Count(Holds(g) \ {b}, k) + (IF b[1] = k THEN 1 ELSE 0)
    BY <1>4
  <2>4. b[1] = i
    BY <1>2
  <2> QED
    BY <2>1, <2>2, <2>3, <2>4
<1>7. Quiet(t, u)
  <2>1. IsTree(t) /\ i \in DOMAIN t.inode /\ t.inode[i].refs > 0
    BY <1>1 DEF RefsOf, Sound, Ground
  <2> QED
    BY <2>1, ReleaseQuiet DEF u
<1> QED
  BY <1>5, <1>6, <1>7 DEF u, i

\* A fid is installed, in the place of another or not.
LEMMA InstallAccounted ==
  ASSUME NEW t, Sound(t), NEW g, IsTable(g), Accounted(t, g), NEW s \in Sessions,
         NEW f \in Fids, NEW i \in DOMAIN t.inode, NEW open \in Accesses \cup {Closed}
  PROVE  LET u == Installed(t, g[s], f, i)
             h == Given(g, s, f, [inode |-> i, open |-> open])
         IN Sound(u) /\ Evolves(t, u, {}) /\ IsTable(h) /\ Accounted(u, h) /\ Quiet(t, u)
<1> DEFINE r == [inode |-> i, open |-> open]
           h == Given(g, s, f, r)
           v == RetainFid(t, i)
           u == Installed(t, g[s], f, i)
           b == <<i, s, f>>
<1>1. i \in Inodes
  BY TreeParts DEF Sound, Ground
<1>2. r \in Handles /\ r.inode = i
  BY <1>1 DEF Handles
<1> HIDE DEF r
<1>3. Sound(v) /\ Evolves(t, v, {})
      /\ \A k \in Inodes : RefsOf(v, k) = RefsOf(t, k) + (IF k = i THEN 1 ELSE 0)
  BY RetainKeeps
<1>4. IsTable(h)
  BY <1>2, GivenIs
<1>5. b[1] = i
  OBVIOUS
<1>8. Quiet(t, v)
  BY RetainQuiet DEF Sound, Ground
<1>6. CASE f \notin DOMAIN g[s]
  <2>1. b \notin Holds(g) /\ Holds(h) = Holds(g) \cup {b}
    BY <1>2, <1>6, GivenIs
  <2>2. IsFiniteSet(Holds(g))
    BY HoldsFinite
  <2>3. u = v
    BY <1>6 DEF Installed
  <2> HIDE DEF b, u, v, h
  <2>4. \A k : /\ Count(Holds(g), k) \in Nat
               /\ Count(Holds(g) \cup {b}, k) = Count(Holds(g), k) + (IF b[1] = k THEN 1 ELSE 0)
    BY <2>1, <2>2, CountAdds
  <2> HIDE DEF Count
  <2>5. Accounted(u, h)
    <3> SUFFICES ASSUME NEW k \in Inodes PROVE RefsOf(u, k) = Count(Holds(g) \cup {b}, k)
      BY <2>1 DEF Accounted
    <3>1. RefsOf(u, k) = RefsOf(t, k) + (IF k = i THEN 1 ELSE 0)
      BY <1>3, <2>3
    <3>2. RefsOf(t, k) = Count(Holds(g), k)
      BY DEF Accounted
    <3>3. Count(Holds(g) \cup {b}, k) = Count(Holds(g), k) + (IF b[1] = k THEN 1 ELSE 0)
      BY <2>4
    <3> QED
      BY <1>5, <3>1, <3>2, <3>3
  <2> QED
    BY <1>3, <1>4, <1>8, <2>3, <2>5 DEF u, h, r
<1>7. CASE f \in DOMAIN g[s]
  <2> DEFINE j == g[s][f].inode
             a == <<j, s, f>>
             q == Without(g, s, f)
  <2>1. /\ IsTable(q) /\ a \in Holds(g) /\ Holds(q) = Holds(g) \ {a} /\ a[1] = j
    BY <1>7, WithoutIs
  <2>2. f \notin DOMAIN q[s]
    BY <1>7 DEF Without, Restrict, IsTable
  <2>3. h = Given(q, s, f, r)
    <3>1. f \in DOMAIN g[s]
      BY <1>7
    <3>2. Given(g, s, f, r) = Given(Without(g, s, f), s, f, r)
      BY <3>1, GivenInstead
    <3> QED
      BY <3>2
  <2>4. j \in Inodes /\ RefsOf(t, j) > 0
    BY <1>7, HeldExists
  <2> HIDE DEF a, q
  <2>5. b \notin Holds(q) /\ Holds(h) = Holds(q) \cup {b}
    BY <1>2, <2>1, <2>2, <2>3, GivenIs
  <2>6. IsFiniteSet(Holds(q)) /\ IsFiniteSet(Holds(g))
    BY HoldsFinite
  <2> HIDE DEF b, j
  <2>7. \A k : /\ Count(Holds(g) \ {a}, k) \in Nat
               /\ Count(Holds(g), k) = Count(Holds(g) \ {a}, k) + (IF a[1] = k THEN 1 ELSE 0)
    BY <2>1, <2>6, CountTakes
  <2>8. \A k : /\ Count(Holds(q), k) \in Nat
               /\ Count(Holds(q) \cup {b}, k) = Count(Holds(q), k) + (IF b[1] = k THEN 1 ELSE 0)
    BY <2>5, <2>6, CountAdds
  <2> HIDE DEF Count, h
  <2>9. u = ReleaseFid(v, j)
    BY <1>7 DEF Installed, j
  <2>10. RefsOf(v, j) > 0
    <3>1. RefsOf(v, j) = RefsOf(t, j) + (IF j = i THEN 1 ELSE 0)
      BY <1>3, <2>4
    <3>2. RefsOf(t, j) = Count(Holds(g), j) /\ Count(Holds(g), j) = Count(Holds(g) \ {a}, j) + (IF a[1] = j THEN 1 ELSE 0)
          /\ Count(Holds(g) \ {a}, j) \in Nat
      BY <2>4, <2>7 DEF Accounted
    <3> QED
      BY <3>1, <3>2, <2>4
  <2> HIDE DEF u
  <2> HIDE DEF v
  <2>11. Sound(u) /\ Evolves(v, u, {})
         /\ \A k \in Inodes : RefsOf(u, k) = RefsOf(v, k) - (IF k = j THEN 1 ELSE 0)
    BY <1>3, <2>4, <2>9, <2>10, ReleaseKeeps
  <2>12. Evolves(t, u, {} \cup {})
    BY <1>3, <2>11, EvolvesFurther DEF Sound
  <2>13. {} \cup {} = {}
    OBVIOUS
  <2>14. Accounted(u, h)
    <3> SUFFICES ASSUME NEW k \in Inodes PROVE RefsOf(u, k) = Count(Holds(q) \cup {b}, k)
      BY <2>5 DEF Accounted
    <3>1. RefsOf(u, k) = RefsOf(v, k) - (IF k = j THEN 1 ELSE 0)
      BY <2>11
    <3>2. RefsOf(v, k) = RefsOf(t, k) + (IF k = i THEN 1 ELSE 0)
      BY <1>3
    <3>3. RefsOf(t, k) = Count(Holds(g), k)
      BY DEF Accounted
    <3>4. /\ Count(Holds(g) \ {a}, k) \in Nat
          /\ Count(Holds(g), k) = Count(Holds(g) \ {a}, k) + (IF j = k THEN 1 ELSE 0)
      BY <2>1, <2>7
    <3>5. Count(Holds(q) \cup {b}, k) = Count(Holds(q), k) + (IF i = k THEN 1 ELSE 0)
      BY <1>5, <2>8
    <3>6. Count(Holds(q), k) = Count(Holds(g) \ {a}, k)
      BY <2>1
    <3> QED
      BY <3>1, <3>2, <3>3, <3>4, <3>5, <3>6
  <2>15. Evolves(t, u, {})
    BY <2>12, <2>13
  <2>16. Quiet(v, u)
    <3>1. IsTree(v) /\ j \in DOMAIN v.inode /\ v.inode[j].refs > 0
      BY <1>3, <2>10 DEF RefsOf, Sound, Ground
    <3> QED
      BY <2>9, <3>1, ReleaseQuiet
  <2>17. Quiet(t, u)
    BY <1>8, <2>16, QuietFurther
  <2> QED
    BY <1>4, <2>11, <2>14, <2>15, <2>17 DEF u, h, r
<1> QED
  BY <1>6, <1>7

-----------------------------------------------------------------------------
(* A session ends.                                                         *)

\* The trees its release goes through: iter[S] is the tree without the fids in S.
Unwinds(iter, t, s, table) ==
  /\ Released(t, s, table) = ReleaseSessionLocks(iter[DOMAIN table], s)
  /\ iter[{}] = t
  /\ \A S \in SUBSET DOMAIN table :
       S # {} => \E x \in S : iter[S] = ReleaseFid(iter[S \ {x}], table[x].inode)

\* Its fids are released one after another.
LEMMA ReleasedFolds ==
  ASSUME NEW t, NEW s, NEW table, IsFiniteSet(DOMAIN table)
  PROVE  \E iter : Unwinds(iter, t, s, table)
<1> DEFINE D == DOMAIN table
           F(f) == [S \in SUBSET D |->
                      IF S = {} THEN t
                      ELSE ReleaseFid(f[S \ {CHOOSE x \in S : TRUE}], table[CHOOSE x \in S : TRUE].inode)]
           iter == CHOOSE f : f = F(f)
           m == Cardinality(D)
           c == Picks(D)
           Small(n) == {S \in SUBSET D : Cardinality(S) <= n}
           Solves(f, n) == /\ f = [S \in Small(n) |-> f[S]] /\ f[{}] = t
                           /\ \A S \in Small(n) : S # {} => f[S] = ReleaseFid(f[S \ {c[S]}], table[c[S]].inode)
           T == {n \in Nat : \E f : Solves(f, n)}
<1>1. Released(t, s, table) = ReleaseSessionLocks(iter[D], s)
  BY DEF Released, FoldSet, MapThenFoldSet
<1>2. m \in Nat /\ IsFiniteSet(D)
  BY FS_CardinalityType
<1>3. \A S \in SUBSET D : S # {} => c[S] = (CHOOSE x \in S : TRUE) /\ c[S] \in S
  BY DEF Picks
<1> HIDE DEF D, c
<1>4. \A S \in SUBSET D : IsFiniteSet(S) /\ Cardinality(S) \in 0 .. m
  BY <1>2, FS_Subset, FS_CardinalityType
<1>5. \A S \in SUBSET D : Cardinality(S) = 0 <=> S = {}
  BY <1>4, FS_EmptySet
<1>6. \A S \in SUBSET D : S # {} => /\ S \ {c[S]} \in SUBSET D /\ c[S] \in D
                                    /\ Cardinality(S \ {c[S]}) = Cardinality(S) - 1
  BY <1>3, <1>4, FS_RemoveElement
<1> HIDE DEF m
<1>7. 0 \in T
  <2> DEFINE f == [S \in Small(0) |-> t]
  <2>1. \A S \in Small(0) : S = {}
    BY <1>2, <1>4, <1>5
  <2>2. {} \in Small(0)
    BY <1>5
  <2>3. Solves(f, 0)
    BY <2>1, <2>2
  <2> HIDE DEF f, Solves, Small
  <2> QED
    BY <2>3
<1>8. ASSUME NEW n \in 0 .. m - 1, n \in T PROVE n + 1 \in T
  <2>1. PICK f : Solves(f, n)
    BY <1>8
  <2> DEFINE g == [S \in Small(n + 1) |-> IF S \in Small(n) THEN f[S]
                                          ELSE ReleaseFid(f[S \ {c[S]}], table[c[S]].inode)]
  <2>2. {} \in Small(n) /\ {} \in Small(n + 1)
    BY <1>2, <1>4, <1>5
  <2>3. \A S \in Small(n + 1) : S # {} => S \ {c[S]} \in Small(n) /\ S \ {c[S]} \in Small(n + 1)
    BY <1>2, <1>4, <1>6
  <2> HIDE DEF Small
  <2>4. ASSUME NEW S \in Small(n + 1), S # {} PROVE g[S] = ReleaseFid(g[S \ {c[S]}], table[c[S]].inode)
    <3>1. g[S \ {c[S]}] = f[S \ {c[S]}]
      BY <2>3, <2>4
    <3>2. CASE S \in Small(n)
      <4>1. g[S] = f[S] /\ f[S] = ReleaseFid(f[S \ {c[S]}], table[c[S]].inode)
        BY <2>1, <2>4, <3>2
      <4> HIDE DEF g
      <4> QED
        BY <3>1, <4>1
    <3>3. CASE S \notin Small(n)
      <4>1. g[S] = ReleaseFid(f[S \ {c[S]}], table[c[S]].inode)
        BY <3>3
      <4> HIDE DEF g
      <4> QED
        BY <3>1, <4>1
    <3> QED
      BY <3>2, <3>3
  <2>5. g[{}] = t /\ g = [S \in Small(n + 1) |-> g[S]]
    BY <2>1, <2>2
  <2> HIDE DEF g
  <2>6. Solves(g, n + 1)
    BY <2>4, <2>5
  <2> HIDE DEF Solves
  <2> QED
    BY <1>2, <2>6
<1> HIDE DEF T
<1>9. m \in T
  <2>1. \A n \in 0 .. m : n \in T
    BY <1>2, <1>7, <1>8, InductionUpTo
  <2> QED
    BY <1>2, <2>1
<1>10. PICK f : Solves(f, m)
  BY <1>9 DEF T
<1>11. Small(m) = SUBSET D
  BY <1>2, <1>4
<1>12. f = F(f)
  <2>1. f = [S \in SUBSET D |-> f[S]] /\ f[{}] = t
    BY <1>10, <1>11
  <2>2. ASSUME NEW S \in SUBSET D, S # {}
        PROVE  f[S] = ReleaseFid(f[S \ {CHOOSE x \in S : TRUE}], table[CHOOSE x \in S : TRUE].inode)
    <3>1. f[S] = ReleaseFid(f[S \ {c[S]}], table[c[S]].inode)
      BY <1>10, <1>11, <2>2
    <3>2. c[S] = (CHOOSE x \in S : TRUE)
      BY <1>3, <2>2
    <3> QED
      BY <3>1, <3>2
  <2> HIDE DEF Solves
  <2>3. \A S \in SUBSET D : f[S] = F(f)[S]
    BY <2>1, <2>2
  <2> QED
    BY <2>1, <2>3
<1>13. iter = F(iter)
  <2>1. \E g : g = F(g)
    BY <1>12
  <2> HIDE DEF F
  <2> QED
    BY <2>1, Zenon
<1> HIDE DEF iter
<1>14. iter[{}] = t
  BY <1>13
<1>15. ASSUME NEW S \in SUBSET D, S # {}
       PROVE  \E x \in S : iter[S] = ReleaseFid(iter[S \ {x}], table[x].inode)
  <2>1. PICK y \in S : y = (CHOOSE x \in S : TRUE)
    BY <1>15
  <2>2. F(iter)[S] = ReleaseFid(iter[S \ {CHOOSE x \in S : TRUE}], table[CHOOSE x \in S : TRUE].inode)
    BY <1>15
  <2> HIDE DEF F
  <2>3. iter[S] = ReleaseFid(iter[S \ {y}], table[y].inode)
    BY <1>13, <2>1, <2>2
  <2> QED
    BY <2>3
<1>16. Unwinds(iter, t, s, table)
  BY <1>1, <1>14, <1>15 DEF D, Unwinds
<1> QED
  BY <1>16

LEMMA DroppedTable ==
  ASSUME NEW g, IsTable(g), NEW S
  PROVE  /\ IsTable(Dropped(g, S))
         /\ \A s \in Sessions : Dropped(g, S)[s] = IF s \in S THEN <<>> ELSE g[s]
<1>1. <<>> \in Maps(Fids, Handles)
  <2> DEFINE e == <<>>
  <2>1. DOMAIN e = {}
    OBVIOUS
  <2>2. e \in [{} -> Handles]
    BY <2>1
  <2> HIDE DEF e
  <2>3. e \in Maps(Fids, Handles)
    BY <2>1, <2>2, MapIs
  <2> QED
    BY <2>3 DEF e
<1>2. \A s \in Sessions : g[s] \in Maps(Fids, Handles)
  BY DEF IsTable
<1> QED
  BY <1>1, <1>2 DEF Dropped, IsTable

LEMMA ReleasedKeeps ==
  ASSUME NEW t, Sound(t), NEW g, IsTable(g), Accounted(t, g), NEW s \in Sessions
  PROVE  LET u == Released(t, s, g[s])
         IN Sound(u) /\ Evolves(t, u, {s}) /\ Accounted(u, Dropped(g, {s})) /\ Quiet(t, u)
<1> DEFINE D == DOMAIN g[s]
           Less(F) == [g EXCEPT ![s] = Restrict(g[s], D \ F)]
<1>1. IsFiniteSet(D)
  <2>1. D \in SUBSET Fids
    BY TableParts
  <2> HIDE DEF D
  <2> QED
    BY <2>1, FS_Subset, NinePAssumption
<1>2. PICK iter :
        /\ Released(t, s, g[s]) = ReleaseSessionLocks(iter[D], s)
        /\ iter[{}] = t
        /\ \A S \in SUBSET D : S # {} => \E x \in S : iter[S] = ReleaseFid(iter[S \ {x}], g[s][x].inode)
  <2> DEFINE w == g[s]
  <2>1. IsFiniteSet(DOMAIN w)
    BY <1>1
  <2> HIDE DEF w
  <2>2. PICK f : Unwinds(f, t, s, w)
    BY <2>1, ReleasedFolds
  <2>3. Unwinds(f, t, s, g[s])
    BY <2>2 DEF w
  <2> QED
    BY <2>3 DEF Unwinds
<1>3. g \in [Sessions -> Maps(Fids, Handles)] /\ g[s] \in [D -> Handles]
  BY TableParts DEF IsTable
<1> DEFINE Q == {F \in SUBSET D : /\ Sound(iter[F]) /\ Evolves(t, iter[F], {})
                                  /\ IsTable(Less(F)) /\ Accounted(iter[F], Less(F))
                                  /\ Quiet(t, iter[F])}
<1>4. {} \in Q
  <2>1. Restrict(g[s], D \ {}) = g[s]
    <3> HIDE DEF D
    <3>1. g[s] = [x \in D |-> g[s][x]] /\ D \ {} = D
      BY <1>3
    <3> QED
      BY <3>1 DEF Restrict
  <2>2. Less({}) = g
    BY <1>3, <2>1
  <2>3. Keeps(t, t)
    BY CoreKeeps DEF Sound, Ground
  <2> HIDE DEF Less
  <2> QED
    BY <1>2, <2>2, <2>3, QuietItself DEF Keeps
<1>5. ASSUME NEW F \in SUBSET D, F # {}, \A x \in F : F \ {x} \in Q PROVE F \in Q
  <2>1. PICK x \in F : iter[F] = ReleaseFid(iter[F \ {x}], g[s][x].inode)
    BY <1>2, <1>5
  <2> DEFINE G == F \ {x}
             h == Less(G)
  <2>2. Sound(iter[G]) /\ Evolves(t, iter[G], {}) /\ IsTable(h) /\ Accounted(iter[G], h)
        /\ Quiet(t, iter[G])
    BY <1>5
  <2>3. h[s] = Restrict(g[s], D \ G)
    BY <1>3
  <2>4. x \in DOMAIN h[s] /\ h[s][x] = g[s][x] /\ x \in D
    BY <2>3 DEF Restrict
  <2>5. Without(h, s, x) = Less(F)
    <3>1. DOMAIN h[s] \ {x} = D \ F
      BY <2>3 DEF Restrict
    <3>2. Restrict(h[s], D \ F) = Restrict(g[s], D \ F)
      BY <2>3 DEF Restrict
    <3>3. Without(h, s, x) = [h EXCEPT ![s] = Restrict(h[s], D \ F)]
      BY <3>1 DEF Without
    <3>4. [h EXCEPT ![s] = Restrict(g[s], D \ F)] = Less(F)
      BY <1>3
    <3> QED
      BY <3>2, <3>3, <3>4
  <2> HIDE DEF Less, D, h
  <2>6. IsTable(Without(h, s, x))
    BY <2>2, <2>4, WithoutIs
  <2>7. iter[F] = ReleaseFid(iter[G], h[s][x].inode)
    BY <2>1, <2>4
  <2> HIDE DEF G
  <2>8. Sound(iter[F]) /\ Evolves(iter[G], iter[F], {}) /\ Accounted(iter[F], Without(h, s, x))
        /\ Quiet(iter[G], iter[F])
    BY <2>2, <2>4, <2>7, ClunkAccounted
  <2>9. Evolves(t, iter[F], {} \cup {})
    BY <2>2, <2>8, EvolvesFurther DEF Sound
  <2>10. {} \cup {} = {}
    OBVIOUS
  <2>11. Evolves(t, iter[F], {})
    BY <2>9, <2>10
  <2>12. Quiet(t, iter[F])
    BY <2>2, <2>8, QuietFurther
  <2> QED
    BY <2>5, <2>6, <2>8, <2>11, <2>12
<1> HIDE DEF Q
<1>6. D \in Q
  <2>1. \A F \in SUBSET D : F \in Q
    BY <1>1, <1>4, <1>5, SubsetInduction
  <2> QED
    BY <2>1
<1>7. Sound(iter[D]) /\ Evolves(t, iter[D], {}) /\ Accounted(iter[D], Less(D)) /\ Quiet(t, iter[D])
  BY <1>6 DEF Q
<1>8. Less(D) = Dropped(g, {s})
  <2>1. Restrict(g[s], D \ D) = <<>>
    <3>1. D \ D = {}
      OBVIOUS
    <3>2. \A f : Restrict(f, {}) = <<>>
      BY DEF Restrict
    <3> QED
      BY <3>1, <3>2
  <2>2. Less(D) = [g EXCEPT ![s] = <<>>]
    BY <2>1
  <2> HIDE DEF Less
  <2> QED
    BY <1>3, <2>2 DEF Dropped
<1> HIDE DEF Less, D
<1> DEFINE u == Released(t, s, g[s])
<1>9. Sound(u) /\ SameRefs(iter[D], u) /\ Evolves(iter[D], u, {s})
  BY <1>2, <1>7, SessionLocksKeep
<1>14. Quiet(t, u)
  <2>1. Quiet(iter[D], u)
    BY <1>2, <1>7, SessionLocksQuiet DEF Sound, Ground
  <2> QED
    BY <1>7, <2>1, QuietFurther
<1> HIDE DEF u
<1>10. Evolves(t, u, {} \cup {s})
  BY <1>7, <1>9, EvolvesFurther DEF Sound
<1>11. {} \cup {s} = {s}
  OBVIOUS
<1>12. Accounted(u, Dropped(g, {s}))
  BY <1>7, <1>8, <1>9 DEF Accounted, SameRefs
<1>13. Evolves(t, u, {s})
  BY <1>10, <1>11
<1> QED
  BY <1>9, <1>12, <1>13, <1>14 DEF u

-----------------------------------------------------------------------------
(* Sessions are reset.                                                     *)

\* What NinePSession::reset does for each of the sessions in S, one after another:
\* a session whose table g[s] is of the present generation gives its fids up.
ResetTree(t, g, gens, n, S) ==
  FoldSet(LAMBDA s, tree : IF gens[s] = n THEN Released(tree, s, g[s]) ELSE tree, t, S)
Closing(tree, g, gens, n, s) == IF gens[s] = n THEN Released(tree, s, g[s]) ELSE tree

\* The trees this goes through: iter[F] is the tree when the sessions in F are done.
Closes(iter, t, g, gens, n, S) ==
  /\ ResetTree(t, g, gens, n, S) = iter[S]
  /\ iter[{}] = t
  /\ \A F \in SUBSET S :
       F # {} => \E x \in F : iter[F] = Closing(iter[F \ {x}], g, gens, n, x)

\* They are reset one after another.
LEMMA ResetFolds ==
  ASSUME NEW t, NEW g, NEW gens, NEW n, NEW D, IsFiniteSet(D)
  PROVE  \E iter : Closes(iter, t, g, gens, n, D)
<1> DEFINE F(f) == [S \in SUBSET D |->
                      IF S = {} THEN t
                      ELSE Closing(f[S \ {CHOOSE x \in S : TRUE}], g, gens, n, CHOOSE x \in S : TRUE)]
           iter == CHOOSE f : f = F(f)
           m == Cardinality(D)
           c == Picks(D)
           Small(k) == {S \in SUBSET D : Cardinality(S) <= k}
           Solves(f, k) == /\ f = [S \in Small(k) |-> f[S]] /\ f[{}] = t
                           /\ \A S \in Small(k) : S # {} => f[S] = Closing(f[S \ {c[S]}], g, gens, n, c[S])
           T == {k \in Nat : \E f : Solves(f, k)}
<1>1. ResetTree(t, g, gens, n, D) = iter[D]
  BY DEF ResetTree, Closing, FoldSet, MapThenFoldSet
<1>2. m \in Nat /\ IsFiniteSet(D)
  BY FS_CardinalityType
<1>3. \A S \in SUBSET D : S # {} => c[S] = (CHOOSE x \in S : TRUE) /\ c[S] \in S
  BY DEF Picks
<1> HIDE DEF c
<1>4. \A S \in SUBSET D : IsFiniteSet(S) /\ Cardinality(S) \in 0 .. m
  BY <1>2, FS_Subset, FS_CardinalityType
<1>5. \A S \in SUBSET D : Cardinality(S) = 0 <=> S = {}
  BY <1>4, FS_EmptySet
<1>6. \A S \in SUBSET D : S # {} => /\ S \ {c[S]} \in SUBSET D /\ c[S] \in D
                                    /\ Cardinality(S \ {c[S]}) = Cardinality(S) - 1
  BY <1>3, <1>4, FS_RemoveElement
<1> HIDE DEF m
<1>7. 0 \in T
  <2> DEFINE f == [S \in Small(0) |-> t]
  <2>1. \A S \in Small(0) : S = {}
    BY <1>2, <1>4, <1>5
  <2>2. {} \in Small(0)
    BY <1>5
  <2>3. Solves(f, 0)
    BY <2>1, <2>2
  <2> HIDE DEF f, Solves, Small
  <2> QED
    BY <2>3
<1>8. ASSUME NEW k \in 0 .. m - 1, k \in T PROVE k + 1 \in T
  <2>1. PICK f : Solves(f, k)
    BY <1>8
  <2> DEFINE h == [S \in Small(k + 1) |-> IF S \in Small(k) THEN f[S]
                                          ELSE Closing(f[S \ {c[S]}], g, gens, n, c[S])]
  <2>2. {} \in Small(k) /\ {} \in Small(k + 1)
    BY <1>2, <1>4, <1>5
  <2>3. \A S \in Small(k + 1) : S # {} => S \ {c[S]} \in Small(k) /\ S \ {c[S]} \in Small(k + 1)
    BY <1>2, <1>4, <1>6
  <2> HIDE DEF Small
  <2>4. ASSUME NEW S \in Small(k + 1), S # {} PROVE h[S] = Closing(h[S \ {c[S]}], g, gens, n, c[S])
    <3>1. h[S \ {c[S]}] = f[S \ {c[S]}]
      BY <2>3, <2>4
    <3>2. CASE S \in Small(k)
      <4>1. h[S] = f[S] /\ f[S] = Closing(f[S \ {c[S]}], g, gens, n, c[S])
        BY <2>1, <2>4, <3>2
      <4> HIDE DEF h
      <4> QED
        BY <3>1, <4>1
    <3>3. CASE S \notin Small(k)
      <4>1. h[S] = Closing(f[S \ {c[S]}], g, gens, n, c[S])
        BY <3>3
      <4> HIDE DEF h
      <4> QED
        BY <3>1, <4>1
    <3> QED
      BY <3>2, <3>3
  <2>5. h[{}] = t /\ h = [S \in Small(k + 1) |-> h[S]]
    BY <2>1, <2>2
  <2> HIDE DEF h
  <2>6. Solves(h, k + 1)
    BY <2>4, <2>5
  <2> HIDE DEF Solves
  <2> QED
    BY <1>2, <2>6
<1> HIDE DEF T
<1>9. m \in T
  <2>1. \A k \in 0 .. m : k \in T
    BY <1>2, <1>7, <1>8, InductionUpTo
  <2> QED
    BY <1>2, <2>1
<1>10. PICK f : Solves(f, m)
  BY <1>9 DEF T
<1>11. Small(m) = SUBSET D
  BY <1>2, <1>4
<1>12. f = F(f)
  <2>1. f = [S \in SUBSET D |-> f[S]] /\ f[{}] = t
    BY <1>10, <1>11
  <2>2. ASSUME NEW S \in SUBSET D, S # {}
        PROVE  f[S] = Closing(f[S \ {CHOOSE x \in S : TRUE}], g, gens, n, CHOOSE x \in S : TRUE)
    <3>1. f[S] = Closing(f[S \ {c[S]}], g, gens, n, c[S])
      BY <1>10, <1>11, <2>2
    <3>2. c[S] = (CHOOSE x \in S : TRUE)
      BY <1>3, <2>2
    <3> QED
      BY <3>1, <3>2
  <2> HIDE DEF Solves
  <2>3. \A S \in SUBSET D : f[S] = F(f)[S]
    BY <2>1, <2>2
  <2> QED
    BY <2>1, <2>3
<1>13. iter = F(iter)
  <2>1. \E h : h = F(h)
    BY <1>12
  <2> HIDE DEF F
  <2> QED
    BY <2>1, Zenon
<1> HIDE DEF iter
<1>14. iter[{}] = t
  BY <1>13
<1>15. ASSUME NEW S \in SUBSET D, S # {}
       PROVE  \E x \in S : iter[S] = Closing(iter[S \ {x}], g, gens, n, x)
  <2>1. PICK y \in S : y = (CHOOSE x \in S : TRUE)
    BY <1>15
  <2>2. F(iter)[S] = Closing(iter[S \ {CHOOSE x \in S : TRUE}], g, gens, n, CHOOSE x \in S : TRUE)
    BY <1>15
  <2> HIDE DEF F
  <2>3. iter[S] = Closing(iter[S \ {y}], g, gens, n, y)
    BY <1>13, <2>1, <2>2
  <2> QED
    BY <2>3
<1>16. Closes(iter, t, g, gens, n, D)
  BY <1>1, <1>14, <1>15 DEF Closes
<1> QED
  BY <1>16

LEMMA DroppedMore ==
  ASSUME NEW g, NEW F, NEW x \in F
  PROVE  /\ Dropped(Dropped(g, F \ {x}), {x}) = Dropped(g, F)
         /\ x \in Sessions => Dropped(g, F \ {x})[x] = g[x]
BY DEF Dropped

LEMMA ResetKeeps ==
  ASSUME NEW t, Sound(t), NEW g, IsTable(g), Accounted(t, g), NEW gens, NEW n,
         NEW S \in SUBSET Sessions, \A s \in S : gens[s] = n \/ g[s] = <<>>
  PROVE  LET u == ResetTree(t, g, gens, n, S)
         IN Sound(u) /\ Evolves(t, u, {s \in S : gens[s] = n}) /\ Accounted(u, Dropped(g, S))
            /\ Quiet(t, u)
<1> DEFINE Now(F) == {s \in F : gens[s] = n}
<1>1. IsFiniteSet(S)
  BY FS_Subset, NinePAssumption
<1>2. PICK iter : Closes(iter, t, g, gens, n, S)
  BY <1>1, ResetFolds
<1> DEFINE Q == {F \in SUBSET S : /\ Sound(iter[F]) /\ Evolves(t, iter[F], Now(F))
                                  /\ Accounted(iter[F], Dropped(g, F)) /\ Quiet(t, iter[F])}
<1>3. {} \in Q
  <2>1. Dropped(g, {}) = g
    BY DEF Dropped, IsTable
  <2>2. Keeps(t, t)
    BY CoreKeeps DEF Sound, Ground
  <2>3. Now({}) = {} /\ iter[{}] = t
    BY <1>2 DEF Closes
  <2> HIDE DEF Now
  <2> QED
    BY <2>1, <2>2, <2>3, QuietItself DEF Keeps
<1>4. ASSUME NEW F \in SUBSET S, F # {}, \A x \in F : F \ {x} \in Q PROVE F \in Q
  <2>1. PICK x \in F : iter[F] = Closing(iter[F \ {x}], g, gens, n, x)
    BY <1>2, <1>4 DEF Closes
  <2> DEFINE h == Dropped(g, F \ {x})
             G == F \ {x}
  <2>2. Sound(iter[G]) /\ Evolves(t, iter[G], Now(G)) /\ Accounted(iter[G], h)
        /\ Quiet(t, iter[G])
    BY <1>4
  <2>3. x \in Sessions /\ IsTable(h) /\ h[x] = g[x]
    BY DroppedTable
  <2>4. Dropped(h, {x}) = Dropped(g, F)
    BY DroppedMore
  <2> HIDE DEF h, G
  <2>5. CASE gens[x] = n
    <3>1. iter[F] = Released(iter[G], x, h[x])
      BY <2>1, <2>3, <2>5 DEF Closing, G
    <3>2. Sound(iter[F]) /\ Evolves(iter[G], iter[F], {x}) /\ Accounted(iter[F], Dropped(h, {x}))
          /\ Quiet(iter[G], iter[F])
      BY <2>2, <2>3, <3>1, ReleasedKeeps
    <3>3. Now(G) \cup {x} = Now(F)
      BY <2>5 DEF G
    <3> HIDE DEF Now
    <3>4. Evolves(t, iter[F], Now(G) \cup {x})
      BY <2>2, <3>2, EvolvesFurther DEF Sound
    <3>5. Quiet(t, iter[F])
      BY <2>2, <3>2, QuietFurther
    <3> QED
      BY <2>4, <3>2, <3>3, <3>4, <3>5
  <2>6. CASE gens[x] # n
    <3>1. iter[F] = iter[G]
      BY <2>1, <2>6 DEF Closing, G
    <3>2. Now(G) = Now(F)
      BY <2>6 DEF G
    <3>3. g[x] = <<>>
      BY <1>4, <2>6
    <3>4. Dropped(g, F) = h
      <4>1. \A s \in Sessions : Dropped(g, F)[s] = h[s]
        BY <3>3 DEF h, Dropped
      <4> QED
        BY <4>1 DEF h, Dropped
    <3> HIDE DEF Now
    <3> QED
      BY <2>2, <3>1, <3>2, <3>4
  <2> QED
    BY <2>5, <2>6
<1> HIDE DEF Q
<1>5. S \in Q
  <2>1. \A F \in SUBSET S : F \in Q
    BY <1>1, <1>3, <1>4, SubsetInduction
  <2> QED
    BY <2>1
<1>6. ResetTree(t, g, gens, n, S) = iter[S]
  BY <1>2 DEF Closes
<1> QED
  BY <1>5, <1>6 DEF Q

-----------------------------------------------------------------------------
(* Walks.                                                                  *)

\* A finite set of positions has a last one.
LEMMA LastPosition ==
  ASSUME NEW m \in Nat, NEW S \in SUBSET (1 .. m), S # {}
  PROVE  Max(S) \in S /\ \A x \in S : Max(S) >= x
<1> DEFINE R == {y \in 0 .. m : m - y \in S}
<1>1. R \in SUBSET Nat /\ R # {}
  <2>1. PICK x \in S : TRUE
    OBVIOUS
  <2>2. m - x \in 0 .. m /\ m - (m - x) = x
    BY <2>1
  <2>3. m - x \in R
    BY <2>2
  <2>4. R \in SUBSET Nat
    OBVIOUS
  <2> HIDE DEF R
  <2> QED
    BY <2>3, <2>4
<1>2. PICK y \in R : \A z \in R : y <= z
  BY <1>1, LeastNatural
<1>3. m - y \in S
  BY <1>2
<1>4. ASSUME NEW x \in S PROVE m - y >= x
  <2>1. x \in 1 .. m /\ y \in 0 .. m
    BY <1>2
  <2>2. m - x \in R
    <3>1. m - x \in 0 .. m /\ m - (m - x) = x
      BY <2>1
    <3> QED
      BY <3>1
  <2>3. y <= m - x
    BY <1>2, <2>2
  <2> QED
    BY <2>1, <2>3
<1> QED
  BY <1>3, <1>4 DEF Max

\* One step of a walk stays in the arena.
LEMMA SteppedStays ==
  ASSUME Sound(fs), NEW d \in DOMAIN fs.inode \cup {None}, NEW n
  PROVE  Stepped(d, n) \in DOMAIN fs.inode \cup {None}
<1>1. IsTree(fs) /\ Shaped(fs) /\ SoundEntries(fs) /\ SoundDirs(fs)
  BY DEF Sound, Ground, Shaped
<1>2. CASE n # Up
  BY <1>1, <1>2 DEF Stepped, Child, Listed, SoundEntries
<1>3. CASE n = Up /\ IsDirectory(fs, d) /\ d # fs.root
  <2>1. d \in Dirs(fs) /\ d \in DOMAIN fs.inode
    BY <1>3 DEF IsDirectory, Exists, Dirs
  <2>2. Stepped(d, n) = fs.inode[d].parent
    BY <1>3 DEF Stepped
  <2>3. fs.inode[d].links \in Nat
    BY <1>1, <2>1, TreeParts DEF Records
  <2>4. CASE fs.inode[d].links = 0
    BY <1>1, <2>1, <2>2, <2>4 DEF SoundDirs
  <2>5. CASE fs.inode[d].links # 0
    <3>1. d \in Hanging(fs)
      BY <1>3, <2>1, <2>3, <2>5 DEF Hanging
    <3>2. fs.inode[d].parent \in DOMAIN fs.inode
      BY <1>1, <3>1, ParentIs
    <3> QED
      BY <2>2, <3>2
  <2> QED
    BY <2>4, <2>5
<1> QED
  BY <1>2, <1>3 DEF Stepped

LEMMA WalkStays ==
  ASSUME Sound(fs), NEW d \in DOMAIN fs.inode, NEW m \in Nat, NEW names, DOMAIN names = 1 .. m
  PROVE  FoldLeft(Stepped, d, names) \in DOMAIN fs.inode \cup {None}
<1> DEFINE S == DOMAIN names
           V == DOMAIN fs.inode \cup {None}
           F(f) == [s \in SUBSET S |->
                      IF s = {} THEN d ELSE Stepped(f[s \ {Max(s)}], names[Max(s)])]
           iter == CHOOSE f : f = F(f)
           c == [s \in SUBSET S |-> Max(s)]
           step == [k \in S |-> [v \in V |-> Stepped(v, names[k])]]
<1>1. FoldLeft(Stepped, d, names) = iter[S]
  BY DEF FoldLeft, MapThenFoldSet
<1>2. IsFiniteSet(S)
  BY FS_Interval
<1>3. \A s \in SUBSET S : s # {} => Max(s) \in s
  BY LastPosition
<1> HIDE DEF V
<1>4. \A v \in V : \A n : Stepped(v, n) \in V
  BY SteppedStays DEF V
<1> HIDE DEF S
<1>5. PICK f : Folds(f, S, V, d, c, step)
  <2>1. step \in [S -> [V -> V]]
    BY <1>4
  <2>2. \A s \in SUBSET S : s # {} => c[s] \in s
    BY <1>3
  <2>3. d \in V
    BY DEF V
  <2> HIDE DEF c, step
  <2> QED
    BY <1>2, <2>1, <2>2, <2>3, FoldRecursion
<1>6. f = F(f)
  <2>1. f \in [SUBSET S -> V] /\ f[{}] = d
    BY <1>5 DEF Folds
  <2>2. ASSUME NEW s \in SUBSET S, s # {} PROVE f[s] = Stepped(f[s \ {Max(s)}], names[Max(s)])
    <3>1. c[s] = Max(s) /\ Max(s) \in S /\ s \ {Max(s)} \in SUBSET S
      BY <1>3, <2>2
    <3>2. f[s] = step[c[s]][f[s \ {c[s]}]]
      BY <1>5, <2>2 DEF Folds
    <3>3. f[s \ {Max(s)}] \in V
      BY <2>1, <3>1
    <3> HIDE DEF c
    <3> QED
      BY <3>1, <3>2, <3>3
  <2> QED
    BY <2>1, <2>2
<1>7. iter = F(iter)
  <2>1. \E g : g = F(g)
    BY <1>6
  <2> HIDE DEF F
  <2> QED
    BY <2>1, Zenon
<1> HIDE DEF iter
<1> DEFINE Q == {s \in SUBSET S : iter[s] \in V}
<1>8. {} \in Q
  <2>1. iter[{}] = d
    BY <1>7
  <2> QED
    BY <2>1 DEF V
<1>9. ASSUME NEW s \in SUBSET S, s # {}, \A x \in s : s \ {x} \in Q PROVE s \in Q
  <2>1. iter[s] = Stepped(iter[s \ {Max(s)}], names[Max(s)])
    BY <1>7, <1>9
  <2>2. iter[s \ {Max(s)}] \in V
    BY <1>3, <1>9
  <2> QED
    BY <1>4, <2>1, <2>2
<1> HIDE DEF Q
<1>10. \A s \in SUBSET S : s \in Q
  BY <1>2, <1>8, <1>9, SubsetInduction
<1>11. iter[S] \in V
  BY <1>10 DEF Q
<1> QED
  BY <1>1, <1>11 DEF V

-----------------------------------------------------------------------------
(* The inductive invariant.                                                *)

\* The tree is sound and every fid of every session has its reference.
Settled(t, g) == Sound(t) /\ IsTable(g) /\ Accounted(t, g)

\* The inductive invariant: between two requests the tree is sound, the references in
\* it are the fids of the sessions, and the tables of a running machine are current.
SessionsSound ==
  /\ Settled(fs, fids)
  /\ running \in BOOLEAN /\ negotiated \subseteq Sessions /\ workload \in Workloads
  /\ generation \in [Sessions -> Nat]
  /\ HaltedSessionsClosed

\* The other two kinds of steps: a range is locked or unlocked, and the namespace is
\* replaced, which happens while there is no lock.
Relocked(t, u) ==
  /\ u.next = t.next /\ u.generation = t.generation /\ DOMAIN u.inode = DOMAIN t.inode
  /\ \A i \in DOMAIN t.inode : u.inode[i].kind = t.inode[i].kind
  /\ \E r \in Ranges :
       /\ r.inode \in DOMAIN t.inode /\ t.inode[r.inode].kind = "file"
       /\ \/ ~Conflicts(t, r) /\ u.locks = Subtracted(t, r) \cup {r}
          \/ u.locks = Subtracted(t, r)
Renewed(t, u) ==
  /\ t.locks = {} /\ u.locks = {}
  /\ u.next >= t.next /\ DOMAIN u.inode \subseteq t.next .. u.next - 1

\* What a step may do to the tree.
Proceeds(t, u) ==
  (\E S \in SUBSET Sessions : Evolves(t, u, S)) \/ Relocked(t, u) \/ Renewed(t, u)

LEMMA KeepsItself ==
  ASSUME NEW t, Sound(t)
  PROVE  Keeps(t, t)
BY CoreKeeps DEF Sound, Ground

LEMMA SettledStays ==
  ASSUME NEW t, NEW u, NEW g, Settled(t, g), Keeps(t, u)
  PROVE  Settled(u, g) /\ Evolves(t, u, {})
BY DEF Settled, Keeps, Accounted, SameRefs

LEMMA TableIs ==
  ASSUME SessionsSound, NEW s \in Sessions
  PROVE  Table(s) = fids[s]
BY DEF SessionsSound, HaltedSessionsClosed, Table

\* A request that is answered.
LEMMA ReplySettles ==
  ASSUME SessionsSound, running, NEW s \in Sessions, NEW t, NEW table, NEW h,
         h = [fids EXCEPT ![s] = table], Settled(t, h), t.generation = fs.generation,
         Reply(s, t, table)
  PROVE  SessionsSound' /\ fs' = Remembered(t) /\ Keeps(t, fs')
<1>1. fids' = h /\ fs' = Remembered(t)
  BY DEF Reply
<1>2. Keeps(t, fs')
  BY <1>1, RememberedKeeps DEF Settled
<1>3. Settled(fs', fids') /\ Evolves(t, fs', {})
  BY <1>1, <1>2, SettledStays
<1>4. fs'.generation = fs.generation
  BY <1>3 DEF Evolves
<1>5. running' /\ running' \in BOOLEAN /\ negotiated' \subseteq Sessions /\ workload' \in Workloads
  BY DEF Reply, sessionVars, SessionsSound
<1>6. /\ generation' \in [Sessions -> Nat]
      /\ \A x \in Sessions : generation'[x] = fs'.generation
  <2>1. \A x \in Sessions : generation[x] = fs.generation
    BY DEF SessionsSound, HaltedSessionsClosed
  <2>2. generation \in [Sessions -> Nat]
    BY DEF SessionsSound
  <2>3. generation' = [generation EXCEPT ![s] = fs.generation]
    BY DEF Reply
  <2>4. generation' = generation
    BY <2>1, <2>2, <2>3
  <2> QED
    BY <1>4, <2>1, <2>2, <2>4
<1>7. HaltedSessionsClosed'
  BY <1>5, <1>6 DEF HaltedSessionsClosed
<1>8. SessionsSound'
  BY <1>3, <1>5, <1>6, <1>7 DEF SessionsSound
<1> QED
  BY <1>1, <1>2, <1>8

LEMMA ReplyKeeps ==
  ASSUME SessionsSound, running, NEW s \in Sessions, NEW t, NEW table, NEW h,
         h = [fids EXCEPT ![s] = table], Settled(t, h), Evolves(fs, t, {}), Reply(s, t, table)
  PROVE  SessionsSound' /\ Proceeds(fs, fs')
<1>1. SessionsSound' /\ Keeps(t, fs')
  <2>1. t.generation = fs.generation
    BY DEF Evolves
  <2> QED
    BY <2>1, ReplySettles
<1>2. Evolves(fs, fs', {} \cup {})
  BY <1>1, EvolvesFurther DEF Settled, SessionsSound, Keeps, Sound
<1>3. {} \cup {} = {}
  OBVIOUS
<1>4. Evolves(fs, fs', {})
  BY <1>2, <1>3
<1> QED
  BY <1>1, <1>4 DEF Proceeds

\* A request that leaves the fids as they are.
LEMMA SameKeeps ==
  ASSUME SessionsSound, running, NEW s \in Sessions, NEW t, Keeps(fs, t), Reply(s, t, Table(s))
  PROVE  SessionsSound' /\ Proceeds(fs, fs')
<1>1. Settled(t, fids) /\ Evolves(fs, t, {})
  BY SettledStays DEF SessionsSound
<1>2. fids = [fids EXCEPT ![s] = Table(s)]
  BY TableIs DEF SessionsSound, Settled, IsTable
<1> QED
  BY <1>1, <1>2, ReplyKeeps

\* A request that gives a fid an inode.
LEMMA InstallKeeps ==
  ASSUME SessionsSound, running, NEW s \in Sessions, NEW t, Keeps(fs, t), NEW f \in Fids,
         NEW i \in DOMAIN t.inode, NEW open \in Accesses \cup {Closed}, Install(s, t, f, i, open)
  PROVE  SessionsSound' /\ Proceeds(fs, fs')
<1> DEFINE u == Installed(t, fids[s], f, i)
           r == [inode |-> i, open |-> open]
           h == Given(fids, s, f, r)
<1>1. Settled(t, fids) /\ Evolves(fs, t, {}) /\ Settled(fs, fids)
  BY SettledStays DEF SessionsSound
<1>2. Sound(u) /\ Evolves(t, u, {}) /\ IsTable(h) /\ Accounted(u, h)
  BY <1>1, InstallAccounted DEF Settled
<1>3. Table(s) = fids[s]
  BY TableIs
<1>4. Reply(s, u, With(fids[s], f, r))
  BY <1>3 DEF Install
<1>5. h = [fids EXCEPT ![s] = With(fids[s], f, r)]
  BY <1>1 DEF Given, Settled, IsTable
<1> HIDE DEF u, h, r
<1>6. Evolves(fs, u, {} \cup {})
  BY <1>1, <1>2, EvolvesFurther DEF Settled, Sound
<1>7. {} \cup {} = {}
  OBVIOUS
<1>8. Evolves(fs, u, {}) /\ Settled(u, h)
  BY <1>2, <1>6, <1>7 DEF Settled
<1> QED
  BY <1>4, <1>5, <1>8, ReplyKeeps

-----------------------------------------------------------------------------
(* The requests of a session.                                              *)

\* A fid leads to an inode of the arena.
LEMMA HeldIs ==
  ASSUME SessionsSound, NEW s \in Sessions, NEW f \in DOMAIN Table(s)
  PROVE  /\ Held(s, f) \in DOMAIN fs.inode /\ f \in Fids /\ f \in DOMAIN fids[s]
         /\ Held(s, f) = fids[s][f].inode /\ Table(s) = fids[s] /\ fids[s][f] \in Handles
<1>1. Table(s) = fids[s]
  BY TableIs
<1>2. Settled(fs, fids)
  BY DEF SessionsSound
<1>3. fids[s][f].inode \in DOMAIN fs.inode
  BY <1>1, <1>2, HeldExists DEF Settled
<1>4. f \in Fids /\ fids[s][f] \in Handles
  BY <1>1, <1>2, TableParts DEF Settled
<1> QED
  BY <1>1, <1>3, <1>4 DEF Held

\* Opening a fid leaves the inode it leads to.
LEMMA OpenedIs ==
  ASSUME NEW g, IsTable(g), NEW s \in Sessions, NEW f \in DOMAIN g[s],
         NEW open \in Accesses \cup {Closed}
  PROVE  LET h == [g EXCEPT ![s] = [g[s] EXCEPT ![f].open = open]]
         IN IsTable(h) /\ Holds(h) = Holds(g)
<1> DEFINE h == [g EXCEPT ![s] = [g[s] EXCEPT ![f].open = open]]
           r == [inode |-> g[s][f].inode, open |-> open]
           q == Without(g, s, f)
           a == <<g[s][f].inode, s, f>>
<1>1. g[s] \in [DOMAIN g[s] -> Handles] /\ f \in Fids
  BY TableParts
<1>2. g[s][f] \in Handles
  BY <1>1
<1>3. r \in Handles /\ [g[s][f] EXCEPT !.open = open] = r
  BY <1>2 DEF Handles
<1>4. With(g[s], f, r) = [g[s] EXCEPT ![f] = r]
  BY <1>1 DEF With
<1>5. [g[s] EXCEPT ![f].open = open] = [g[s] EXCEPT ![f] = r]
  BY <1>3
<1>6. h = Given(g, s, f, r)
  <2> HIDE DEF r
  <2> QED
    BY <1>4, <1>5 DEF Given, IsTable
<1>7. IsTable(q) /\ a \in Holds(g) /\ Holds(q) = Holds(g) \ {a}
  BY WithoutIs
<1>8. Given(g, s, f, r) = Given(q, s, f, r)
  BY GivenInstead
<1>9. f \notin DOMAIN q[s]
  BY DEF Without, Restrict, IsTable
<1> HIDE DEF q, h
<1>10. r.inode = g[s][f].inode
  OBVIOUS
<1>11. f \in Fids /\ IsTable(q) /\ h = Given(q, s, f, r)
  BY <1>1, <1>6, <1>7, <1>8
<1>12. a = <<r.inode, s, f>>
  BY <1>10
<1> HIDE DEF a, r
<1>13. IsTable(Given(q, s, f, r)) /\ Holds(Given(q, s, f, r)) = Holds(q) \cup {a}
  BY <1>3, <1>9, <1>11, <1>12, GivenFree
<1>14. IsTable(h) /\ Holds(h) = Holds(q) \cup {a}
  BY <1>11, <1>13
<1> QED
  BY <1>7, <1>14 DEF h

LEMMA AttachStep ==
  ASSUME SessionsSound, NEW s \in Sessions, NEW f \in Fids, Attach(s, f)
  PROVE  SessionsSound' /\ Proceeds(fs, fs')
<1>1. Sound(fs) /\ fs.root \in DOMAIN fs.inode
  BY DEF SessionsSound, Settled, Sound, Ground, Shaped, SoundEntries, Dirs
<1>2. Keeps(fs, fs) /\ Closed \in Accesses \cup {Closed}
  BY <1>1, KeepsItself
<1>3. running /\ Install(s, fs, f, fs.root, Closed)
  BY DEF Attach, Ready
<1> QED
  BY <1>1, <1>2, <1>3, InstallKeeps

LEMMA WalkStep ==
  ASSUME SessionsSound, NEW s \in Sessions, NEW f \in Fids, NEW g \in Fids,
         NEW names \in Walks, Walk(s, f, g, names)
  PROVE  SessionsSound' /\ Proceeds(fs, fs')
<1> DEFINE i == FoldLeft(Stepped, Held(s, f), names)
<1>1. running /\ f \in DOMAIN Table(s) /\ i # None /\ Install(s, fs, g, i, Closed)
  BY DEF Walk, Ready
<1>2. Sound(fs) /\ Keeps(fs, fs) /\ Closed \in Accesses \cup {Closed}
  BY KeepsItself DEF SessionsSound, Settled
<1>3. Held(s, f) \in DOMAIN fs.inode
  BY <1>1, HeldIs
<1>4. PICK m \in Nat : DOMAIN names = 1 .. m
  <2>1. PICK m \in 0 .. MaxWalk : names \in [1 .. m -> Names \cup {Up}]
    BY DEF Walks, SeqOf
  <2>2. m \in Nat
    BY <2>1, NinePAssumption
  <2> QED
    BY <2>1, <2>2
<1>5. i \in DOMAIN fs.inode
  BY <1>1, <1>2, <1>3, <1>4, WalkStays
<1> HIDE DEF i
<1> QED
  BY <1>1, <1>2, <1>5, InstallKeeps

LEMMA OpenStep ==
  ASSUME SessionsSound, NEW s \in Sessions, NEW f \in Fids, NEW access \in Accesses,
         NEW truncate \in BOOLEAN, Open(s, f, access, truncate)
  PROVE  SessionsSound' /\ Proceeds(fs, fs')
<1> DEFINE i == Held(s, f)
           t == IF truncate THEN Resized(fs, i, 0) ELSE fs
           table == [Table(s) EXCEPT ![f].open = access]
           h == [fids EXCEPT ![s] = [fids[s] EXCEPT ![f].open = access]]
<1>1. running /\ f \in DOMAIN Table(s) /\ Reply(s, t, table)
  BY DEF Open, Ready
<1>2. Settled(fs, fids) /\ Sound(fs)
  BY DEF SessionsSound, Settled
<1>3. i \in DOMAIN fs.inode /\ f \in DOMAIN fids[s] /\ Table(s) = fids[s]
  BY <1>1, HeldIs
<1>4. Keeps(fs, t)
  BY <1>2, <1>3, KeepsItself, ResizeKeeps
<1> HIDE DEF t, i
<1>5. Settled(t, fids) /\ Evolves(fs, t, {})
  BY <1>2, <1>4, SettledStays
<1>6. IsTable(h) /\ Holds(h) = Holds(fids)
  BY <1>2, <1>3, OpenedIs DEF Settled
<1>7. h = [fids EXCEPT ![s] = table]
  BY <1>3
<1> HIDE DEF h, table
<1>8. Settled(t, h)
  BY <1>5, <1>6 DEF Settled, Accounted
<1> QED
  BY <1>1, <1>5, <1>7, <1>8, ReplyKeeps

LEMMA CreateStep ==
  ASSUME SessionsSound, NEW s \in Sessions, NEW f \in Fids, NEW n \in Names,
         NEW access \in Accesses, NEW truncate \in BOOLEAN, Create(s, f, n, access, truncate)
  PROVE  SessionsSound' /\ Proceeds(fs, fs')
<1> DEFINE d == Held(s, f)
           i == Child(fs, d, n)
           t == IF truncate THEN Resized(fs, i, 0) ELSE fs
           u == Inserted(fs, d, n, "file", 0)
<1>1. running
  BY DEF Create, Ready
<1>2. Sound(fs)
  BY DEF SessionsSound, Settled
<1>3. CASE IsFile(fs, i) /\ Install(s, t, f, i, access)
  <2>1. i \in DOMAIN fs.inode
    BY <1>3 DEF IsFile, Exists
  <2>2. Keeps(fs, t)
    BY <1>2, <2>1, KeepsItself, ResizeKeeps
  <2>3. i \in DOMAIN t.inode
    BY <1>2, <2>1, NamespaceAssumption, ResizeKeeps
  <2> HIDE DEF t, i
  <2> QED
    BY <1>1, <1>3, <2>2, <2>3, InstallKeeps
<1>4. CASE MayInsert(fs, d, n) /\ Install(s, u, f, fs.next, access)
  <2>1. Keeps(fs, u) /\ fs.next \in DOMAIN u.inode
    BY <1>2, <1>4, NamespaceAssumption, InsertKeeps DEF Kinds
  <2> HIDE DEF u, d
  <2> QED
    BY <1>1, <1>4, <2>1, InstallKeeps
<1> QED
  BY <1>3, <1>4 DEF Create

LEMMA ClunkStep ==
  ASSUME SessionsSound, NEW s \in Sessions, NEW f \in Fids, Clunk(s, f)
  PROVE  SessionsSound' /\ Proceeds(fs, fs')
<1> DEFINE t == ReleaseFid(fs, fids[s][f].inode)
           h == Without(fids, s, f)
<1>1. running /\ f \in DOMAIN Table(s)
  BY DEF Clunk, Ready
<1>2. Settled(fs, fids)
  BY DEF SessionsSound
<1>3. f \in DOMAIN fids[s] /\ Held(s, f) = fids[s][f].inode /\ Table(s) = fids[s]
  BY <1>1, HeldIs
<1>4. Reply(s, t, Restrict(fids[s], DOMAIN fids[s] \ {f}))
  BY <1>3 DEF Clunk
<1>5. Sound(t) /\ Evolves(fs, t, {}) /\ Accounted(t, h)
  BY <1>2, <1>3, ClunkAccounted DEF Settled
<1>6. IsTable(h)
  BY <1>2, <1>3, WithoutIs DEF Settled
<1>7. h = [fids EXCEPT ![s] = Restrict(fids[s], DOMAIN fids[s] \ {f})]
  BY <1>2 DEF Without, Settled, IsTable
<1> HIDE DEF t, h
<1> QED
  BY <1>1, <1>4, <1>5, <1>6, <1>7, ReplyKeeps DEF Settled

LEMMA LargerIs ==
  ASSUME NEW a \in Nat, NEW b \in Nat
  PROVE  Max({a, b}) \in Nat
<1>1. \E x \in {a, b} : \A y \in {a, b} : x >= y
  <2>1. CASE a >= b
    BY <2>1
  <2>2. CASE b >= a
    BY <2>2
  <2> QED
    BY <2>1, <2>2
<1>2. Max({a, b}) \in {a, b}
  BY <1>1 DEF Max
<1> QED
  BY <1>2

LEMMA WriteStep ==
  ASSUME SessionsSound, NEW s \in Sessions, NEW f \in Fids, NEW offset \in 0 .. MaxFileBytes,
         NEW count \in 0 .. MaxFileBytes, NEW append \in BOOLEAN, Write(s, f, offset, count, append)
  PROVE  SessionsSound' /\ Proceeds(fs, fs')
<1> DEFINE i == Held(s, f)
           size == SizeAfter(fs, i, offset, count, append)
<1>1. running /\ f \in DOMAIN Table(s) /\ Reply(s, Resized(fs, i, size), Table(s))
  BY DEF Write, Ready
<1>2. Sound(fs) /\ i \in DOMAIN fs.inode
  BY <1>1, HeldIs DEF SessionsSound, Settled
<1>3. size \in Nat
  <2>1. fs.inode[i].size \in Nat
    BY <1>2, TreeParts DEF Sound, Ground, Records
  <2>2. offset \in Nat /\ count \in Nat
    BY NamespaceAssumption
  <2>3. (IF append THEN fs.inode[i].size ELSE offset) + count \in Nat
    BY <2>1, <2>2
  <2> QED
    BY <2>1, <2>3, LargerIs DEF SizeAfter
<1> HIDE DEF i, size
<1>4. Keeps(fs, Resized(fs, i, size))
  BY <1>2, <1>3, ResizeKeeps
<1> QED
  BY <1>1, <1>4, SameKeeps

LEMMA TruncateStep ==
  ASSUME SessionsSound, NEW s \in Sessions, NEW f \in Fids, NEW size \in 0 .. MaxFileBytes,
         Truncate(s, f, size)
  PROVE  SessionsSound' /\ Proceeds(fs, fs')
<1>1. running /\ f \in DOMAIN Table(s) /\ Reply(s, Resized(fs, Held(s, f), size), Table(s))
  BY DEF Truncate, Ready
<1>2. Sound(fs) /\ Held(s, f) \in DOMAIN fs.inode /\ size \in Nat
  BY <1>1, HeldIs, NamespaceAssumption DEF SessionsSound, Settled
<1>3. Keeps(fs, Resized(fs, Held(s, f), size))
  BY <1>2, ResizeKeeps
<1> QED
  BY <1>1, <1>3, SameKeeps

LEMMA SetattrStep ==
  ASSUME SessionsSound, NEW s \in Sessions, NEW f \in Fids, Setattr(s, f)
  PROVE  SessionsSound' /\ Proceeds(fs, fs')
<1> DEFINE t == Retouched(fs, Held(s, f))
<1>1. running /\ Reply(s, t, Table(s))
  BY DEF Setattr, Ready
<1>2. Keeps(fs, t)
  BY EmitKeeps DEF SessionsSound, Settled, Retouched
<1> HIDE DEF t
<1> QED
  BY <1>1, <1>2, SameKeeps

LEMMA MkdirStep ==
  ASSUME SessionsSound, NEW s \in Sessions, NEW f \in Fids, NEW n \in Names,
         NEW kind \in {"directory", "symlink"}, Mkdir(s, f, n, kind)
  PROVE  SessionsSound' /\ Proceeds(fs, fs')
<1> DEFINE t == Inserted(fs, Held(s, f), n, kind, 0)
<1>1. running /\ MayInsert(fs, Held(s, f), n) /\ Reply(s, t, Table(s))
  BY DEF Mkdir, Ready
<1>2. Sound(fs) /\ kind \in Kinds /\ 0 \in Nat
  BY DEF SessionsSound, Settled, Kinds
<1>3. Keeps(fs, t)
  BY <1>1, <1>2, InsertKeeps
<1> HIDE DEF t
<1> QED
  BY <1>1, <1>3, SameKeeps

LEMMA LinkStep ==
  ASSUME SessionsSound, NEW s \in Sessions, NEW f \in Fids, NEW n \in Names, NEW g \in Fids,
         Link(s, f, n, g)
  PROVE  SessionsSound' /\ Proceeds(fs, fs')
<1> DEFINE t == Linked(fs, Held(s, f), n, Held(s, g))
<1>1. running /\ MayLink(fs, Held(s, f), n, Held(s, g)) /\ Reply(s, t, Table(s))
  BY DEF Link, Ready
<1>2. Keeps(fs, t)
  BY <1>1, LinkKeeps DEF SessionsSound, Settled
<1> HIDE DEF t
<1> QED
  BY <1>1, <1>2, SameKeeps

LEMMA RenameStep ==
  ASSUME SessionsSound, NEW s \in Sessions, NEW f \in Fids, NEW n \in Names, NEW g \in Fids,
         NEW m \in Names, Rename(s, f, n, g, m)
  PROVE  SessionsSound' /\ Proceeds(fs, fs')
<1> DEFINE t == Moved(fs, Held(s, f), n, Held(s, g), m)
<1>1. running /\ MayMove(fs, Held(s, f), n, Held(s, g), m) /\ Reply(s, t, Table(s))
  BY DEF Rename, Ready
<1>2. Keeps(fs, t)
  BY <1>1, MoveKeeps DEF SessionsSound, Settled
<1> HIDE DEF t
<1> QED
  BY <1>1, <1>2, SameKeeps

LEMMA UnlinkStep ==
  ASSUME SessionsSound, NEW s \in Sessions, NEW f \in Fids, NEW n \in Names, Unlink(s, f, n)
  PROVE  SessionsSound' /\ Proceeds(fs, fs')
<1> DEFINE t == Unlinked(fs, Held(s, f), n)
<1>1. running /\ MayUnlink(fs, Held(s, f), n) /\ Reply(s, t, Table(s))
  BY DEF Unlink, Ready
<1>2. Keeps(fs, t)
  BY <1>1, UnlinkKeeps DEF SessionsSound, Settled, MayUnlink
<1> HIDE DEF t
<1> QED
  BY <1>1, <1>2, SameKeeps

LEMMA ReaddirStep ==
  ASSUME SessionsSound, NEW s \in Sessions, NEW f \in Fids, NEW count, NEW again,
         Readdir(s, f, count, again)
  PROVE  SessionsSound' /\ Proceeds(fs, fs')
<1>1. running /\ Reply(s, fs, Table(s))
  BY DEF Readdir, Ready
<1>2. Keeps(fs, fs)
  BY KeepsItself DEF SessionsSound, Settled
<1> QED
  BY <1>1, <1>2, SameKeeps

LEMMA MalformedStep ==
  ASSUME SessionsSound, NEW s \in Sessions, Malformed(s)
  PROVE  SessionsSound' /\ Proceeds(fs, fs')
<1>1. running /\ running' = running /\ fs' = fs /\ negotiated' = negotiated /\ workload' = workload
  BY DEF Malformed
<1>2. fids' = fids
  <2>1. Table(s) = fids[s] /\ fids \in [Sessions -> Maps(Fids, Handles)]
    BY TableIs DEF SessionsSound, Settled, IsTable
  <2> QED
    BY <2>1 DEF Malformed
<1>3. generation' = generation
  BY <1>1 DEF Malformed, SessionsSound, HaltedSessionsClosed
<1>4. Evolves(fs, fs', {})
  BY <1>1, KeepsItself DEF Keeps, SessionsSound, Settled
<1>5. SessionsSound'
  BY <1>1, <1>2, <1>3 DEF SessionsSound, HaltedSessionsClosed
<1> QED
  BY <1>4, <1>5 DEF Proceeds

-----------------------------------------------------------------------------
(* Sessions that end.                                                      *)

LEMMA VersionStep ==
  ASSUME SessionsSound, NEW s \in Sessions, NEW known \in BOOLEAN, Version(s, known)
  PROVE  SessionsSound' /\ Proceeds(fs, fs')
<1> DEFINE u == Released(fs, s, fids[s])
           h == Dropped(fids, {s})
<1>1. Settled(fs, fids)
  BY DEF SessionsSound
<1>2. Sound(u) /\ Evolves(fs, u, {s}) /\ Accounted(u, h) /\ IsTable(h)
  BY <1>1, ReleasedKeeps, DroppedTable DEF Settled
<1>3. fs' = u
  BY TableIs DEF Version
<1>4. fids' = h
  <2>1. fids \in [Sessions -> Maps(Fids, Handles)] /\ fids' = [fids EXCEPT ![s] = <<>>]
    BY <1>1 DEF Settled, IsTable, Version
  <2> QED
    BY <2>1 DEF Dropped
<1> HIDE DEF u, h
<1>5. Settled(fs', fids') /\ Evolves(fs, fs', {s})
  BY <1>2, <1>3, <1>4 DEF Settled
<1>6. generation' = generation
  BY DEF Version, SessionsSound, HaltedSessionsClosed
<1>7. running /\ running' = running /\ workload' = workload /\ negotiated' \subseteq Sessions
  BY DEF Version, SessionsSound
<1>8. fs'.generation = fs.generation
  BY <1>5 DEF Evolves
<1>9. HaltedSessionsClosed'
  BY <1>6, <1>7, <1>8 DEF SessionsSound, HaltedSessionsClosed
<1>10. SessionsSound'
  BY <1>5, <1>6, <1>7, <1>9 DEF SessionsSound
<1> QED
  BY <1>5, <1>10 DEF Proceeds

LEMMA ResetStep ==
  ASSUME SessionsSound, NEW S \in SUBSET Sessions, ResetSessions(S)
  PROVE  /\ Settled(fs', fids') /\ Evolves(fs, fs', {s \in S : generation[s] = fs.generation})
         /\ fids' = Dropped(fids, S) /\ fs'.generation = fs.generation
         /\ generation' \in [Sessions -> Nat] /\ \A s \in S : generation'[s] = fs'.generation
         /\ \A s \in Sessions \ S : generation'[s] = generation[s]
         /\ negotiated' = negotiated \ S /\ workload' = workload
<1> DEFINE u == ResetTree(fs, fids, generation, fs.generation, S)
           R == {s \in S : generation[s] = fs.generation}
<1>1. Settled(fs, fids) /\ Sound(fs) /\ fs.generation \in Nat
  BY TreeParts DEF SessionsSound, Settled, Sound, Ground
<1>2. \A s \in S : generation[s] = fs.generation \/ fids[s] = <<>>
  BY DEF SessionsSound, HaltedSessionsClosed
<1>3. Sound(u) /\ Evolves(fs, u, R) /\ Accounted(u, Dropped(fids, S)) /\ IsTable(Dropped(fids, S))
  BY <1>1, <1>2, ResetKeeps, DroppedTable DEF Settled
<1>4. fs' = u
  BY DEF ResetSessions, ResetTree
<1>5. fids' = Dropped(fids, S)
  BY DEF ResetSessions, Dropped
<1> HIDE DEF u, R
<1>6. Settled(fs', fids') /\ Evolves(fs, fs', R)
  BY <1>3, <1>4, <1>5 DEF Settled
<1>7. fs'.generation = fs.generation
  BY <1>6 DEF Evolves
<1>8. generation' = [s \in Sessions |-> IF s \in S THEN fs.generation ELSE generation[s]]
  BY DEF ResetSessions
<1>9. generation \in [Sessions -> Nat]
  BY DEF SessionsSound
<1>10. negotiated' = negotiated \ S /\ workload' = workload
  BY DEF ResetSessions
<1> QED
  BY <1>1, <1>5, <1>6, <1>7, <1>8, <1>9, <1>10 DEF R

LEMMA DeviceResetStep ==
  ASSUME SessionsSound, NEW s \in Sessions, DeviceReset(s)
  PROVE  SessionsSound' /\ Proceeds(fs, fs')
<1>1. running /\ running' = running /\ ResetSessions({s})
  BY DEF DeviceReset
<1> DEFINE R == {x \in {s} : generation[x] = fs.generation}
<1>2. /\ Settled(fs', fids') /\ Evolves(fs, fs', R) /\ fs'.generation = fs.generation
      /\ generation' \in [Sessions -> Nat] /\ generation'[s] = fs'.generation
      /\ \A x \in Sessions \ {s} : generation'[x] = generation[x]
      /\ negotiated' = negotiated \ {s} /\ workload' = workload
  BY <1>1, ResetStep
<1>3. \A x \in Sessions : generation'[x] = fs'.generation
  BY <1>1, <1>2 DEF SessionsSound, HaltedSessionsClosed
<1>4. HaltedSessionsClosed'
  BY <1>1, <1>3 DEF HaltedSessionsClosed
<1>5. R \in SUBSET Sessions
  OBVIOUS
<1> HIDE DEF R
<1>6. SessionsSound'
  BY <1>1, <1>2, <1>4 DEF SessionsSound
<1> QED
  BY <1>2, <1>5, <1>6 DEF Proceeds

LEMMA HaltStep ==
  ASSUME SessionsSound, Halt
  PROVE  SessionsSound' /\ Proceeds(fs, fs')
<1>1. running /\ running' = FALSE /\ ResetSessions(Sessions)
  BY DEF Halt
<1> DEFINE R == {x \in Sessions : generation[x] = fs.generation}
<1>2. /\ Settled(fs', fids') /\ Evolves(fs, fs', R) /\ fids' = Dropped(fids, Sessions)
      /\ generation' \in [Sessions -> Nat] /\ negotiated' = negotiated \ Sessions
      /\ workload' = workload
  <2>1. Sessions \in SUBSET Sessions
    OBVIOUS
  <2> QED
    BY <1>1, <2>1, ResetStep
<1>3. R = Sessions
  BY <1>1 DEF SessionsSound, HaltedSessionsClosed
<1> HIDE DEF R
<1>4. fs'.locks = {}
  <2>1. fs.locks \subseteq Ranges
    BY TreeParts DEF SessionsSound, Settled, Sound, Ground
  <2>2. \A l \in fs.locks : l.session \in Sessions
    BY <2>1 DEF Ranges
  <2> QED
    BY <1>2, <1>3, <2>2 DEF Evolves
<1>5. fids' = [s \in Sessions |-> <<>>]
  BY <1>2 DEF Dropped
<1>6. negotiated' = {}
  BY <1>2 DEF SessionsSound
<1>7. HaltedSessionsClosed'
  BY <1>1, <1>4, <1>5, <1>6 DEF HaltedSessionsClosed
<1>8. SessionsSound'
  BY <1>1, <1>2, <1>6, <1>7 DEF SessionsSound
<1> QED
  BY <1>2, <1>3, <1>8 DEF Proceeds

LEMMA BootStep ==
  ASSUME SessionsSound, Boot
  PROVE  SessionsSound' /\ Proceeds(fs, fs')
<1>1. running' = TRUE /\ ResetSessions(Sessions)
  BY DEF Boot
<1> DEFINE R == {x \in Sessions : generation[x] = fs.generation}
<1>2. /\ Settled(fs', fids') /\ Evolves(fs, fs', R)
      /\ generation' \in [Sessions -> Nat] /\ negotiated' = negotiated \ Sessions
      /\ workload' = workload /\ \A s \in Sessions : generation'[s] = fs'.generation
  <2>1. Sessions \in SUBSET Sessions
    OBVIOUS
  <2> QED
    BY <1>1, <2>1, ResetStep
<1>3. R \in SUBSET Sessions
  OBVIOUS
<1> HIDE DEF R
<1>4. HaltedSessionsClosed'
  BY <1>1, <1>2 DEF HaltedSessionsClosed
<1>5. SessionsSound'
  BY <1>1, <1>2, <1>4 DEF SessionsSound
<1> QED
  BY <1>2, <1>3, <1>5 DEF Proceeds

-----------------------------------------------------------------------------
(* The steps of the host.                                                  *)

LEMMA TreeStep ==
  ASSUME SessionsSound, Keeps(fs, fs'), UNCHANGED <<running, fids, generation, negotiated, workload>>
  PROVE  SessionsSound' /\ Proceeds(fs, fs')
<1>1. Settled(fs', fids) /\ Evolves(fs, fs', {})
  BY SettledStays DEF SessionsSound
<1>2. fs'.generation = fs.generation /\ fs'.locks \subseteq fs.locks
  BY <1>1 DEF Evolves
<1>3. HaltedSessionsClosed'
  BY <1>2 DEF SessionsSound, HaltedSessionsClosed
<1>4. SessionsSound'
  BY <1>1, <1>3 DEF SessionsSound
<1> QED
  BY <1>1, <1>4 DEF Proceeds

LEMMA HostStep ==
  ASSUME SessionsSound, NEW t, Keeps(fs, t), HostDone(t)
  PROVE  SessionsSound' /\ Proceeds(fs, fs')
<1> DEFINE u == Remembered(t)
<1>1. Keeps(t, u)
  BY RememberedKeeps DEF Keeps
<1>2. fs' = [u EXCEPT !.changes = <<>>]
  BY DEF HostDone
<1> HIDE DEF u
<1>3. Keeps(u, fs')
  BY <1>1, <1>2, TakenKeeps DEF Keeps
<1>4. Keeps(fs, u)
  BY <1>1, KeepsFurther DEF SessionsSound, Settled
<1>5. Keeps(fs, fs')
  BY <1>3, <1>4, KeepsFurther DEF SessionsSound, Settled
<1> QED
  BY <1>5, TreeStep DEF HostDone, sessionVars

LEMMA LastIsName ==
  ASSUME NEW p \in EntryPaths
  PROVE  Last(p) \in Names
<1>1. PICK m \in 0 .. MaxDepth : p \in [1 .. m -> Names]
  BY DEF EntryPaths, SeqOf
<1>2. m \in Nat /\ p # <<>>
  BY <1>1, NinePAssumption DEF EntryPaths
<1>3. p \in Seq(Names) /\ Len(p) = m
  BY <1>1, <1>2
<1>4. m # 0
  BY <1>2, <1>3
<1>5. m \in 1 .. m
  BY <1>2, <1>4
<1> QED
  BY <1>1, <1>3, <1>5 DEF Last

LEMMA HostTreeSteps ==
  ASSUME SessionsSound,
         NEW p \in EntryPaths, NEW q \in EntryPaths, NEW z \in 0 .. MaxFileBytes,
         NEW kind \in {"directory", "symlink"},
         \/ HostWriteFile(p, z) \/ HostMkdir(p, kind) \/ HostRemove(p) \/ HostLink(p, q)
         \/ HostRename(p, q) \/ HostAttributes(p)
  PROVE  SessionsSound' /\ Proceeds(fs, fs')
<1> DEFINE n == Last(p)
           m == Last(q)
           d == Lookup(fs, Front(p))
           e == Lookup(fs, Front(q))
           i == Lookup(fs, p)
<1>1. Sound(fs) /\ n \in Names /\ m \in Names /\ z \in Nat /\ kind \in Kinds /\ "file" \in Kinds
  BY LastIsName, NamespaceAssumption DEF SessionsSound, Settled, Kinds
<1>2. CASE HostWriteFile(p, z)
  <2>1. MayWriteFile(fs, d, n, z) /\ HostDone(FileWritten(fs, d, n, z))
    BY <1>2 DEF HostWriteFile
  <2> HIDE DEF n, d
  <2>2. CASE Listed(fs, d, n)
    <3>1. fs.entry[<<d, n>>] \in DOMAIN fs.inode
      BY <2>1, <2>2 DEF MayWriteFile, MayResize, IsFile, Exists
    <3>2. Keeps(fs, FileWritten(fs, d, n, z))
      BY <1>1, <2>2, <3>1, ResizeKeeps DEF FileWritten
    <3> QED
      BY <2>1, <3>2, HostStep
  <2>3. CASE ~Listed(fs, d, n)
    <3>1. MayInsert(fs, d, n)
      BY <2>1, <2>3 DEF MayWriteFile
    <3>2. Keeps(fs, FileWritten(fs, d, n, z))
      BY <1>1, <2>3, <3>1, InsertKeeps DEF FileWritten
    <3> QED
      BY <2>1, <3>2, HostStep
  <2> QED
    BY <2>2, <2>3
<1>3. CASE HostMkdir(p, kind)
  <2>1. MayInsert(fs, d, n) /\ HostDone(Inserted(fs, d, n, kind, 0))
    BY <1>3 DEF HostMkdir
  <2> HIDE DEF n, d
  <2>2. Keeps(fs, Inserted(fs, d, n, kind, 0))
    BY <1>1, <2>1, InsertKeeps
  <2> QED
    BY <2>1, <2>2, HostStep
<1>4. CASE HostRemove(p)
  <2>1. MayUnlink(fs, d, n) /\ HostDone(Unlinked(fs, d, n))
    BY <1>4 DEF HostRemove
  <2> HIDE DEF n, d
  <2>2. Keeps(fs, Unlinked(fs, d, n))
    BY <1>1, <2>1, UnlinkKeeps DEF MayUnlink
  <2> QED
    BY <2>1, <2>2, HostStep
<1>5. CASE HostLink(p, q)
  <2>1. MayLink(fs, e, m, i) /\ HostDone(Linked(fs, e, m, i))
    BY <1>5 DEF HostLink
  <2> HIDE DEF m, e, i
  <2>2. Keeps(fs, Linked(fs, e, m, i))
    BY <1>1, <2>1, LinkKeeps
  <2> QED
    BY <2>1, <2>2, HostStep
<1>6. CASE HostRename(p, q)
  <2>1. MayMove(fs, d, n, e, m) /\ HostDone(Moved(fs, d, n, e, m))
    BY <1>6 DEF HostRename
  <2> HIDE DEF n, m, d, e
  <2>2. Keeps(fs, Moved(fs, d, n, e, m))
    BY <1>1, <2>1, MoveKeeps
  <2> QED
    BY <2>1, <2>2, HostStep
<1>7. CASE HostAttributes(p)
  <2>1. HostDone(Retouched(fs, i))
    BY <1>7 DEF HostAttributes
  <2>2. Keeps(fs, Retouched(fs, i))
    BY <1>1, EmitKeeps DEF Retouched
  <2> HIDE DEF i
  <2> QED
    BY <2>1, <2>2, HostStep
<1> QED
  BY <1>2, <1>3, <1>4, <1>5, <1>6, <1>7

LEMMA HostClearStep ==
  ASSUME SessionsSound, HostClear
  PROVE  SessionsSound' /\ Proceeds(fs, fs')
<1>1. HostDone(Cleared(fs)) /\ Keeps(fs, Cleared(fs))
  BY ClearKeeps DEF HostClear, SessionsSound, Settled
<1> QED
  BY <1>1, HostStep

\* There are no fids.
LEMMA NoneHeld ==
  ASSUME NEW t, \A i \in Inodes : RefsOf(t, i) = 0, NEW g, g = [s \in Sessions |-> <<>>]
  PROVE  IsTable(g) /\ Accounted(t, g)
<1>1. IsTable(g)
  <2> DEFINE w == <<>>
  <2>1. DOMAIN w = {}
    OBVIOUS
  <2>2. w \in [DOMAIN w -> Handles] /\ DOMAIN w \subseteq Fids
    BY <2>1
  <2> HIDE DEF w
  <2>3. w \in Maps(Fids, Handles)
    BY <2>2, MapIs
  <2>4. <<>> \in Maps(Fids, Handles)
    BY <2>3 DEF w
  <2> QED
    BY <2>4 DEF IsTable
<1>2. \A b \in Holds(g) : FALSE
  <2> SUFFICES ASSUME NEW b \in Holds(g) PROVE FALSE
    OBVIOUS
  <2>1. b = <<b[1], b[2], b[3]>>
    BY HoldsTriples
  <2>2. b[2] \in Sessions /\ b[3] \in DOMAIN g[b[2]]
    BY <2>1, HoldsIs
  <2>3. g[b[2]] = <<>>
    BY <2>2
  <2> QED
    BY <2>2, <2>3
<1>3. \A k : Count(Holds(g), k) = 0
  <2> SUFFICES ASSUME NEW k PROVE Count(Holds(g), k) = 0
    OBVIOUS
  <2>1. IsFiniteSet(Holds(g))
    BY HoldsFinite
  <2> QED
    BY <1>2, <2>1, CountNone
<1> HIDE DEF Count
<1> QED
  BY <1>1, <1>3 DEF Accounted

LEMMA HostResetStep ==
  ASSUME SessionsSound, HostReset
  PROVE  SessionsSound' /\ Proceeds(fs, fs')
<1> DEFINE F == Fresh(fs.next, fs.generation + 1, fs.tracking)
           t == Replaced(fs)
           u == Remembered(t)
<1>1. /\ ~running /\ HostDone(t) /\ fs.next \in Inodes /\ fs.generation + 1 \in Nat
      /\ fs.tracking \in BOOLEAN /\ fs.next \in Nat
  <2>1. IsTree(fs)
    BY DEF SessionsSound, Settled, Sound, Ground
  <2>2. fs.next \in 2 .. LastInode + 1 /\ fs.generation \in Nat /\ fs.tracking \in BOOLEAN
    BY <2>1, TreeParts
  <2>3. ~running /\ HostDone(t) /\ fs.next <= LastInode
    BY DEF HostReset, MayReplace
  <2> HIDE DEF t
  <2> QED
    BY <2>2, <2>3, NamespaceAssumption DEF Inodes
<1>2. /\ Sound(F) /\ F.next = fs.next + 1 /\ F.locks = {} /\ DOMAIN F.inode = {fs.next}
      /\ \A i \in Inodes : RefsOf(F, i) = 0
  BY <1>1, FreshSound
<1> HIDE DEF F
<1>3. Keeps(F, t)
  BY <1>2, EmitKeeps DEF Replaced, F
<1> HIDE DEF t
<1>4. Keeps(t, u)
  BY <1>3, RememberedKeeps DEF Keeps
<1>5. fs' = [u EXCEPT !.changes = <<>>]
  BY <1>1 DEF HostDone
<1> HIDE DEF u
<1>6. Keeps(u, fs')
  BY <1>4, <1>5, TakenKeeps DEF Keeps
<1>7. Keeps(F, fs')
  <2>1. Keeps(F, u)
    BY <1>2, <1>3, <1>4, KeepsFurther
  <2> QED
    BY <1>2, <1>6, <2>1, KeepsFurther
<1>8. Sound(fs') /\ \A i \in Inodes : RefsOf(fs', i) = 0
  BY <1>2, <1>7 DEF Keeps, SameRefs
<1>9. fs'.locks = {} /\ fs'.next >= fs.next + 1 /\ DOMAIN fs'.inode \ {fs.next} \subseteq fs.next + 1 .. fs'.next - 1
  BY <1>2, <1>7 DEF Keeps, Evolves
<1>10. UNCHANGED <<running, fids, generation, negotiated, workload>>
  BY <1>1 DEF HostDone, sessionVars
<1>11. fids = [s \in Sessions |-> <<>>] /\ fs.locks = {} /\ negotiated = {}
  BY <1>1 DEF SessionsSound, HaltedSessionsClosed
<1>12. Accounted(fs', fids)
  BY <1>8, <1>11, NoneHeld
<1>13. Settled(fs', fids)
  BY <1>8, <1>12 DEF Settled, SessionsSound
<1>14. HaltedSessionsClosed'
  BY <1>1, <1>9, <1>10, <1>11 DEF HaltedSessionsClosed
<1>15. SessionsSound'
  BY <1>10, <1>13, <1>14 DEF SessionsSound
<1>16. fs'.next \in Nat
  BY <1>8, TreeParts DEF Sound, Ground
<1>17. DOMAIN fs'.inode \subseteq fs.next .. fs'.next - 1
  <2> SUFFICES ASSUME NEW i \in DOMAIN fs'.inode PROVE i \in fs.next .. fs'.next - 1
    OBVIOUS
  <2>1. CASE i = fs.next
    BY <1>1, <1>9, <1>16, <2>1
  <2>2. CASE i # fs.next
    <3>1. i \in fs.next + 1 .. fs'.next - 1
      BY <1>9, <2>2
    <3> QED
      BY <1>1, <1>16, <3>1
  <2> QED
    BY <2>1, <2>2
<1>18. fs'.next >= fs.next
  BY <1>1, <1>9, <1>16
<1>19. Renewed(fs, fs')
  BY <1>9, <1>11, <1>17, <1>18 DEF Renewed
<1> QED
  BY <1>15, <1>19 DEF Proceeds

LEMMA NoticeSteps ==
  ASSUME SessionsSound, Subscribe \/ Unsubscribe \/ Service \/ Deliver
  PROVE  SessionsSound' /\ Proceeds(fs, fs')
<1>1. Sound(fs)
  BY DEF SessionsSound, Settled
<1>2. UNCHANGED <<running, fids, generation, negotiated, workload>>
  BY DEF Subscribe, Unsubscribe, Service, Deliver, sessionVars
<1>3. CASE Subscribe
  <2> DEFINE t == SetChangeTracking(fs, TRUE)
  <2>1. fs' = [t EXCEPT !.changes = <<>>] /\ Keeps(fs, t)
    BY <1>1, <1>3, TrackingKeeps DEF Subscribe
  <2> HIDE DEF t
  <2>2. Keeps(t, fs')
    BY <2>1, TakenKeeps DEF Keeps
  <2>3. Keeps(fs, fs')
    BY <1>1, <2>1, <2>2, KeepsFurther
  <2> QED
    BY <1>2, <2>3, TreeStep
<1>4. CASE Unsubscribe
  <2>1. Keeps(fs, fs')
    BY <1>1, <1>4, TrackingKeeps DEF Unsubscribe
  <2> QED
    BY <1>2, <2>1, TreeStep
<1>5. CASE Service
  <2>1. Keeps(fs, fs')
    BY <1>1, <1>5, TakenKeeps DEF Service
  <2> QED
    BY <1>2, <2>1, TreeStep
<1>6. CASE Deliver
  <2>1. Keeps(fs, fs')
    BY <1>1, <1>6, KeepsItself DEF Deliver
  <2> QED
    BY <1>2, <2>1, TreeStep
<1> QED
  BY <1>3, <1>4, <1>5, <1>6

-----------------------------------------------------------------------------
(* Locks.                                                                  *)

LEMMA LockEndIs ==
  ASSUME NEW l \in Ranges
  PROVE  /\ l.start \in 0 .. LastByte /\ l.length \in 0 .. LastByte /\ LastByte \in Nat
         /\ LockEnd(l) \in l.start + 1 .. LastByte + 1
         /\ l.length # 0 /\ l.start + l.length <= LastByte + 1 => LockEnd(l) = l.start + l.length
         /\ l.length = 0 => LockEnd(l) = LastByte + 1
         /\ \A b \in 0 .. LastByte : b < LockEnd(l) <=> b < Reach(l)
<1>1. l.start \in 0 .. LastByte /\ l.length \in 0 .. LastByte /\ LastByte \in Nat
  BY NamespaceAssumption DEF Ranges
<1> DEFINE a == l.start + l.length
           z == LastByte + 1
<1>2. CASE l.length = 0
  BY <1>1, <1>2 DEF LockEnd, Reach, Unbounded
<1>3. CASE l.length # 0
  <2>1. LockEnd(l) = Min({a, z}) /\ Reach(l) = a
    BY <1>3 DEF LockEnd, Reach
  <2>2. a \in Nat /\ z \in Nat
    BY <1>1
  <2> HIDE DEF a, z
  <2>3. \E x \in {a, z} : \A y \in {a, z} : x <= y
    <3>1. CASE a <= z
      BY <2>2, <3>1
    <3>2. CASE z <= a
      BY <2>2, <3>2
    <3> QED
      BY <2>2, <3>1, <3>2
  <2>4. Min({a, z}) \in {a, z} /\ Min({a, z}) <= a /\ Min({a, z}) <= z
    BY <2>3 DEF Min
  <2>5. LockEnd(l) \in {a, z} /\ LockEnd(l) <= a /\ LockEnd(l) <= z
    BY <2>1, <2>4
  <2> HIDE DEF Ranges
  <2> QED
    BY <1>1, <1>3, <2>1, <2>5 DEF a, z
<1> QED
  BY <1>2, <1>3

\* The bytes of a range.
Span(l) == l.start .. LockEnd(l) - 1

LEMMA OverlapIs ==
  ASSUME NEW l \in Ranges, NEW r \in Ranges
  PROVE  /\ Overlap(l, r) <=> l.start < LockEnd(r) /\ r.start < LockEnd(l)
         /\ Overlap(l, r) <=> Span(l) \cap Span(r) # {}
<1>1. /\ l.start \in 0 .. LastByte /\ LockEnd(l) \in l.start + 1 .. LastByte + 1
      /\ l.start < LockEnd(r) <=> l.start < Reach(r)
  BY LockEndIs
<1>2. /\ r.start \in 0 .. LastByte /\ LockEnd(r) \in r.start + 1 .. LastByte + 1
      /\ r.start < LockEnd(l) <=> r.start < Reach(l)
  BY LockEndIs
<1>3. LastByte \in Nat
  BY NamespaceAssumption
<1>4. Overlap(l, r) <=> l.start < LockEnd(r) /\ r.start < LockEnd(l)
  BY <1>1, <1>2 DEF Overlap
<1>5. ASSUME Overlap(l, r) PROVE Span(l) \cap Span(r) # {}
  <2>1. CASE l.start <= r.start
    <3>1. r.start \in Span(l) /\ r.start \in Span(r)
      BY <1>1, <1>2, <1>3, <1>4, <1>5, <2>1 DEF Span
    <3> QED
      BY <3>1
  <2>2. CASE r.start <= l.start
    <3>1. l.start \in Span(l) /\ l.start \in Span(r)
      BY <1>1, <1>2, <1>3, <1>4, <1>5, <2>2 DEF Span
    <3> QED
      BY <3>1
  <2> QED
    BY <1>1, <1>2, <1>3, <2>1, <2>2
<1>6. ASSUME Span(l) \cap Span(r) # {} PROVE Overlap(l, r)
  <2>1. PICK b : b \in Span(l) /\ b \in Span(r)
    BY <1>6
  <2> QED
    BY <1>1, <1>2, <1>3, <1>4, <2>1 DEF Span
<1> QED
  BY <1>4, <1>5, <1>6

\* The same owner, file, session and kind.
Akin(x, l) ==
  x.inode = l.inode /\ x.session = l.session /\ x.owner = l.owner /\ x.kind = l.kind

LEMMA RemainderIs ==
  ASSUME NEW l \in Ranges, NEW r \in Ranges, Overlap(l, r)
  PROVE  /\ \A x \in Remainder(l, r) : x \in Ranges /\ Akin(x, l)
         /\ \A b : (\E x \in Remainder(l, r) : b \in Span(x)) <=> b \in Span(l) /\ b \notin Span(r)
<1> DEFINE E == LockEnd(l)
           F == LockEnd(r)
           a == [l EXCEPT !.length = r.start - l.start]
           n == IF E = LastByte + 1 THEN 0 ELSE E - F
           c == [l EXCEPT !.start = F, !.length = n]
<1>1. /\ l.start \in 0 .. LastByte /\ E \in l.start + 1 .. LastByte + 1
      /\ r.start \in 0 .. LastByte /\ F \in r.start + 1 .. LastByte + 1 /\ LastByte \in Nat
  BY LockEndIs
<1>2. l.start < F /\ r.start < E
  BY OverlapIs
<1> HIDE DEF E, F
<1>3. /\ l.start < r.start => a \in Ranges /\ Akin(a, l) /\ Span(a) = l.start .. r.start - 1
  <2> SUFFICES ASSUME l.start < r.start
               PROVE  a \in Ranges /\ Akin(a, l) /\ Span(a) = l.start .. r.start - 1
    OBVIOUS
  <2>1. r.start - l.start \in 1 .. LastByte
    BY <1>1
  <2>2. /\ a \in Ranges /\ Akin(a, l) /\ a.start = l.start /\ a.length = r.start - l.start
    BY <2>1 DEF Ranges, Akin
  <2> HIDE DEF a
  <2>3. a.length # 0 /\ a.start + a.length = r.start /\ a.start + a.length <= LastByte + 1
    BY <1>1, <2>1, <2>2
  <2>4. LockEnd(a) = r.start
    BY <2>2, <2>3, LockEndIs
  <2> QED
    BY <2>2, <2>4 DEF Span
<1>4. F < E => c \in Ranges /\ Akin(c, l) /\ Span(c) = F .. E - 1
  <2> SUFFICES ASSUME F < E PROVE c \in Ranges /\ Akin(c, l) /\ Span(c) = F .. E - 1
    OBVIOUS
  <2>1. n \in 0 .. LastByte /\ F \in 0 .. LastByte
    BY <1>1
  <2>2. c \in Ranges /\ Akin(c, l) /\ c.start = F /\ c.length = n
    BY <2>1 DEF Ranges, Akin
  <2> HIDE DEF c
  <2>3. LockEnd(c) = E
    <3>1. CASE E = LastByte + 1
      BY <2>2, <3>1, LockEndIs
    <3>2. CASE E # LastByte + 1
      <4>1. c.length # 0 /\ c.start + c.length = E /\ c.start + c.length <= LastByte + 1
        BY <1>1, <2>2, <3>2
      <4> QED
        BY <2>2, <4>1, LockEndIs
    <3> QED
      BY <3>1, <3>2
  <2> QED
    BY <2>2, <2>3 DEF Span
<1>5. Remainder(l, r) = (IF l.start < r.start THEN {a} ELSE {}) \cup (IF F < E THEN {c} ELSE {})
  BY DEF Remainder, E, F
<1> HIDE DEF a, c, n
<1>6. \A x \in Remainder(l, r) : x \in Ranges /\ Akin(x, l)
  BY <1>3, <1>4, <1>5
<1>7. Span(l) = l.start .. E - 1 /\ Span(r) = r.start .. F - 1
  BY DEF Span, E, F
<1>8. ASSUME NEW b
      PROVE  (\E x \in Remainder(l, r) : b \in Span(x)) <=> b \in Span(l) /\ b \notin Span(r)
  <2>1. (\E x \in Remainder(l, r) : b \in Span(x))
          <=> \/ l.start < r.start /\ b \in l.start .. r.start - 1
              \/ F < E /\ b \in F .. E - 1
    BY <1>3, <1>4, <1>5
  <2>2. b \in Span(l) /\ b \notin Span(r)
          <=> \/ l.start < r.start /\ b \in l.start .. r.start - 1
              \/ F < E /\ b \in F .. E - 1
    <3>1. CASE b \in Int
      BY <1>1, <1>2, <1>7, <3>1
    <3>2. CASE b \notin Int
      BY <1>1, <1>7, <3>2
    <3> QED
      BY <3>1, <3>2
  <2> QED
    BY <2>1, <2>2
<1> QED
  BY <1>6, <1>8

\* The locked bytes of a set of ranges.
Grip(l, b) ==
  [inode |-> l.inode, byte |-> b, owner |-> l.owner, kind |-> l.kind, session |-> l.session]
Covered(L) == UNION {{Grip(l, b) : b \in Span(l)} : l \in L}

LEMMA CoveredIs ==
  ASSUME NEW L, NEW h
  PROVE  h \in Covered(L) <=> \E l \in L : \E b \in Span(l) : h = Grip(l, b)
BY DEF Covered

LEMMA GripIs ==
  ASSUME NEW l, NEW b
  PROVE  /\ Grip(l, b).inode = l.inode /\ Grip(l, b).byte = b /\ Grip(l, b).owner = l.owner
         /\ Grip(l, b).kind = l.kind /\ Grip(l, b).session = l.session
         /\ \A x : Akin(x, l) => Grip(x, b) = Grip(l, b)
BY DEF Grip, Akin

\* What the request r takes.
Taken(h, r) == h.inode = r.inode /\ h.owner = r.owner /\ h.byte \in Span(r)

LEMMA SubtractedIs ==
  ASSUME NEW t, t.locks \subseteq Ranges, NEW r \in Ranges
  PROVE  /\ Subtracted(t, r) \subseteq Ranges
         /\ \A x \in Subtracted(t, r) : \E l \in t.locks : Akin(x, l)
         /\ Covered(Subtracted(t, r)) = {h \in Covered(t.locks) : ~Taken(h, r)}
<1> DEFINE L == t.locks
           M == {l \in L : l.inode = r.inode /\ l.owner = r.owner /\ Overlap(l, r)}
           N == Subtracted(t, r)
<1>1. \A x : x \in N <=> (x \in L /\ x \notin M) \/ \E l \in M : x \in Remainder(l, r)
  BY DEF Subtracted
<1>2. \A l \in M : l \in L /\ l \in Ranges /\ Overlap(l, r) /\ l.inode = r.inode /\ l.owner = r.owner
  OBVIOUS
<1>3. \A l \in L : l \notin M => l \in Ranges /\ ~(l.inode = r.inode /\ l.owner = r.owner /\ Overlap(l, r))
  OBVIOUS
<1> HIDE DEF M, N
<1>4. ASSUME NEW x \in N PROVE x \in Ranges /\ \E l \in L : Akin(x, l)
  <2>1. CASE x \in L
    BY <2>1 DEF Akin
  <2>2. CASE \E l \in M : x \in Remainder(l, r)
    <3>1. PICK l \in M : x \in Remainder(l, r)
      BY <2>2
    <3>2. l \in Ranges /\ Overlap(l, r) /\ l \in L
      BY <1>2
    <3>3. x \in Ranges /\ Akin(x, l)
      BY <3>1, <3>2, RemainderIs
    <3> QED
      BY <3>2, <3>3
  <2> QED
    BY <1>1, <2>1, <2>2
<1>5. ASSUME NEW h, h \in Covered(N) PROVE h \in Covered(L) /\ ~Taken(h, r)
  <2>1. PICK x \in N : \E b \in Span(x) : h = Grip(x, b)
    BY <1>5, CoveredIs
  <2>2. PICK b \in Span(x) : h = Grip(x, b)
    BY <2>1
  <2>3. CASE x \in L /\ x \notin M
    <3>1. h \in Covered(L)
      BY <2>2, <2>3, CoveredIs
    <3>2. x \in Ranges /\ ~(x.inode = r.inode /\ x.owner = r.owner /\ Overlap(x, r))
      BY <1>3, <2>3
    <3>3. h.inode = x.inode /\ h.owner = x.owner /\ h.byte = b
      BY <2>2, GripIs
    <3>4. b \in Span(r) => Overlap(x, r)
      BY <2>2, <3>2, OverlapIs
    <3> QED
      BY <3>1, <3>2, <3>3, <3>4 DEF Taken
  <2>4. CASE \E l \in M : x \in Remainder(l, r)
    <3>1. PICK l \in M : x \in Remainder(l, r)
      BY <2>4
    <3>2. l \in L /\ l \in Ranges /\ Overlap(l, r)
      BY <1>2
    <3>3. Akin(x, l) /\ b \in Span(l) /\ b \notin Span(r)
      BY <2>2, <3>1, <3>2, RemainderIs
    <3>4. h = Grip(l, b)
      BY <2>2, <3>3, GripIs
    <3>5. h \in Covered(L)
      BY <3>2, <3>3, <3>4, CoveredIs
    <3>6. h.byte = b
      BY <2>2, GripIs
    <3> QED
      BY <3>3, <3>5, <3>6 DEF Taken
  <2> QED
    BY <1>1, <2>3, <2>4
<1>6. ASSUME NEW h, h \in Covered(L), ~Taken(h, r) PROVE h \in Covered(N)
  <2>1. PICK l \in L : \E b \in Span(l) : h = Grip(l, b)
    BY <1>6, CoveredIs
  <2>2. PICK b \in Span(l) : h = Grip(l, b)
    BY <2>1
  <2>3. h.inode = l.inode /\ h.owner = l.owner /\ h.byte = b
    BY <2>2, GripIs
  <2>4. CASE l \notin M
    <3>1. l \in N
      BY <1>1, <2>4
    <3> QED
      BY <2>2, <3>1, CoveredIs
  <2>5. CASE l \in M
    <3>1. l \in Ranges /\ Overlap(l, r) /\ l.inode = r.inode /\ l.owner = r.owner
      BY <1>2, <2>5
    <3>2. b \notin Span(r)
      BY <1>6, <2>3, <3>1 DEF Taken
    <3>3. PICK x \in Remainder(l, r) : b \in Span(x)
      BY <2>2, <3>1, <3>2, RemainderIs
    <3>4. Akin(x, l) /\ x \in N
      BY <1>1, <2>5, <3>1, <3>3, RemainderIs
    <3>5. h = Grip(x, b)
      BY <2>2, <3>4, GripIs
    <3> QED
      BY <3>3, <3>4, <3>5, CoveredIs
  <2> QED
    BY <2>4, <2>5
<1> HIDE DEF L
<1>7. Covered(N) = {h \in Covered(L) : ~Taken(h, r)}
  BY <1>5, <1>6
<1> QED
  BY <1>4, <1>7 DEF L, N

LEMMA LockReply ==
  ASSUME SessionsSound, running, NEW s \in Sessions, NEW r \in Ranges,
         r.inode \in DOMAIN fs.inode, fs.inode[r.inode].kind = "file", NEW L,
         \/ ~Conflicts(fs, r) /\ L = Subtracted(fs, r) \cup {r}
         \/ L = Subtracted(fs, r),
         Reply(s, [fs EXCEPT !.locks = L], Table(s))
  PROVE  SessionsSound' /\ Proceeds(fs, fs')
<1> DEFINE t == [fs EXCEPT !.locks = L]
<1>1. Settled(fs, fids) /\ Sound(fs) /\ fs.locks \subseteq Ranges /\ SoundLocks(fs)
  BY TreeParts DEF SessionsSound, Settled, Sound, Ground
<1>2. \A x \in Subtracted(fs, r) : x \in Ranges /\ x.inode \in DOMAIN fs.inode /\ fs.inode[x.inode].kind = "file"
  <2> SUFFICES ASSUME NEW x \in Subtracted(fs, r)
               PROVE  x \in Ranges /\ x.inode \in DOMAIN fs.inode /\ fs.inode[x.inode].kind = "file"
    OBVIOUS
  <2>1. x \in Ranges /\ \E l \in fs.locks : Akin(x, l)
    BY <1>1, SubtractedIs
  <2> QED
    BY <1>1, <2>1 DEF Akin, SoundLocks
<1>3. L \subseteq Ranges /\ \A l \in L : l.inode \in DOMAIN fs.inode /\ fs.inode[l.inode].kind = "file"
  BY <1>2
<1>4. /\ Sound(t) /\ SameRefs(fs, t) /\ t.locks = L
      /\ t.inode = fs.inode /\ t.next = fs.next /\ t.generation = fs.generation
  BY <1>1, <1>3, LocksKeep
<1> HIDE DEF t
<1>5. Settled(t, fids)
  BY <1>1, <1>4 DEF Settled, SameRefs, Accounted
<1>6. fids = [fids EXCEPT ![s] = Table(s)]
  BY TableIs DEF SessionsSound, Settled, IsTable
<1>7. Reply(s, t, Table(s))
  BY DEF t
<1>8. SessionsSound' /\ fs' = Remembered(t) /\ Keeps(t, fs')
  BY <1>4, <1>5, <1>6, <1>7, ReplySettles
<1>9. DOMAIN fs'.inode = DOMAIN fs.inode /\ fs'.next = fs.next /\ fs'.locks = L
  BY <1>4, <1>8, RememberedKeeps
<1>10. fs'.generation = fs.generation /\ \A i \in DOMAIN fs.inode : fs'.inode[i].kind = fs.inode[i].kind
  BY <1>4, <1>8, <1>9 DEF Keeps, Evolves
<1>11. Relocked(fs, fs')
  BY <1>9, <1>10 DEF Relocked
<1> QED
  BY <1>8, <1>11 DEF Proceeds

LEMMA RequestIs ==
  ASSUME SessionsSound, NEW s \in Sessions, NEW f, NEW owner \in Owners,
         NEW kind \in {"read", "write"}, NEW start \in Bytes, NEW length \in Bytes, Lockable(s, f)
  PROVE  LET r == Request(s, f, owner, kind, start, length)
         IN r \in Ranges /\ r.inode \in DOMAIN fs.inode /\ fs.inode[r.inode].kind = "file"
<1>1. f \in DOMAIN Table(s) /\ Held(s, f) \in DOMAIN fs.inode /\ fs.inode[Held(s, f)].kind = "file"
  BY DEF Lockable, IsFile, Exists
<1>2. Held(s, f) \in Inodes
  BY <1>1, TreeParts DEF SessionsSound, Settled, Sound, Ground
<1> QED
  BY <1>1, <1>2 DEF Request, Ranges, Bytes

LEMMA LockStep ==
  ASSUME SessionsSound, NEW s \in Sessions, NEW f \in Fids, NEW owner \in Owners,
         NEW kind \in {"read", "write"}, NEW start \in Bytes, NEW length \in Bytes,
         Lock(s, f, owner, kind, start, length)
  PROVE  SessionsSound' /\ Proceeds(fs, fs')
<1> DEFINE r == Request(s, f, owner, kind, start, length)
<1>1. running /\ Lockable(s, f) /\ ~Conflicts(fs, r) /\ Reply(s, Locked(fs, r), Table(s))
  BY DEF Lock, Ready
<1>2. r \in Ranges /\ r.inode \in DOMAIN fs.inode /\ fs.inode[r.inode].kind = "file"
  BY <1>1, RequestIs
<1> HIDE DEF r
<1> DEFINE L == Subtracted(fs, r) \cup {r}
<1>3. Reply(s, [fs EXCEPT !.locks = L], Table(s))
  BY <1>1 DEF Locked
<1>4. ~Conflicts(fs, r) /\ L = Subtracted(fs, r) \cup {r}
  BY <1>1
<1> HIDE DEF L
<1> QED
  BY <1>1, <1>2, <1>3, <1>4, LockReply

LEMMA UnlockStep ==
  ASSUME SessionsSound, NEW s \in Sessions, NEW f \in Fids, NEW owner \in Owners,
         NEW start \in Bytes, NEW length \in Bytes, Unlock(s, f, owner, start, length)
  PROVE  SessionsSound' /\ Proceeds(fs, fs')
<1> DEFINE r == Request(s, f, owner, "read", start, length)
<1>1. running /\ Lockable(s, f) /\ Reply(s, Unlocked(fs, r), Table(s))
  BY DEF Unlock, Ready
<1>2. r \in Ranges /\ r.inode \in DOMAIN fs.inode /\ fs.inode[r.inode].kind = "file"
  BY <1>1, RequestIs
<1> HIDE DEF r
<1> DEFINE L == Subtracted(fs, r)
<1>3. Reply(s, [fs EXCEPT !.locks = L], Table(s))
  BY <1>1 DEF Unlocked
<1>4. L = Subtracted(fs, r)
  OBVIOUS
<1> HIDE DEF L
<1> QED
  BY <1>1, <1>2, <1>3, <1>4, LockReply

-----------------------------------------------------------------------------
(* The theorems.                                                           *)

LEMMA InitSound ==
  Init => SessionsSound
<1> SUFFICES ASSUME Init PROVE SessionsSound
  OBVIOUS
<1>1. 1 \in Inodes /\ 1 \in Nat /\ FALSE \in BOOLEAN
  BY NamespaceAssumption DEF Inodes
<1>2. fs = Fresh(1, 1, FALSE) /\ fids = [s \in Sessions |-> <<>>]
  BY DEF Init
<1>3. Sound(fs) /\ fs.generation = 1 /\ fs.locks = {} /\ \A i \in Inodes : RefsOf(fs, i) = 0
  <2> DEFINE u == Fresh(1, 1, FALSE)
  <2>1. Sound(u) /\ u.generation = 1 /\ u.locks = {} /\ \A i \in Inodes : RefsOf(u, i) = 0
    BY <1>1, FreshSound
  <2> HIDE DEF u
  <2>2. fs = u
    BY <1>2 DEF u
  <2> QED
    BY <2>1, <2>2
<1>4. IsTable(fids) /\ Accounted(fs, fids)
  BY <1>2, <1>3, NoneHeld
<1> QED
  BY <1>1, <1>2, <1>3, <1>4 DEF Init, SessionsSound, Settled, HaltedSessionsClosed

\* What a behaviour is made of, is there.
LEMMA WorkloadIs ==
  ASSUME SessionsSound
  PROVE  /\ workload.names \subseteq Names /\ workload.fids \subseteq Fids
         /\ workload.sessions \subseteq Sessions
         /\ \A s \in workload.sessions : workload.owners[s] \subseteq Owners
BY WorkloadsAssumption DEF SessionsSound

LEMMA SessionNextSound ==
  ASSUME SessionsSound, NEW s \in workload.sessions, SessionNext(s)
  PROVE  SessionsSound' /\ Proceeds(fs, fs')
<1>1. /\ s \in Sessions /\ workload.names \subseteq Names /\ workload.fids \subseteq Fids
      /\ workload.owners[s] \subseteq Owners
  BY WorkloadIs
<1>2. ASSUME NEW known \in BOOLEAN, Version(s, known) PROVE SessionsSound' /\ Proceeds(fs, fs')
  BY <1>1, <1>2, VersionStep
<1>3. CASE Malformed(s)
  BY <1>1, <1>3, MalformedStep
<1>4. CASE DeviceReset(s)
  BY <1>1, <1>4, DeviceResetStep
<1>5. ASSUME NEW f \in Fids, Attach(s, f) \/ Clunk(s, f) \/ Setattr(s, f)
      PROVE  SessionsSound' /\ Proceeds(fs, fs')
  BY <1>1, <1>5, AttachStep, ClunkStep, SetattrStep
<1>6. ASSUME NEW f \in Fids, NEW g \in Fids, NEW names \in Walks, Walk(s, f, g, names)
      PROVE  SessionsSound' /\ Proceeds(fs, fs')
  BY <1>1, <1>6, WalkStep
<1>7. ASSUME NEW f \in Fids, NEW a \in Accesses, NEW t \in BOOLEAN, Open(s, f, a, t)
      PROVE  SessionsSound' /\ Proceeds(fs, fs')
  BY <1>1, <1>7, OpenStep
<1>8. ASSUME NEW f \in Fids, NEW n \in Names, NEW a \in Accesses, NEW t \in BOOLEAN,
             Create(s, f, n, a, t)
      PROVE  SessionsSound' /\ Proceeds(fs, fs')
  BY <1>1, <1>8, CreateStep
<1>9. ASSUME NEW f \in Fids, NEW o \in 0 .. MaxFileBytes, NEW c \in 0 .. MaxFileBytes,
             NEW a \in BOOLEAN, Write(s, f, o, c, a)
      PROVE  SessionsSound' /\ Proceeds(fs, fs')
  BY <1>1, <1>9, WriteStep
<1>10. ASSUME NEW f \in Fids, NEW z \in 0 .. MaxFileBytes, Truncate(s, f, z)
       PROVE  SessionsSound' /\ Proceeds(fs, fs')
  BY <1>1, <1>10, TruncateStep
<1>11. ASSUME NEW f \in Fids, NEW n \in Names, Unlink(s, f, n)
       PROVE  SessionsSound' /\ Proceeds(fs, fs')
  BY <1>1, <1>11, UnlinkStep
<1>12. ASSUME NEW f \in Fids, NEW n \in Names, NEW kind \in {"directory", "symlink"},
              Mkdir(s, f, n, kind)
       PROVE  SessionsSound' /\ Proceeds(fs, fs')
  BY <1>1, <1>12, MkdirStep
<1>13. ASSUME NEW f \in Fids, NEW n \in Names, NEW g \in Fids, Link(s, f, n, g)
       PROVE  SessionsSound' /\ Proceeds(fs, fs')
  BY <1>1, <1>13, LinkStep
<1>14. ASSUME NEW f \in Fids, NEW n \in Names, NEW g \in Fids, NEW m \in Names,
              Rename(s, f, n, g, m)
       PROVE  SessionsSound' /\ Proceeds(fs, fs')
  BY <1>1, <1>14, RenameStep
<1>15. ASSUME NEW f \in Fids, NEW o \in Owners, NEW b \in Bytes, NEW c \in Bytes,
              Unlock(s, f, o, b, c)
       PROVE  SessionsSound' /\ Proceeds(fs, fs')
  BY <1>1, <1>15, UnlockStep
<1>16. ASSUME NEW f \in Fids, NEW o \in Owners, NEW b \in Bytes, NEW c \in Bytes,
              NEW kind \in {"read", "write"}, Lock(s, f, o, kind, b, c)
       PROVE  SessionsSound' /\ Proceeds(fs, fs')
  BY <1>1, <1>16, LockStep
<1> QED
  BY <1>1, <1>2, <1>3, <1>4, <1>5, <1>6, <1>7, <1>8, <1>9, <1>10, <1>11, <1>12, <1>13, <1>14,
     <1>15, <1>16 DEF SessionNext

LEMMA HostNextSound ==
  ASSUME SessionsSound, HostNext
  PROVE  SessionsSound' /\ Proceeds(fs, fs')
<1>1. CASE Halt \/ Boot \/ HostReset \/ Subscribe \/ Unsubscribe \/ Service \/ Deliver
  BY <1>1, HaltStep, BootStep, HostResetStep, NoticeSteps
<1>2. ASSUME NEW p \in EntryPaths,
             \/ HostRemove(p) \/ HostAttributes(p)
             \/ \E z \in 0 .. MaxFileBytes : HostWriteFile(p, z)
             \/ \E kind \in {"directory", "symlink"} : HostMkdir(p, kind)
             \/ \E q \in EntryPaths : HostLink(p, q) \/ HostRename(p, q)
      PROVE  SessionsSound' /\ Proceeds(fs, fs')
  <2>1. 0 \in 0 .. MaxFileBytes /\ "symlink" \in {"directory", "symlink"}
    BY NamespaceAssumption
  <2>2. CASE HostRemove(p) \/ HostAttributes(p)
    BY <2>1, <2>2, HostTreeSteps
  <2>3. CASE \E z \in 0 .. MaxFileBytes : HostWriteFile(p, z)
    BY <2>1, <2>3, HostTreeSteps
  <2>4. CASE \E kind \in {"directory", "symlink"} : HostMkdir(p, kind)
    BY <2>1, <2>4, HostTreeSteps
  <2>5. CASE \E q \in EntryPaths : HostLink(p, q) \/ HostRename(p, q)
    BY <2>1, <2>5, HostTreeSteps
  <2> QED
    BY <1>2, <2>2, <2>3, <2>4, <2>5
<1>3. CASE HostClear
  BY <1>3, HostClearStep
<1> QED
  BY <1>1, <1>2, <1>3 DEF HostNext

LEMMA NextSound ==
  SessionsSound /\ [Next]_vars => SessionsSound' /\ Proceeds(fs, fs')
<1> SUFFICES ASSUME SessionsSound, [Next]_vars PROVE SessionsSound' /\ Proceeds(fs, fs')
  OBVIOUS
<1>1. CASE ReaderNext
  <2>1. PICK s \in workload.sessions, f \in workload.fids, count \in 1 .. 2, again \in BOOLEAN :
          Readdir(s, f, count, again)
    BY <1>1 DEF ReaderNext
  <2>2. s \in Sessions /\ f \in Fids
    BY WorkloadIs
  <2> QED
    BY <2>1, <2>2, ReaddirStep
<1>2. CASE HostNext
  BY <1>2, HostNextSound
<1>3. CASE \E s \in workload.sessions : SessionNext(s)
  BY <1>3, SessionNextSound
<1>4. CASE UNCHANGED vars
  <2>1. fs' = fs /\ UNCHANGED <<running, fids, generation, negotiated, workload>>
    BY <1>4 DEF vars
  <2>2. Keeps(fs, fs')
    BY <2>1, KeepsItself DEF SessionsSound, Settled
  <2> QED
    BY <2>1, <2>2, TreeStep
<1> QED
  BY <1>1, <1>2, <1>3, <1>4 DEF Next

\* In every state of the specification the tree is sound, its references are the fids
\* of the sessions, and a halted machine has neither fids nor locks (every handler of
\* ninep_protocol.rs and filesystem_abi.rs).
THEOREM SessionsSoundAlways ==
  Spec => []SessionsSound
<1>1. SessionsSound /\ [Next]_vars => SessionsSound'
  BY NextSound
<1> QED
  BY <1>1, InitSound, PTL DEF Spec

\* A halted VM has no fids and no locks, and a running session is never of an earlier
\* generation (enter_halted, NinePSession::reset).
THEOREM HaltedSessionsClosedAlways ==
  Spec => []HaltedSessionsClosed
<1>1. SessionsSound => HaltedSessionsClosed
  BY DEF SessionsSound
<1> QED
  BY <1>1, SessionsSoundAlways, PTL

LEMMA FreshStep ==
  ASSUME NEW t, NEW u, Sound(t), Sound(u), Proceeds(t, u)
  PROVE  /\ u.next >= t.next
         /\ DOMAIN u.inode \ DOMAIN t.inode \subseteq t.next .. u.next - 1
         /\ u.generation # t.generation => DOMAIN u.inode \cap DOMAIN t.inode = {}
<1>1. t.next \in Nat /\ u.next \in Nat /\ DOMAIN t.inode \subseteq 1 .. t.next - 1
  BY TreeParts DEF Sound, Ground, Shaped, SoundEntries
<1>2. CASE \E S \in SUBSET Sessions : Evolves(t, u, S)
  BY <1>1, <1>2 DEF Evolves
<1>3. CASE Relocked(t, u)
  BY <1>1, <1>3 DEF Relocked
<1>4. CASE Renewed(t, u)
  <2>1. DOMAIN u.inode \cap DOMAIN t.inode = {}
    <3> SUFFICES ASSUME NEW i, i \in DOMAIN u.inode, i \in DOMAIN t.inode PROVE FALSE
      OBVIOUS
    <3>1. i \in t.next .. u.next - 1 /\ i \in 1 .. t.next - 1
      BY <1>1, <1>4 DEF Renewed
    <3> QED
      BY <1>1, <3>1
  <2> QED
    BY <1>1, <1>4, <2>1 DEF Renewed
<1> QED
  BY <1>2, <1>3, <1>4 DEF Proceeds

\* Inode numbers are never used again, not even by a new namespace (insert, reset).
THEOREM IdentitiesFresh ==
  Spec => FreshIdentities
<1>1. SessionsSound /\ SessionsSound' /\ [Next]_vars
        => [/\ fs'.next >= fs.next
            /\ DOMAIN fs'.inode \ DOMAIN fs.inode \subseteq fs.next .. fs'.next - 1
            /\ fs'.generation # fs.generation => DOMAIN fs'.inode \cap DOMAIN fs.inode = {}]_vars
  BY NextSound, FreshStep DEF SessionsSound, Settled
<1> QED
  BY <1>1, SessionsSoundAlways, PTL DEF Spec, FreshIdentities

-----------------------------------------------------------------------------
(* The namespace.                                                          *)

\* The sum of the quota, as the property writes it.
LEMMA QuotaIs ==
  ASSUME NEW t, IsTree(t)
  PROVE  MapThenSumSet(LAMBDA i : t.inode[i].size, DOMAIN t.inode) = Total(t)
<1> DEFINE S == DOMAIN t.inode
           w == Sizes(t)
           F(f) == [s \in SUBSET S |-> IF s = {} THEN 0
                                       ELSE t.inode[CHOOSE x \in s : TRUE].size
                                              + f[s \ {CHOOSE x \in s : TRUE}]]
           iter == CHOOSE f : f = F(f)
<1>1. MapThenSumSet(LAMBDA i : t.inode[i].size, DOMAIN t.inode) = iter[S]
  BY DEF MapThenSumSet, MapThenFoldSet
<1>2. IsFiniteSet(S) /\ \A x \in S : w[x] = t.inode[x].size /\ w[x] \in Nat
  BY ArenaFinite
<1> HIDE DEF w, S
<1>3. PICK f : Folds(f, S, Nat, 0, Picks(S), Adder(w, S)) /\ Sum(w, S) = f[S]
  BY <1>2, SumFolds
<1>4. \A s \in SUBSET S : s # {} => Picks(S)[s] = (CHOOSE x \in s : TRUE) /\ Picks(S)[s] \in s
  BY DEF Picks
<1>5. ASSUME NEW s \in SUBSET S, s # {}
      PROVE  \E y \in s : /\ y = (CHOOSE x \in s : TRUE)
                          /\ f[s] = t.inode[y].size + f[s \ {y}]
  <2>1. PICK y \in s : y = (CHOOSE x \in s : TRUE) /\ y = Picks(S)[s]
    BY <1>4, <1>5
  <2>2. f[s] = Adder(w, S)[y][f[s \ {y}]] /\ f[s \ {y}] \in Nat
    BY <1>3, <1>5, <2>1 DEF Folds
  <2>3. f[s] = w[y] + f[s \ {y}]
    BY <2>2 DEF Adder
  <2> QED
    BY <1>2, <2>1, <2>3
<1>6. f = F(f)
  <2>1. f \in [SUBSET S -> Nat] /\ f[{}] = 0
    BY <1>3 DEF Folds
  <2>2. ASSUME NEW s \in SUBSET S, s # {}
        PROVE  f[s] = t.inode[CHOOSE x \in s : TRUE].size + f[s \ {CHOOSE x \in s : TRUE}]
    <3>1. PICK y \in s : y = (CHOOSE x \in s : TRUE) /\ f[s] = t.inode[y].size + f[s \ {y}]
      BY <1>5, <2>2
    <3> QED
      BY <3>1
  <2> QED
    BY <2>1, <2>2
<1>7. iter = F(iter)
  <2>1. \E g : g = F(g)
    BY <1>6
  <2> HIDE DEF F
  <2> QED
    BY <2>1, Zenon
<1> HIDE DEF iter
<1> DEFINE Q == {s \in SUBSET S : iter[s] = f[s]}
<1>8. {} \in Q
  <2>1. iter[{}] = 0 /\ f[{}] = 0
    BY <1>3, <1>7 DEF Folds
  <2> QED
    BY <2>1
<1>9. ASSUME NEW s \in SUBSET S, s # {}, \A x \in s : s \ {x} \in Q PROVE s \in Q
  <2>1. PICK y \in s : y = (CHOOSE x \in s : TRUE) /\ f[s] = t.inode[y].size + f[s \ {y}]
    BY <1>5, <1>9
  <2>2. iter[s] = t.inode[y].size + iter[s \ {y}]
    <3>1. iter[s] = F(iter)[s]
      BY <1>7
    <3>2. F(iter)[s] = t.inode[CHOOSE x \in s : TRUE].size + iter[s \ {CHOOSE x \in s : TRUE}]
      BY <1>9
    <3> HIDE DEF F
    <3> QED
      BY <2>1, <3>1, <3>2
  <2>3. iter[s \ {y}] = f[s \ {y}]
    BY <1>9
  <2> QED
    BY <2>1, <2>2, <2>3
<1> HIDE DEF Q
<1>10. \A s \in SUBSET S : s \in Q
  BY <1>2, <1>8, <1>9, SubsetInduction
<1>11. iter[S] = f[S]
  BY <1>10 DEF Q
<1>12. Total(t) = Sum(w, S)
  BY DEF Total, w, S
<1> QED
  BY <1>1, <1>3, <1>11, <1>12

\* Tables and Referring are what Pairs and Holds count.
LEMMA ReferringIs ==
  ASSUME SessionsSound, NEW i \in DOMAIN fs.inode
  PROVE  /\ fs.inode[i].refs = Cardinality(Referring(i)) /\ fs.inode[i].refs \in Nat
         /\ fs.inode[i].refs > 0 => \E x \in Tables : fids[x[1]][x[2]].inode = i
<1>1. Settled(fs, fids) /\ i \in Inodes /\ fs.inode[i] \in Records
  BY TreeParts DEF SessionsSound, Settled, Sound, Ground
<1>2. fs.inode[i].refs = Count(Holds(fids), i) /\ fs.inode[i].refs \in Nat
  BY <1>1 DEF Settled, Accounted, RefsOf, Records
<1>3. Tables = Pairs(fids)
  BY DEF Tables, Pairs
<1>4. Count(Holds(fids), i) = Cardinality({x \in Pairs(fids) : fids[x[1]][x[2]].inode = i})
  BY HoldsFinite
<1>5. Count(Holds(fids), i) = Cardinality(Referring(i))
  BY <1>3, <1>4 DEF Referring
<1>6. ASSUME fs.inode[i].refs > 0 PROVE \E x \in Tables : fids[x[1]][x[2]].inode = i
  <2>1. IsFiniteSet(Holds(fids))
    BY HoldsFinite
  <2>2. PICK b \in Holds(fids) : b[1] = i
    <3>1. Count(Holds(fids), i) # 0
      BY <1>2, <1>6
    <3> HIDE DEF Count
    <3> QED
      BY <2>1, <3>1, CountNone
  <2>3. PICK x \in Pairs(fids) : b = <<fids[x[1]][x[2]].inode, x[1], x[2]>>
    BY <2>2 DEF Holds
  <2> QED
    BY <1>3, <2>2, <2>3
<1> QED
  BY <1>2, <1>5, <1>6

LEMMA LinksHold ==
  SessionsSound => LinksAgree
BY DEF SessionsSound, Settled, Sound, Ground, Shaped, SoundLinks, LinksAgree, Count, Of

LEMMA ArenaHolds ==
  ASSUME SessionsSound
  PROVE  ArenaExact
<1>1. /\ Settled(fs, fids) /\ Sound(fs) /\ IsTable(fids) /\ Accounted(fs, fids)
      /\ SoundEntries(fs) /\ SoundLinks(fs) /\ SoundLive(fs)
  BY DEF SessionsSound, Settled, Sound, Ground, Shaped
<1> DEFINE H == {fids[x[1]][x[2]].inode : x \in Tables}
<1>2. ASSUME NEW i \in DOMAIN fs.inode PROVE i \in {fs.root} \cup Named \cup H
  <2>1. CASE fs.inode[i].refs > 0
    BY <2>1, ReferringIs
  <2>2. CASE fs.inode[i].links > 0 /\ i # fs.root
    <3>1. fs.inode[i].links = Count(fs.back, i) + 0 /\ fs.inode[i].links > 0
      <4> HIDE DEF Count
      <4> QED
        BY <1>1, <2>2 DEF SoundLinks
    <3>2. IsFiniteSet(fs.back)
      BY <1>1, LinksFinite DEF Recorded, SoundEntries, SoundLinks
    <3>3. PICK b \in fs.back : b[1] = i
      <4>1. Count(fs.back, i) # 0
        BY <3>1
      <4> HIDE DEF Count
      <4> QED
        BY <3>2, <4>1, CountNone
    <3>4. PICK x \in DOMAIN fs.entry : b = <<fs.entry[x], x[1], x[2]>>
      BY <1>1, <3>3 DEF SoundLinks
    <3> QED
      BY <3>3, <3>4 DEF Named, Range
  <2> QED
    BY <1>1, <2>1, <2>2 DEF SoundLive
<1>3. ASSUME NEW i \in {fs.root} \cup Named \cup H PROVE i \in DOMAIN fs.inode
  <2>1. CASE i = fs.root
    BY <1>1, <2>1 DEF SoundEntries, Dirs
  <2>2. CASE i \in Named
    BY <1>1, <2>2 DEF SoundEntries, Named, Range
  <2>3. CASE i \in H
    <3>1. PICK x \in Tables : i = fids[x[1]][x[2]].inode
      BY <2>3
    <3>2. x[1] \in Sessions /\ x[2] \in DOMAIN fids[x[1]]
      BY DEF Tables
    <3> QED
      BY <1>1, <3>1, <3>2, HeldExists
  <2> QED
    BY <2>1, <2>2, <2>3
<1>4. DOMAIN fs.inode = {fs.root} \cup Named \cup H
  BY <1>2, <1>3
<1> QED
  BY <1>4, ReferringIs DEF ArenaExact

LEMMA TreeHolds ==
  ASSUME SessionsSound
  PROVE  TreeSound
<1>1. IsTree(fs) /\ Shaped(fs) /\ SoundEntries(fs) /\ SoundDirs(fs)
  BY DEF SessionsSound, Settled, Sound, Ground, Shaped
<1> SUFFICES ASSUME NEW d \in DOMAIN fs.inode, IsDirectory(fs, d)
             PROVE  IF fs.inode[d].links = 0 THEN fs.inode[d].parent = None /\ Empty(fs, d)
                    ELSE /\ fs.root \in Ancestors(fs, d)
                         /\ d # fs.root => \E n \in Names : <<d, fs.inode[d].parent, n>> \in fs.back
  BY DEF TreeSound
<1>2. d \in Dirs(fs) /\ fs.inode[d].links \in Nat
  BY <1>1, TreeParts DEF IsDirectory, Dirs, Records
<1>3. CASE fs.inode[d].links = 0
  <2>1. Empty(fs, d)
    <3> SUFFICES ASSUME NEW n \in Names, <<d, n>> \in DOMAIN fs.entry PROVE FALSE
      BY DEF Empty, Listed
    <3>1. fs.inode[d].links > 0
      BY <1>1 DEF SoundEntries
    <3> QED
      BY <1>3, <3>1
  <2> QED
    BY <1>1, <1>2, <1>3, <2>1 DEF SoundDirs
<1>4. CASE fs.inode[d].links # 0
  <2>1. fs.root \in Ancestors(fs, d)
    BY <1>1, <1>2, <1>4, RootAbove
  <2> QED
    BY <1>1, <1>2, <1>4, <2>1 DEF SoundDirs
<1> QED
  BY <1>3, <1>4

LEMMA QuotaHolds ==
  ASSUME SessionsSound
  PROVE  QuotaExact
<1>1. IsTree(fs) /\ fs.bytes = Total(fs)
  BY DEF SessionsSound, Settled, Sound, Ground, SoundBytes, Total
<1> QED
  BY <1>1, QuotaIs DEF QuotaExact

\* Links, arena, tree and quota agree in every state of the specification, for any
\* names, sessions, fids and limits (insert, remove_at, rename_at, release_fid).
THEOREM NamespaceSoundAlways ==
  Spec => []NamespaceSound
<1>1. SessionsSound => NamespaceSound
  BY LinksHold, ArenaHolds, TreeHolds, QuotaHolds DEF NamespaceSound
<1> QED
  BY <1>1, SessionsSoundAlways, PTL

-----------------------------------------------------------------------------
(* The locks implement ByteLocks.                                          *)

FilesOf(t) == {i \in DOMAIN t.inode : IsFile(t, i)}

\* The abstract steps, over the locked bytes and the files.
LEMMA PromiseSteps ==
  /\ Covered(fs.locks) = {} /\ FilesOf(fs) = {} => Promise!Init
  /\ \A S \in SUBSET Sessions :
       /\ FilesOf(fs') \subseteq Inodes
       /\ Covered(fs'.locks) = {h \in Covered(fs.locks) : h.session \notin S /\ h.inode \in FilesOf(fs')}
       => Promise!Next
  /\ \A r \in Ranges :
       /\ FilesOf(fs') = FilesOf(fs) /\ r.inode \in FilesOf(fs)
       /\ r.start \in 0 .. LastByte /\ LockEnd(r) - 1 \in r.start .. LastByte
       /\ \/ Covered(fs'.locks) = {h \in Covered(fs.locks) : ~Taken(h, r)}
          \/ /\ Covered(fs'.locks)
                  = {h \in Covered(fs.locks) : ~Taken(h, r)} \cup {Grip(r, b) : b \in Span(r)}
             /\ \A h \in Covered(fs.locks) : h.inode = r.inode /\ h.owner # r.owner /\ h.byte \in Span(r)
                                               => h.kind = "read" /\ r.kind = "read"
       => Promise!Next
<1>1. LockedBytes = Covered(fs.locks) /\ LockedBytes' = Covered(fs'.locks)
  BY DEF LockedBytes, Covered, Grip, Span
<1>2. Covered(fs.locks) = {} /\ FilesOf(fs) = {} => Promise!Init
  BY <1>1 DEF Promise!Init, FilesOf
<1>3. ASSUME NEW S \in SUBSET Sessions, FilesOf(fs') \subseteq Inodes,
             Covered(fs'.locks) = {h \in Covered(fs.locks) : h.session \notin S /\ h.inode \in FilesOf(fs')}
      PROVE  Promise!Next
  <2>1. Promise!Forget(S)
    BY <1>1, <1>3 DEF Promise!Forget, FilesOf
  <2> QED
    BY <2>1 DEF Promise!Next
<1>4. ASSUME NEW r \in Ranges, FilesOf(fs') = FilesOf(fs), r.inode \in FilesOf(fs),
             r.start \in 0 .. LastByte, LockEnd(r) - 1 \in r.start .. LastByte
      PROVE  /\ Covered(fs'.locks) = {h \in Covered(fs.locks) : ~Taken(h, r)} => Promise!Next
             /\ /\ Covered(fs'.locks)
                     = {h \in Covered(fs.locks) : ~Taken(h, r)} \cup {Grip(r, b) : b \in Span(r)}
                /\ \A h \in Covered(fs.locks) : h.inode = r.inode /\ h.owner # r.owner /\ h.byte \in Span(r)
                                                  => h.kind = "read" /\ r.kind = "read"
                => Promise!Next
  <2> DEFINE lo == r.start
             hi == LockEnd(r) - 1
  <2>1. r.owner \in Owners /\ r.kind \in {"read", "write"} /\ r.session \in Sessions
    BY DEF Ranges
  <2>2. Covered(fs.locks) \ Promise!Span(r.inode, r.owner, lo, hi) = {h \in Covered(fs.locks) : ~Taken(h, r)}
    BY <1>1 DEF Promise!Span, Taken, Span
  <2>3. ASSUME Covered(fs'.locks) = {h \in Covered(fs.locks) : ~Taken(h, r)} PROVE Promise!Next
    <3>1. Promise!Release(r.inode, r.owner, lo, hi)
      BY <1>1, <1>4, <2>2, <2>3 DEF Promise!Release, FilesOf
    <3> QED
      BY <1>4, <2>1, <3>1 DEF Promise!Next, FilesOf
  <2>4. ASSUME Covered(fs'.locks)
                 = {h \in Covered(fs.locks) : ~Taken(h, r)} \cup {Grip(r, b) : b \in Span(r)},
               \A h \in Covered(fs.locks) : h.inode = r.inode /\ h.owner # r.owner /\ h.byte \in Span(r)
                                              => h.kind = "read" /\ r.kind = "read"
        PROVE  Promise!Next
    <3>1. Promise!Acquire(r.inode, r.owner, r.kind, r.session, lo, hi)
      BY <1>1, <1>4, <2>2, <2>4 DEF Promise!Acquire, FilesOf, Grip, Span
    <3> QED
      BY <1>4, <2>1, <3>1 DEF Promise!Next, FilesOf
  <2> QED
    BY <2>3, <2>4
<1> QED
  BY <1>2, <1>3, <1>4

LEMMA LocksForgotten ==
  ASSUME NEW t, NEW u, Sound(t), Sound(u), NEW S \in SUBSET Sessions, Evolves(t, u, S)
  PROVE  Covered(u.locks) = {h \in Covered(t.locks) : h.session \notin S /\ h.inode \in FilesOf(u)}
<1>1. u.locks = {l \in t.locks : l.session \notin S /\ l.inode \in DOMAIN u.inode}
  BY DEF Evolves
<1>2. ASSUME NEW l \in t.locks PROVE l.inode \in DOMAIN u.inode <=> l.inode \in FilesOf(u)
  <2>1. l.inode \in DOMAIN t.inode /\ t.inode[l.inode].kind = "file"
    BY DEF Sound, Ground, SoundLocks
  <2> QED
    BY <2>1 DEF Evolves, FilesOf, IsFile, Exists
<1>3. ASSUME NEW h, h \in Covered(u.locks)
      PROVE  h \in Covered(t.locks) /\ h.session \notin S /\ h.inode \in FilesOf(u)
  <2>1. PICK l \in u.locks : \E b \in Span(l) : h = Grip(l, b)
    BY <1>3, CoveredIs
  <2>2. l \in t.locks /\ l.session \notin S /\ l.inode \in FilesOf(u)
    BY <1>1, <1>2
  <2>3. h.session = l.session /\ h.inode = l.inode
    BY <2>1, GripIs
  <2> QED
    BY <2>1, <2>2, <2>3, CoveredIs
<1>4. ASSUME NEW h, h \in Covered(t.locks), h.session \notin S, h.inode \in FilesOf(u)
      PROVE  h \in Covered(u.locks)
  <2>1. PICK l \in t.locks : \E b \in Span(l) : h = Grip(l, b)
    BY <1>4, CoveredIs
  <2>2. h.session = l.session /\ h.inode = l.inode
    BY <2>1, GripIs
  <2>3. l \in u.locks
    BY <1>1, <1>2, <1>4, <2>2
  <2> QED
    BY <2>1, <2>3, CoveredIs
<1> QED
  BY <1>3, <1>4

LEMMA LocksTaken ==
  ASSUME NEW t, Sound(t), NEW r \in Ranges
  PROVE  /\ Covered(Subtracted(t, r)) = {h \in Covered(t.locks) : ~Taken(h, r)}
         /\ Covered(Subtracted(t, r) \cup {r})
              = {h \in Covered(t.locks) : ~Taken(h, r)} \cup {Grip(r, b) : b \in Span(r)}
         /\ ~Conflicts(t, r) =>
              \A h \in Covered(t.locks) : h.inode = r.inode /\ h.owner # r.owner /\ h.byte \in Span(r)
                                            => h.kind = "read" /\ r.kind = "read"
<1>1. t.locks \subseteq Ranges
  BY TreeParts DEF Sound, Ground
<1>2. Covered(Subtracted(t, r)) = {h \in Covered(t.locks) : ~Taken(h, r)}
  BY <1>1, SubtractedIs
<1>3. Covered(Subtracted(t, r) \cup {r}) = Covered(Subtracted(t, r)) \cup {Grip(r, b) : b \in Span(r)}
  BY DEF Covered
<1>4. ASSUME ~Conflicts(t, r), NEW h \in Covered(t.locks),
             h.inode = r.inode, h.owner # r.owner, h.byte \in Span(r)
      PROVE  h.kind = "read" /\ r.kind = "read"
  <2>1. PICK l \in t.locks : \E b \in Span(l) : h = Grip(l, b)
    BY <1>4, CoveredIs
  <2>2. PICK b \in Span(l) : h = Grip(l, b)
    BY <2>1
  <2>3. h.inode = l.inode /\ h.owner = l.owner /\ h.byte = b /\ h.kind = l.kind
    BY <2>2, GripIs
  <2>4. l \in Ranges /\ Overlap(l, r)
    BY <1>1, <1>4, <2>2, <2>3, OverlapIs
  <2>5. "write" \notin {l.kind, r.kind}
    BY <1>4, <2>3, <2>4 DEF Conflicts
  <2>6. l.kind \in {"read", "write"} /\ r.kind \in {"read", "write"}
    BY <2>4 DEF Ranges
  <2> QED
    BY <2>3, <2>5, <2>6
<1> QED
  BY <1>2, <1>3, <1>4

\* The list of ranges means one lock per byte and owner: try_lock, unlock, the release
\* of sessions and the reclaiming of files do what ByteLocks says.
THEOREM LocksImplementedAlways ==
  Spec => LocksImplemented
<1>1. Init => Promise!Init
  <2> SUFFICES ASSUME Init PROVE Promise!Init
    OBVIOUS
  <2>1. SessionsSound
    BY InitSound
  <2>2. fs.locks = {}
    BY <2>1 DEF SessionsSound, HaltedSessionsClosed, Init
  <2>3. FilesOf(fs) = {}
    <3> DEFINE u == Fresh(1, 1, FALSE)
    <3>1. u.inode = [i \in {1} |-> NewInode("directory", None, 0)]
      BY DEF Fresh
    <3>2. fs = u
      BY DEF Init
    <3>3. NewInode("directory", None, 0).kind = "directory"
      BY DEF NewInode
    <3> HIDE DEF u
    <3>4. u.inode[1].kind = "directory" /\ DOMAIN u.inode = {1}
      BY <3>1, <3>3
    <3>5. ~\E i \in DOMAIN u.inode : u.inode[i].kind = "file"
      BY <3>4
    <3>6. FilesOf(u) = {}
      BY <3>5 DEF FilesOf, IsFile, Exists
    <3> QED
      BY <3>2, <3>6
  <2>4. Covered(fs.locks) = {}
    BY <2>2 DEF Covered
  <2> QED
    BY <2>3, <2>4, PromiseSteps
<1>2. ASSUME SessionsSound, SessionsSound', Proceeds(fs, fs') PROVE Promise!Next
  <2>1. Sound(fs) /\ Sound(fs')
    BY <1>2 DEF SessionsSound, Settled
  <2>2. FilesOf(fs') \subseteq Inodes
    BY <2>1, TreeParts DEF Sound, Ground, FilesOf
  <2>3. CASE \E S \in SUBSET Sessions : Evolves(fs, fs', S)
    <3>1. PICK S \in SUBSET Sessions : Evolves(fs, fs', S)
      BY <2>3
    <3>2. Covered(fs'.locks) = {h \in Covered(fs.locks) : h.session \notin S /\ h.inode \in FilesOf(fs')}
      BY <2>1, <3>1, LocksForgotten
    <3> QED
      BY <2>2, <3>2, PromiseSteps
  <2>4. CASE Relocked(fs, fs')
    <3>1. PICK r \in Ranges :
            /\ r.inode \in DOMAIN fs.inode /\ fs.inode[r.inode].kind = "file"
            /\ \/ ~Conflicts(fs, r) /\ fs'.locks = Subtracted(fs, r) \cup {r}
               \/ fs'.locks = Subtracted(fs, r)
      BY <2>4 DEF Relocked
    <3>2. FilesOf(fs') = FilesOf(fs)
      BY <2>4 DEF Relocked, FilesOf, IsFile, Exists
    <3>3. r.inode \in FilesOf(fs)
      BY <3>1 DEF FilesOf, IsFile, Exists
    <3>4. r.start \in 0 .. LastByte /\ LockEnd(r) - 1 \in r.start .. LastByte
      <4>1. r.start \in 0 .. LastByte /\ LockEnd(r) \in r.start + 1 .. LastByte + 1 /\ LastByte \in Nat
        BY LockEndIs
      <4> QED
        BY <4>1
    <3>5. \/ Covered(fs'.locks) = {h \in Covered(fs.locks) : ~Taken(h, r)}
          \/ /\ Covered(fs'.locks)
                  = {h \in Covered(fs.locks) : ~Taken(h, r)} \cup {Grip(r, b) : b \in Span(r)}
             /\ \A h \in Covered(fs.locks) : h.inode = r.inode /\ h.owner # r.owner /\ h.byte \in Span(r)
                                               => h.kind = "read" /\ r.kind = "read"
      <4>1. CASE fs'.locks = Subtracted(fs, r)
        <5>1. Covered(Subtracted(fs, r)) = {h \in Covered(fs.locks) : ~Taken(h, r)}
          BY <2>1, LocksTaken
        <5> QED
          BY <4>1, <5>1
      <4>2. CASE ~Conflicts(fs, r) /\ fs'.locks = Subtracted(fs, r) \cup {r}
        <5>1. Covered(Subtracted(fs, r) \cup {r})
                = {h \in Covered(fs.locks) : ~Taken(h, r)} \cup {Grip(r, b) : b \in Span(r)}
          BY <2>1, LocksTaken
        <5>2. \A h \in Covered(fs.locks) : h.inode = r.inode /\ h.owner # r.owner /\ h.byte \in Span(r)
                                              => h.kind = "read" /\ r.kind = "read"
          BY <2>1, <4>2, LocksTaken
        <5> QED
          BY <4>2, <5>1, <5>2
      <4> QED
        BY <3>1, <4>1, <4>2
    <3> QED
      BY <3>2, <3>3, <3>4, <3>5, PromiseSteps
  <2>5. CASE Renewed(fs, fs')
    <3>1. Covered(fs'.locks) = {h \in Covered(fs.locks) : h.session \notin {} /\ h.inode \in FilesOf(fs')}
      BY <2>5 DEF Renewed, Covered
    <3>2. {} \in SUBSET Sessions
      OBVIOUS
    <3> QED
      BY <2>2, <3>1, <3>2, PromiseSteps
  <2> QED
    BY <1>2, <2>3, <2>4, <2>5 DEF Proceeds
<1>3. SessionsSound /\ SessionsSound' /\ [Next]_vars
        => [Promise!Next]_<<LockedBytes, {i \in DOMAIN fs.inode : IsFile(fs, i)}>>
  BY <1>2, NextSound
<1> QED
  BY <1>1, <1>3, SessionsSoundAlways, PTL DEF Spec, LocksImplemented, Promise!Spec

=============================================================================
