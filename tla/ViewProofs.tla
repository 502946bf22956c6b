------------------------------ MODULE ViewProofs ----------------------------
(***************************************************************************)
(* Proofs about the two views of the file tree from outside it (NineP): a  *)
(* host listener's list, kept from the change records, and a guest's       *)
(* listing of a directory, read in pieces by its cookies.                  *)
(*                                                                         *)
(* Every operation is shown to tell enough: whoever has the right list and *)
(* is told of the records still under way has the right list afterwards    *)
(* (Told), and the entries it leaves in a directory are old ones with      *)
(* their cookies, or come after all the others (Lists).                    *)
(***************************************************************************)
EXTENDS NinePProofs

-----------------------------------------------------------------------------
(* Paths.                                                                  *)

\* at is where a lookup of p has come to after each of its names.
Goes(t, p, at) ==
  /\ at \in [0 .. Len(p) -> 0 .. LastInode]
  /\ at[0] = t.root
  /\ \A k \in 1 .. Len(p) : at[k] = Child(t, at[k - 1], p[k])

LEMMA ChildType ==
  ASSUME NEW t, IsTree(t), NEW d, NEW n
  PROVE  Child(t, d, n) \in 0 .. LastInode
<1>1. t.entry \in [DOMAIN t.entry -> Inodes]
  BY TreeParts
<1>2. \A x \in DOMAIN t.entry : t.entry[x] \in 0 .. LastInode
  BY <1>1, NamespaceAssumption DEF Inodes
<1>3. None \in 0 .. LastInode
  BY NamespaceAssumption DEF None
<1> QED
  BY <1>2, <1>3 DEF Child, Listed

LEMMA LookupGoes ==
  ASSUME NEW t, IsTree(t), NEW p \in Seq(Names)
  PROVE  \E at : Goes(t, p, at) /\ Lookup(t, p) = at[Len(p)]
<1> DEFINE m == Len(p)
           S == 0 .. LastInode
           F(f) == [k \in 0 .. m |-> IF k = 0 THEN t.root ELSE Child(t, f[k - 1], p[k])]
           iter == CHOOSE f : f = F(f)
           step == [k \in 1 .. m |-> [d \in S |-> Child(t, d, p[k])]]
<1>1. Lookup(t, p) = iter[m]
  BY DEF Lookup
<1>2. m \in Nat /\ t.root \in S
  <2>1. t.root \in Inodes
    BY TreeParts
  <2> QED
    BY <2>1, NamespaceAssumption DEF Inodes
<1>3. step \in [1 .. m -> [S -> S]]
  <2> HIDE DEF S, m
  <2>1. \A d, n : Child(t, d, n) \in S
    BY ChildType DEF S
  <2> QED
    BY <2>1
<1> HIDE DEF S, m
<1>4. PICK f : Follows(f, m, S, t.root, step)
  <2> HIDE DEF step
  <2> QED
    BY <1>2, <1>3, Recursion
<1>5. /\ f \in [0 .. m -> S] /\ f[0] = t.root
      /\ \A k \in 1 .. m : f[k] = Child(t, f[k - 1], p[k])
  <2>1. f \in [0 .. m -> S] /\ f[0] = t.root
    BY <1>4 DEF Follows
  <2>2. ASSUME NEW k \in 1 .. m PROVE f[k] = Child(t, f[k - 1], p[k])
    <3>1. f[k] = step[k][f[k - 1]]
      BY <1>4 DEF Follows
    <3>2. k - 1 \in 0 .. m
      BY <1>2
    <3>3. f[k - 1] \in S
      BY <2>1, <3>2
    <3> QED
      BY <3>1, <3>3
  <2> QED
    BY <2>1, <2>2
<1>6. f = F(f)
  <2>1. \A k \in 0 .. m : f[k] = IF k = 0 THEN t.root ELSE Child(t, f[k - 1], p[k])
    <3> SUFFICES ASSUME NEW k \in 0 .. m, k # 0 PROVE f[k] = Child(t, f[k - 1], p[k])
      BY <1>5
    <3>1. k \in 1 .. m
      BY <1>2
    <3> QED
      BY <1>5, <3>1
  <2>2. f = [k \in 0 .. m |-> f[k]]
    BY <1>5
  <2> QED
    BY <2>1, <2>2
<1>7. iter = F(iter)
  <2>1. \E g : g = F(g)
    BY <1>6
  <2> HIDE DEF F
  <2> QED
    BY <2>1, Zenon
<1> HIDE DEF iter
<1>8. \A k \in 0 .. m : iter[k] = f[k]
  <2> DEFINE Q == {k \in 0 .. m : iter[k] = f[k]}
  <2>1. \A k \in 0 .. m : iter[k] = IF k = 0 THEN t.root ELSE Child(t, iter[k - 1], p[k])
    BY <1>7
  <2>2. 0 \in Q
    <3>1. 0 \in 0 .. m
      BY <1>2
    <3> QED
      BY <1>5, <2>1, <3>1
  <2>3. ASSUME NEW k \in 0 .. m - 1, k \in Q PROVE k + 1 \in Q
    <3>1. k + 1 \in 1 .. m /\ k + 1 \in 0 .. m /\ k + 1 # 0 /\ (k + 1) - 1 = k
      BY <1>2
    <3>2. iter[k + 1] = Child(t, iter[k], p[k + 1])
      BY <2>1, <3>1
    <3>3. f[k + 1] = Child(t, f[k], p[k + 1])
      BY <1>5, <3>1
    <3> QED
      BY <2>3, <3>1, <3>2, <3>3
  <2> HIDE DEF Q
  <2>4. \A k \in 0 .. m : k \in Q
    BY <1>2, <2>2, <2>3, InductionUpTo
  <2> QED
    BY <2>4 DEF Q
<1>9. iter[m] = f[m]
  <2>1. m \in 0 .. m
    BY <1>2
  <2> QED
    BY <1>8, <2>1
<1>10. Goes(t, p, f)
  BY <1>5 DEF Goes, S, m
<1> QED
  BY <1>1, <1>9, <1>10 DEF m

LEMMA GoesOnce ==
  ASSUME NEW t, NEW p \in Seq(Names), NEW a, Goes(t, p, a), NEW b, Goes(t, p, b)
  PROVE  a[Len(p)] = b[Len(p)]
<1> DEFINE Q == {k \in 0 .. Len(p) : a[k] = b[k]}
<1>1. Len(p) \in Nat
  OBVIOUS
<1>2. 0 \in Q
  BY <1>1 DEF Goes
<1>3. ASSUME NEW k \in 0 .. Len(p) - 1, k \in Q PROVE k + 1 \in Q
  <2>1. k + 1 \in 1 .. Len(p) /\ k + 1 \in 0 .. Len(p) /\ (k + 1) - 1 = k
    BY <1>1
  <2>2. a[k + 1] = Child(t, a[k], p[k + 1]) /\ b[k + 1] = Child(t, b[k], p[k + 1])
    BY <2>1 DEF Goes
  <2> QED
    BY <1>3, <2>1, <2>2
<1> HIDE DEF Q
<1>4. \A k \in 0 .. Len(p) : k \in Q
  BY <1>1, <1>2, <1>3, InductionUpTo
<1>5. Len(p) \in 0 .. Len(p)
  BY <1>1
<1> QED
  BY <1>4, <1>5 DEF Q

\* The empty path leads to the root, and every other one a name further than its front.
LEMMA LookupRoot ==
  ASSUME NEW t, IsTree(t)
  PROVE  Lookup(t, <<>>) = t.root
<1>1. <<>> \in Seq(Names) /\ Len(<<>>) = 0
  OBVIOUS
<1>2. PICK at : Goes(t, <<>>, at) /\ Lookup(t, <<>>) = at[Len(<<>>)]
  BY <1>1, LookupGoes
<1> QED
  BY <1>1, <1>2 DEF Goes

LEMMA LookupNext ==
  ASSUME NEW t, IsTree(t), NEW p \in Seq(Names), NEW n \in Names
  PROVE  Lookup(t, Append(p, n)) = Child(t, Lookup(t, p), n)
<1> DEFINE q == Append(p, n)
           m == Len(p)
<1>1. /\ q \in Seq(Names) /\ Len(q) = m + 1 /\ q[m + 1] = n /\ m \in Nat
      /\ \A k \in 1 .. m : q[k] = p[k]
  <2>1. DOMAIN p = 1 .. Len(p)
    OBVIOUS
  <2> QED
    BY <2>1, AppendPlaces
<1> HIDE DEF q
<1>2. PICK at : Goes(t, q, at) /\ Lookup(t, q) = at[Len(q)]
  BY <1>1, LookupGoes
<1> DEFINE b == [k \in 0 .. m |-> at[k]]
<1> HIDE DEF m
<1>3. Goes(t, p, b)
  <2>1. at \in [0 .. m + 1 -> 0 .. LastInode] /\ at[0] = t.root
        /\ \A k \in 1 .. m + 1 : at[k] = Child(t, at[k - 1], q[k])
    BY <1>1, <1>2 DEF Goes
  <2>2. b \in [0 .. m -> 0 .. LastInode] /\ b[0] = t.root
    <3>1. \A k \in 0 .. m : k \in 0 .. m + 1
      BY <1>1
    <3>2. 0 \in 0 .. m
      BY <1>1
    <3> QED
      BY <2>1, <3>1, <3>2
  <2>3. ASSUME NEW k \in 1 .. m PROVE b[k] = Child(t, b[k - 1], p[k])
    <3>1. k \in 1 .. m + 1 /\ k \in 0 .. m /\ k - 1 \in 0 .. m
      BY <1>1
    <3> QED
      BY <1>1, <2>1, <3>1
  <2> HIDE DEF b
  <2> QED
    BY <2>2, <2>3 DEF Goes, m
<1>4. PICK c : Goes(t, p, c) /\ Lookup(t, p) = c[Len(p)]
  BY LookupGoes
<1>5. Lookup(t, p) = b[m]
  BY <1>3, <1>4, GoesOnce DEF m
<1>6. b[m] = at[m] /\ m + 1 \in 1 .. m + 1 /\ (m + 1) - 1 = m
  BY <1>1
<1>7. at[m + 1] = Child(t, at[m], n)
  BY <1>1, <1>2, <1>6 DEF Goes
<1> QED
  BY <1>1, <1>2, <1>5, <1>6, <1>7 DEF q

LEMMA LookupType ==
  ASSUME NEW t, IsTree(t), NEW p \in Seq(Names)
  PROVE  Lookup(t, p) \in 0 .. LastInode
<1>1. PICK at : Goes(t, p, at) /\ Lookup(t, p) = at[Len(p)]
  BY LookupGoes
<1>2. Len(p) \in 0 .. Len(p)
  OBVIOUS
<1> QED
  BY <1>1, <1>2 DEF Goes

\* A path is empty or has a last name.
LEMMA PathEnds ==
  ASSUME NEW p \in Seq(Names), p # <<>>
  PROVE  /\ Front(p) \in Seq(Names) /\ Last(p) \in Names /\ p = Append(Front(p), Last(p))
         /\ Len(Front(p)) = Len(p) - 1 /\ Len(p) \in Nat \ {0}
<1> DEFINE m == Len(p)
           f == Front(p)
<1>1. m \in Nat /\ m # 0 /\ p \in [1 .. m -> Names]
  OBVIOUS
<1>2. Last(p) \in Names /\ Last(p) = p[m]
  <2>1. m \in 1 .. m
    BY <1>1
  <2> HIDE DEF m
  <2> QED
    BY <1>1, <2>1 DEF Last, m
<1>3. f \in Seq(Names) /\ Len(f) = m - 1 /\ \A i \in 1 .. m - 1 : f[i] = p[i]
  BY <1>1 DEF Front
<1> HIDE DEF f, m
<1>4. p = Append(f, p[m])
  <2>1. /\ Append(f, p[m]) \in Seq(Names) /\ Len(Append(f, p[m])) = m
        /\ \A i \in 1 .. m - 1 : Append(f, p[m])[i] = f[i]
        /\ Append(f, p[m])[m] = p[m]
    <3>1. Len(f) + 1 = m /\ p[m] \in Names
      BY <1>1, <1>2, <1>3
    <3> QED
      BY <1>3, <3>1, AppendProperties
  <2>2. \A i \in 1 .. m : Append(f, p[m])[i] = p[i]
    <3> SUFFICES ASSUME NEW i \in 1 .. m PROVE Append(f, p[m])[i] = p[i]
      OBVIOUS
    <3>1. i = m \/ i \in 1 .. m - 1
      BY <1>1
    <3> QED
      BY <1>3, <2>1, <3>1
  <2>3. Len(p) = m
    BY DEF m
  <2> QED
    BY <2>1, <2>2, <2>3, SeqEqual
<1> QED
  BY <1>1, <1>2, <1>3, <1>4 DEF f, m

\* Induction over paths, for the ones that form the set Q.
LEMMA PathInduction ==
  ASSUME NEW Q, <<>> \in Q, \A p \in Seq(Names), n \in Names : p \in Q => Append(p, n) \in Q
  PROVE  \A p \in Seq(Names) : p \in Q
<1> SUFFICES ASSUME NEW r \in Seq(Names) PROVE r \in Q
  OBVIOUS
<1> DEFINE m == Len(r)
           N == {k \in 0 .. m : \A p \in Seq(Names) : Len(p) = k => p \in Q}
<1>1. m \in Nat
  OBVIOUS
<1> HIDE DEF m
<1>2. 0 \in N
  <2>1. \A p \in Seq(Names) : Len(p) = 0 => p = <<>>
    BY EmptySeq
  <2> QED
    BY <1>1, <2>1
<1>3. ASSUME NEW k \in 0 .. m - 1, k \in N PROVE k + 1 \in N
  <2>1. k + 1 \in 0 .. m
    BY <1>1
  <2>2. ASSUME NEW p \in Seq(Names), Len(p) = k + 1 PROVE p \in Q
    <3>1. p # <<>>
      <4>1. Len(p) # 0
        BY <1>1, <2>2
      <4> QED
        BY <4>1
    <3>2. Front(p) \in Seq(Names) /\ Len(Front(p)) = k
      BY <1>1, <2>2, <3>1, PathEnds
    <3>3. Front(p) \in Q
      BY <1>3, <3>2
    <3> QED
      BY <3>1, <3>2, <3>3, PathEnds
  <2> QED
    BY <2>1, <2>2
<1> HIDE DEF N
<1>4. \A k \in 0 .. m : k \in N
  BY <1>1, <1>2, <1>3, InductionUpTo
<1>5. m \in N
  BY <1>1, <1>4
<1> QED
  BY <1>5 DEF N, m

LEMMA PrefixItself ==
  ASSUME NEW p \in Seq(Names)
  PROVE  Below(p, p)
BY DEF Below, IsPrefix

LEMMA PrefixMore ==
  ASSUME NEW s \in Seq(Names), NEW p \in Seq(Names), NEW n \in Names, Below(s, p)
  PROVE  Below(s, Append(p, n))
<1> DEFINE q == Append(p, n)
<1>1. Len(s) \in Nat /\ Len(p) \in Nat /\ Len(s) <= Len(p) /\ SubSeq(s, 1, Len(s)) = SubSeq(p, 1, Len(s))
  BY DEF Below, IsPrefix
<1>2. q \in Seq(Names) /\ Len(q) = Len(p) + 1 /\ \A i \in 1 .. Len(p) : q[i] = p[i]
  OBVIOUS
<1> HIDE DEF q
<1>3. SubSeq(q, 1, Len(s)) = SubSeq(p, 1, Len(s))
  <2>1. \A i \in 1 .. Len(s) : q[i] = p[i]
    BY <1>1, <1>2
  <2> QED
    BY <1>1, <1>2, <2>1
<1>4. Len(s) <= Len(q)
  BY <1>1, <1>2
<1>5. Below(s, q)
  BY <1>1, <1>3, <1>4 DEF Below, IsPrefix
<1> QED
  BY <1>5 DEF q

-----------------------------------------------------------------------------
(* Where paths lead.                                                       *)

\* An entry leads from a directory to something else than the root.
LEMMA ChildIs ==
  ASSUME NEW t, Sound(t), NEW d, NEW n, Child(t, d, n) # None
  PROVE  /\ <<d, n>> \in DOMAIN t.entry /\ Child(t, d, n) = t.entry[<<d, n>>]
         /\ d \in Dirs(t) /\ d \in DOMAIN t.inode /\ t.inode[d].links > 0
         /\ Child(t, d, n) \in DOMAIN t.inode /\ Child(t, d, n) # t.root
<1>1. <<d, n>> \in DOMAIN t.entry /\ Child(t, d, n) = t.entry[<<d, n>>]
  BY DEF Child, Listed
<1>2. /\ <<d, n>>[1] \in Dirs(t) /\ t.inode[<<d, n>>[1]].links > 0
      /\ t.entry[<<d, n>>] \in DOMAIN t.inode /\ t.entry[<<d, n>>] # t.root
  BY <1>1 DEF Sound, Ground, Shaped, SoundEntries
<1> QED
  BY <1>1, <1>2 DEF Dirs

\* None has no entries, and neither has what is not a directory.
LEMMA ChildOfNone ==
  ASSUME NEW t, Sound(t), NEW d, d \notin Dirs(t), NEW n
  PROVE  Child(t, d, n) = None
BY ChildIs

LEMMA NoneIsNot ==
  ASSUME NEW t, Sound(t)
  PROVE  None \notin DOMAIN t.inode /\ None \notin Dirs(t) /\ t.root # None /\ t.root \in Dirs(t)
<1>1. DOMAIN t.inode \subseteq Inodes /\ t.root \in Inodes
  BY TreeParts DEF Sound, Ground
<1>2. t.root \in Dirs(t)
  BY DEF Sound, Ground, Shaped, SoundEntries
<1> QED
  BY <1>1, <1>2 DEF Dirs, Inodes, None

\* A directory has one name.
LEMMA OneName ==
  ASSUME NEW t, Sound(t), NEW x \in DOMAIN t.entry, NEW y \in DOMAIN t.entry,
         t.entry[x] = t.entry[y], t.entry[x] \in Dirs(t)
  PROVE  x = y
<1> DEFINE d == t.entry[x]
           a == <<d, x[1], x[2]>>
           b == <<d, y[1], y[2]>>
<1>1. /\ x = <<x[1], x[2]>> /\ y = <<y[1], y[2]>>
  <2>1. DOMAIN t.entry \subseteq Inodes \X Names
    BY TreeParts DEF Sound, Ground
  <2> QED
    BY <2>1
<1>2. /\ d \in DOMAIN t.inode /\ d # t.root /\ d \in Dirs(t)
  BY DEF Sound, Ground, Shaped, SoundEntries
<1>3. a \in t.back /\ b \in t.back /\ a[1] = d /\ b[1] = d
  BY DEF Sound, Ground, Shaped, SoundLinks
<1>4. IsFiniteSet(t.back)
  BY LinksFinite DEF Sound, Ground, Shaped, SoundEntries, SoundLinks, Recorded
<1>5. Count(t.back, d) = 1
  <2>1. Count(t.back, d) \in Nat /\ Count(t.back, d) # 0
    BY <1>3, <1>4, CountNone
  <2>2. t.inode[d].links = Count(t.back, d) + 0
    BY <1>2 DEF Sound, Ground, Shaped, SoundLinks
  <2> HIDE DEF Count, d
  <2>3. t.inode[d].links # 0
    BY <2>1, <2>2
  <2>4. t.inode[d].links = 1
    BY <1>2, <2>3 DEF Sound, Ground, Shaped, SoundDirs
  <2> QED
    BY <2>1, <2>2, <2>4
<1> HIDE DEF a, b, d
<1>6. /\ IsFiniteSet(t.back \ {a}) /\ Count(t.back \ {a}, d) \in Nat
      /\ Count(t.back, d) = Count(t.back \ {a}, d) + (IF a[1] = d THEN 1 ELSE 0)
  BY <1>3, <1>4, CountTakes
<1>7. IsFiniteSet(t.back \ {a}) /\ Count(t.back \ {a}, d) = 0
  <2> HIDE DEF Count
  <2> QED
    BY <1>3, <1>5, <1>6
<1>8. b \notin t.back \ {a}
  BY <1>3, <1>7, CountNone
<1>9. a = b
  BY <1>3, <1>8
<1>10. x[1] = y[1] /\ x[2] = y[2]
  BY <1>9 DEF a, b
<1> QED
  BY <1>1, <1>10

\* Where the front of a path leads, if the path leads somewhere.
LEMMA FrontIs ==
  ASSUME NEW t, Sound(t), NEW p \in Seq(Names), NEW n \in Names, Lookup(t, Append(p, n)) # None
  PROVE  LET d == Lookup(t, p)
         IN /\ <<d, n>> \in DOMAIN t.entry /\ Lookup(t, Append(p, n)) = t.entry[<<d, n>>]
            /\ d \in Dirs(t) /\ d \in DOMAIN t.inode
            /\ Lookup(t, Append(p, n)) \in DOMAIN t.inode /\ Lookup(t, Append(p, n)) # t.root
<1>1. Lookup(t, Append(p, n)) = Child(t, Lookup(t, p), n)
  BY LookupNext DEF Sound, Ground
<1> QED
  BY <1>1, ChildIs

\* A directory has one path.
LEMMA OnePath ==
  ASSUME NEW t, Sound(t)
  PROVE  \A p \in Seq(Names) : Lookup(t, p) \in Dirs(t) =>
           \A q \in Seq(Names) : Lookup(t, q) = Lookup(t, p) => q = p
<1> DEFINE Q == {p \in Seq(Names) : Lookup(t, p) \in Dirs(t) =>
                   \A q \in Seq(Names) : Lookup(t, q) = Lookup(t, p) => q = p}
<1>1. <<>> \in Q
  <2>1. Lookup(t, <<>>) = t.root /\ <<>> \in Seq(Names)
    BY LookupRoot DEF Sound, Ground
  <2>2. ASSUME NEW q \in Seq(Names), Lookup(t, q) = t.root PROVE q = <<>>
    <3> SUFFICES ASSUME q # <<>> PROVE FALSE
      OBVIOUS
    <3>1. Front(q) \in Seq(Names) /\ Last(q) \in Names /\ q = Append(Front(q), Last(q))
      BY PathEnds
    <3>2. Lookup(t, q) # None
      BY <2>2, NoneIsNot
    <3> QED
      BY <2>2, <3>1, <3>2, FrontIs
  <2> QED
    BY <2>1, <2>2
<1>2. ASSUME NEW p \in Seq(Names), NEW n \in Names, p \in Q PROVE Append(p, n) \in Q
  <2> DEFINE r == Append(p, n)
             d == Lookup(t, p)
  <2>1. r \in Seq(Names)
    OBVIOUS
  <2>2. ASSUME Lookup(t, r) \in Dirs(t), NEW q \in Seq(Names), Lookup(t, q) = Lookup(t, r)
        PROVE  q = r
    <3>1. Lookup(t, r) # None
      BY <2>2, NoneIsNot
    <3>2. /\ <<d, n>> \in DOMAIN t.entry /\ Lookup(t, r) = t.entry[<<d, n>>]
          /\ d \in Dirs(t) /\ Lookup(t, r) # t.root
      BY <3>1, FrontIs
    <3>3. q # <<>>
      BY <2>2, <3>2, LookupRoot DEF Sound, Ground
    <3> DEFINE f == Front(q)
               m == Last(q)
               e == Lookup(t, f)
    <3>4. f \in Seq(Names) /\ m \in Names /\ q = Append(f, m)
      BY <3>3, PathEnds
    <3>5. <<e, m>> \in DOMAIN t.entry /\ Lookup(t, q) = t.entry[<<e, m>>]
      BY <2>2, <3>1, <3>4, FrontIs
    <3>6. <<e, m>> = <<d, n>>
      BY <2>2, <3>2, <3>5, OneName
    <3>7. e = d /\ m = n
      BY <3>6
    <3>8. f = p
      BY <1>2, <3>2, <3>4, <3>7
    <3> QED
      BY <3>4, <3>7, <3>8
  <2> QED
    BY <2>1, <2>2
<1> HIDE DEF Q
<1>3. \A p \in Seq(Names) : p \in Q
  BY <1>1, <1>2, PathInduction
<1> QED
  BY <1>3 DEF Q


-----------------------------------------------------------------------------
(* What the listener knows.                                                *)

ChangeKinds == {"create", "remove", "rename", "write", "metadata", "reset", "rescan"}
Steps == Seq(Names) \ {<<>>}

\* Notifications; what is created has a name.
Notes == {c \in [kind : ChangeKinds, inode : 0 .. LastInode, path : Seq(Names), old : Seq(Names)] :
            c.kind = "create" => c.path # <<>> /\ c.inode # None}

\* What c says of the path p, and whether it is so where p leads to i: after a rename
\* and after a reset the listener reads the tree again.
Touches(c, p) ==
  \/ c.kind \in {"create", "remove"} /\ c.path = p
  \/ c.kind = "rename" /\ (Below(c.path, p) \/ Below(c.old, p))
  \/ c.kind \in {"reset", "rescan"}
Fits(c, i) ==
  /\ c.kind = "create" => i = c.inode
  /\ c.kind = "remove" => i = None

\* The view shows that p leads to i.
Shown(view, p, i) == \A x : <<p, x>> \in view <=> x = i /\ i # None
NoneAfter(Q, p, k) == \A m \in DOMAIN Q : k < m => ~Touches(Q[m], p)

\* A listener with this view, to which the notifications Q are on their way, will have
\* the tree t: of each path the view is right or the last one that touches it is.
Tells(view, Q, t) ==
  \A p \in Steps :
    /\ NoneAfter(Q, p, 0) => Shown(view, p, Lookup(t, p))
    /\ \A k \in DOMAIN Q : Touches(Q[k], p) /\ NoneAfter(Q, p, k) => Fits(Q[k], Lookup(t, p))

\* c says what becomes of t with u.
Announces(c, t, u) ==
  \A p \in Steps : IF Touches(c, p) THEN Fits(c, Lookup(u, p)) ELSE Lookup(u, p) = Lookup(t, p)

LEMMA TellsMore ==
  ASSUME NEW view, NEW Q \in Seq(Notes), NEW c \in Notes, NEW t, NEW u,
         Tells(view, Q, t), Announces(c, t, u)
  PROVE  Tells(view, Append(Q, c), u)
<1> DEFINE R == Append(Q, c)
           z == Len(Q) + 1
<1>1. /\ z \in DOMAIN R /\ R[z] = c /\ ~(z < z)
      /\ \A k \in DOMAIN Q : k \in DOMAIN R /\ R[k] = Q[k] /\ k < z /\ ~(z < k)
      /\ \A k \in DOMAIN R : k = z \/ k \in DOMAIN Q
  BY AppendPlaces
<1>2. 0 < z
  OBVIOUS
<1> HIDE DEF R, z
<1> SUFFICES ASSUME NEW p \in Steps
             PROVE  /\ NoneAfter(R, p, 0) => Shown(view, p, Lookup(u, p))
                    /\ \A k \in DOMAIN R : Touches(R[k], p) /\ NoneAfter(R, p, k) => Fits(R[k], Lookup(u, p))
  BY DEF Tells, R
<1>3. CASE Touches(c, p)
  <2>1. Fits(c, Lookup(u, p))
    BY <1>3 DEF Announces
  <2>2. ~NoneAfter(R, p, 0)
    BY <1>1, <1>2, <1>3 DEF NoneAfter
  <2>3. ASSUME NEW k \in DOMAIN R, NoneAfter(R, p, k) PROVE k = z
    BY <1>1, <1>3, <2>3 DEF NoneAfter
  <2> QED
    BY <1>1, <2>1, <2>2, <2>3
<1>4. CASE ~Touches(c, p)
  <2>1. Lookup(u, p) = Lookup(t, p)
    BY <1>4 DEF Announces
  <2>2. ASSUME NEW k, NoneAfter(R, p, k) PROVE NoneAfter(Q, p, k)
    BY <1>1, <2>2 DEF NoneAfter
  <2>3. ASSUME NEW k \in DOMAIN R, Touches(R[k], p) PROVE k \in DOMAIN Q /\ R[k] = Q[k]
    BY <1>1, <1>4, <2>3
  <2> QED
    BY <2>1, <2>2, <2>3 DEF Tells
<1> QED
  BY <1>3, <1>4

\* After a notification that touches everything nothing older matters.
LEMMA TellsAgain ==
  ASSUME NEW view, NEW Q \in Seq(Notes), NEW c \in Notes, c.kind \in {"reset", "rescan"}, NEW u
  PROVE  Tells(view, Append(Q, c), u)
<1> DEFINE R == Append(Q, c)
           z == Len(Q) + 1
<1>1. /\ z \in DOMAIN R /\ R[z] = c /\ ~(z < z)
      /\ \A k \in DOMAIN Q : k \in DOMAIN R /\ R[k] = Q[k] /\ k < z /\ ~(z < k)
      /\ \A k \in DOMAIN R : k = z \/ k \in DOMAIN Q
  BY AppendPlaces
<1>2. 0 < z
  OBVIOUS
<1> HIDE DEF R, z
<1> SUFFICES ASSUME NEW p \in Steps
             PROVE  /\ NoneAfter(R, p, 0) => Shown(view, p, Lookup(u, p))
                    /\ \A k \in DOMAIN R : Touches(R[k], p) /\ NoneAfter(R, p, k) => Fits(R[k], Lookup(u, p))
  BY DEF Tells, R
<1>3. Touches(c, p) /\ Fits(c, Lookup(u, p))
  BY DEF Touches, Fits
<1>4. ~NoneAfter(R, p, 0)
  BY <1>1, <1>2, <1>3 DEF NoneAfter
<1>5. ASSUME NEW k \in DOMAIN R, NoneAfter(R, p, k) PROVE k = z
  BY <1>1, <1>3, <1>5 DEF NoneAfter
<1> QED
  BY <1>1, <1>3, <1>4, <1>5

LEMMA TellsSame ==
  ASSUME NEW view, NEW Q, NEW t, NEW u, Tells(view, Q, t), \A p \in Steps : Lookup(u, p) = Lookup(t, p)
  PROVE  Tells(view, Q, u)
BY DEF Tells

-----------------------------------------------------------------------------
(* Operations and what they announce.                                      *)

\* The queue holds notifications, and nothing follows an invalidation.
Queued(t) ==
  /\ t.changes \in Seq(Notes)
  /\ Invalidated(t) => Len(t.changes) = 1
Compact(t) == Cardinality(DOMAIN t.inode) <= MaxInodes

\* Whoever is told what t has queued, and is right about t with that, is right about u
\* with what u has queued.
Told(t, u) ==
  /\ u.tracking = t.tracking
  /\ Compact(t) => Compact(u)
  /\ Queued(t) => Queued(u)
  /\ Queued(t) /\ t.tracking =>
       \A view : \A Q \in Seq(Notes) : Tells(view, Q \o t.changes, t) => Tells(view, Q \o u.changes, u)

LEMMA ToldFurther ==
  ASSUME NEW t, NEW u, NEW v, Told(t, u), Told(u, v)
  PROVE  Told(t, v)
BY DEF Told

LEMMA RescanIs ==
  Rescan \in Notes /\ Rescan.kind = "rescan"
<1>1. <<>> \in Seq(Names) /\ None \in 0 .. LastInode
  BY NamespaceAssumption DEF None
<1> QED
  BY <1>1 DEF Rescan, Change, Notes, ChangeKinds

\* Emit, where the change says what has become of t.
LEMMA EmitTells ==
  ASSUME NEW t, NEW u, IsTree(u), NEW c, u.changes = t.changes, u.tracking = t.tracking,
         Compact(t) => Compact(u),
         t.tracking => c \in Notes /\ c.kind # "rescan" /\ (c.kind = "reset" \/ Announces(c, t, u))
  PROVE  Told(t, Emit(u, c))
<1> DEFINE v == Emit(u, c)
<1>1. /\ v.tracking = u.tracking /\ v.inode = u.inode /\ v.root = u.root /\ v.entry = u.entry
      /\ IsTree(v)
  BY EmitCore, CoreParts
<1>2. Compact(t) => Compact(v)
  BY <1>1 DEF Compact
<1>3. CASE ~t.tracking
  <2>1. v = u
    BY <1>3 DEF Emit
  <2> QED
    BY <1>2, <1>3, <2>1 DEF Told, Queued, Invalidated
<1>4. CASE t.tracking
  <2>0. c \in Notes /\ c.kind # "rescan"
    BY <1>4
  <2>1. u.tracking
    BY <1>4
  <2>2. CASE Invalidated(u)
    <3>1. v = u
      BY <2>2 DEF Emit
    <3>2. Queued(t) => Queued(v)
      BY <3>1 DEF Queued, Invalidated
    <3>3. ASSUME Queued(t), NEW view, NEW Q \in Seq(Notes) PROVE Tells(view, Q \o v.changes, v)
      <4>1. t.changes \in Seq(Notes) /\ Len(t.changes) = 1 /\ t.changes[1].kind = "rescan"
        BY <2>2, <3>3 DEF Queued, Invalidated
      <4> DEFINE r == t.changes[1]
      <4>2. r \in Notes /\ r.kind \in {"reset", "rescan"}
        BY <4>1
      <4> HIDE DEF r
      <4>3. Q \o t.changes = Append(Q, r)
        <5>1. t.changes = <<r>>
          BY <4>1, <4>2 DEF r
        <5>2. Q \o <<r>> = Append(Q, r)
          BY <3>3, <4>2
        <5> QED
          BY <5>1, <5>2
      <4>4. Tells(view, Append(Q, r), v)
        BY <3>3, <4>2, TellsAgain
      <4> QED
        BY <3>1, <4>3, <4>4
    <3> QED
      BY <1>1, <1>2, <3>2, <3>3 DEF Told
  <2>3. CASE ~Invalidated(u) /\ Len(u.changes) >= MaxChanges
    <3>1. v.changes = <<Rescan>>
      BY <2>1, <2>3 DEF Emit, IsTree, Trees
    <3>2. Queued(v)
      BY <3>1, RescanIs DEF Queued
    <3>3. ASSUME NEW view, NEW Q \in Seq(Notes) PROVE Tells(view, Q \o v.changes, v)
      <4>1. Q \o v.changes = Append(Q, Rescan)
        BY <3>1, <3>3, RescanIs
      <4>2. Tells(view, Append(Q, Rescan), v)
        BY <3>3, RescanIs, TellsAgain
      <4> QED
        BY <4>1, <4>2
    <3> QED
      BY <1>1, <1>2, <3>2, <3>3 DEF Told
  <2>4. CASE ~Invalidated(u) /\ ~(Len(u.changes) >= MaxChanges)
    <3>1. v.changes = Append(t.changes, c)
      BY <2>1, <2>4 DEF Emit, IsTree, Trees
    <3>2. ASSUME Queued(t) PROVE Queued(v)
      <4>1. t.changes \in Seq(Notes) /\ (t.changes = <<>> \/ Head(t.changes).kind # "rescan")
        BY <2>4, <3>2 DEF Queued, Invalidated
      <4>2. v.changes \in Seq(Notes)
        BY <2>0, <3>1, <4>1
      <4>3. CASE t.changes = <<>>
        BY <3>1, <4>1, <4>2, <4>3, <2>0 DEF Queued
      <4>4. CASE t.changes # <<>>
        <5>1. Head(v.changes) = Head(t.changes)
          BY <2>0, <3>1, <4>1, <4>4
        <5> QED
          BY <4>1, <4>2, <4>4, <5>1 DEF Queued, Invalidated
      <4> QED
        BY <4>3, <4>4
    <3>3. ASSUME Queued(t), NEW view, NEW Q \in Seq(Notes), Tells(view, Q \o t.changes, t)
          PROVE  Tells(view, Q \o v.changes, v)
      <4> DEFINE R == Q \o t.changes
      <4>1. t.changes \in Seq(Notes)
        BY <3>3 DEF Queued
      <4>2. R \in Seq(Notes) /\ Q \o v.changes = Append(R, c)
        BY <2>0, <3>1, <3>3, <4>1
      <4> HIDE DEF R
      <4>3. CASE c.kind = "reset"
        BY <2>0, <4>2, <4>3, TellsAgain
      <4>4. CASE Announces(c, t, u)
        <5>1. \A p : Lookup(v, p) = Lookup(u, p)
          BY <1>1 DEF Lookup, Child, Listed
        <5>2. Announces(c, t, v)
          BY <4>4, <5>1 DEF Announces
        <5> QED
          BY <2>0, <3>3, <4>2, <5>2, TellsMore DEF R
      <4> QED
        BY <1>4, <4>3, <4>4
    <3> QED
      BY <1>1, <1>2, <3>2, <3>3 DEF Told
  <2> QED
    BY <2>2, <2>3, <2>4
<1> QED
  BY <1>3, <1>4


-----------------------------------------------------------------------------
(* Entries and paths.                                                      *)

LEMMA AppendOnce ==
  ASSUME NEW p \in Seq(Names), NEW a \in Names, NEW q \in Seq(Names), NEW n \in Names,
         Append(p, a) = Append(q, n)
  PROVE  p = q /\ a = n
<1>1. /\ Front(Append(p, a)) = p /\ Last(Append(p, a)) = a
      /\ Front(Append(q, n)) = q /\ Last(Append(q, n)) = n
  BY DEF Front, Last
<1> QED
  BY <1>1

\* The entry n of d changes, and what it led to and what it leads to have no entries.
LEMMA EntryChanges ==
  ASSUME NEW t, NEW u, Sound(t), IsTree(u), u.root = t.root,
         NEW q \in Seq(Names), NEW n \in Names, NEW d, Lookup(t, q) = d, d \in Dirs(t),
         \A e, a : <<e, a>> # <<d, n>> => Child(u, e, a) = Child(t, e, a),
         \A a : Child(t, Child(t, d, n), a) = None /\ Child(u, Child(u, d, n), a) = None
  PROVE  \A p \in Seq(Names) :
           Lookup(u, p) = IF p = Append(q, n) THEN Child(u, d, n) ELSE Lookup(t, p)
<1> DEFINE Q == {p \in Seq(Names) :
                   Lookup(u, p) = IF p = Append(q, n) THEN Child(u, d, n) ELSE Lookup(t, p)}
<1>0. IsTree(t)
  BY DEF Sound, Ground
<1>1. <<>> \in Q
  <2>1. <<>> # Append(q, n) /\ <<>> \in Seq(Names)
    OBVIOUS
  <2>2. Lookup(u, <<>>) = Lookup(t, <<>>)
    BY <1>0, LookupRoot
  <2> QED
    BY <2>1, <2>2
<1>2. ASSUME NEW p \in Seq(Names), NEW a \in Names, p \in Q PROVE Append(p, a) \in Q
  <2> DEFINE r == Append(p, a)
  <2>1. /\ r \in Seq(Names)
        /\ Lookup(t, r) = Child(t, Lookup(t, p), a)
        /\ Lookup(u, r) = Child(u, Lookup(u, p), a)
    BY <1>0, LookupNext
  <2>2. CASE p = Append(q, n)
    <3>1. r # Append(q, n)
      BY <2>2
    <3>2. Lookup(t, p) = Child(t, d, n)
      BY <1>0, <2>2, LookupNext
    <3>3. Lookup(u, p) = Child(u, d, n)
      BY <1>2, <2>2
    <3> HIDE DEF r
    <3>4. r \in Q
      BY <2>1, <3>1, <3>2, <3>3
    <3> QED
      BY <3>4 DEF r
  <2>3. CASE p # Append(q, n) /\ <<Lookup(t, p), a>> = <<d, n>>
    <3>1. Lookup(t, p) = d /\ a = n
      BY <2>3
    <3>2. p = q
      BY <3>1, OnePath
    <3>3. Lookup(u, p) = Lookup(t, p)
      BY <1>2, <2>3
    <3>4. r = Append(q, n) /\ Lookup(u, r) = Child(u, d, n)
      BY <2>1, <3>1, <3>2, <3>3
    <3> HIDE DEF r
    <3>5. r \in Q
      BY <2>1, <3>4
    <3> QED
      BY <3>5 DEF r
  <2>4. CASE p # Append(q, n) /\ <<Lookup(t, p), a>> # <<d, n>>
    <3>1. Lookup(u, p) = Lookup(t, p)
      BY <1>2, <2>4
    <3>2. r # Append(q, n)
      <4> SUFFICES ASSUME r = Append(q, n) PROVE FALSE
        OBVIOUS
      <4>1. p = q /\ a = n
        BY AppendOnce
      <4> QED
        BY <2>4, <4>1
    <3>3. Child(u, Lookup(t, p), a) = Child(t, Lookup(t, p), a)
      BY <2>4
    <3> HIDE DEF r
    <3>4. r \in Q
      BY <2>1, <3>1, <3>2, <3>3
    <3> QED
      BY <3>4 DEF r
  <2> QED
    BY <2>2, <2>3, <2>4
<1> HIDE DEF Q
<1>3. \A p \in Seq(Names) : p \in Q
  BY <1>1, <1>2, PathInduction
<1> QED
  BY <1>3 DEF Q

\* The entries n of d and m of e change; what is not below them stays.
LEMMA EntriesChange ==
  ASSUME NEW t, NEW u, Sound(t), IsTree(u), u.root = t.root,
         NEW q \in Seq(Names), NEW n \in Names, NEW d, Lookup(t, q) = d, d \in Dirs(t),
         NEW r \in Seq(Names), NEW m \in Names, NEW e, Lookup(t, r) = e, e \in Dirs(t),
         \A x, a : <<x, a>> # <<d, n>> /\ <<x, a>> # <<e, m>> => Child(u, x, a) = Child(t, x, a)
  PROVE  \A p \in Seq(Names) :
           ~Below(Append(q, n), p) /\ ~Below(Append(r, m), p) => Lookup(u, p) = Lookup(t, p)
<1> DEFINE y == Append(q, n)
           z == Append(r, m)
           Q == {p \in Seq(Names) : ~Below(y, p) /\ ~Below(z, p) => Lookup(u, p) = Lookup(t, p)}
<1>0. IsTree(t) /\ y \in Seq(Names) /\ z \in Seq(Names)
  BY DEF Sound, Ground
<1>1. <<>> \in Q
  <2>1. Lookup(u, <<>>) = Lookup(t, <<>>) /\ <<>> \in Seq(Names)
    BY <1>0, LookupRoot
  <2> QED
    BY <2>1
<1>2. ASSUME NEW p \in Seq(Names), NEW a \in Names, p \in Q PROVE Append(p, a) \in Q
  <2> DEFINE s == Append(p, a)
  <2>1. /\ s \in Seq(Names)
        /\ Lookup(t, s) = Child(t, Lookup(t, p), a)
        /\ Lookup(u, s) = Child(u, Lookup(u, p), a)
    BY <1>0, LookupNext
  <2>2. ASSUME ~Below(y, s), ~Below(z, s) PROVE Lookup(u, s) = Lookup(t, s)
    <3>1. ~Below(y, p) /\ ~Below(z, p)
      BY <1>0, <2>2, PrefixMore
    <3>2. Lookup(u, p) = Lookup(t, p)
      BY <1>2, <3>1
    <3>3. s # y /\ s # z
      BY <1>0, <2>2, PrefixItself
    <3>4. <<Lookup(t, p), a>> # <<d, n>>
      <4> SUFFICES ASSUME Lookup(t, p) = d, a = n PROVE FALSE
        OBVIOUS
      <4>1. p = q
        BY OnePath
      <4> QED
        BY <3>3, <4>1
    <3>5. <<Lookup(t, p), a>> # <<e, m>>
      <4> SUFFICES ASSUME Lookup(t, p) = e, a = m PROVE FALSE
        OBVIOUS
      <4>1. p = r
        BY OnePath
      <4> QED
        BY <3>3, <4>1
    <3> HIDE DEF s
    <3> QED
      BY <2>1, <3>2, <3>4, <3>5
  <2> QED
    BY <2>1, <2>2
<1> HIDE DEF Q
<1>3. \A p \in Seq(Names) : p \in Q
  BY <1>1, <1>2, PathInduction
<1> QED
  BY <1>3 DEF Q

-----------------------------------------------------------------------------
(* The path of a directory.                                                *)

\* One step up, and the steps of paths_of.
Rise(t, below) ==
  LET links == {b \in t.back : b[1] = below.top}
  IN IF below.top = t.root \/ links = {} THEN below
     ELSE LET link == CHOOSE b \in links : TRUE
          IN [top |-> link[2], path |-> <<link[3]>> \o below.path]
Places == [top : Inodes, path : Seq(Names)]
Rises(t, d, up) ==
  /\ up \in [0 .. MaxInodes -> Places]
  /\ up[0] = [top |-> d, path |-> <<>>]
  /\ \A k \in 1 .. MaxInodes : up[k] = Rise(t, up[k - 1])

LEMMA RiseType ==
  ASSUME NEW t, IsTree(t), NEW x \in Places
  PROVE  /\ Rise(t, x) \in Places
         /\ \/ Rise(t, x) = x /\ (x.top = t.root \/ \A b \in t.back : b[1] # x.top)
            \/ x.top # t.root /\ \E b \in t.back : b[1] = x.top /\ Rise(t, x) = [top |-> b[2], path |-> <<b[3]>> \o x.path]
<1> DEFINE links == {b \in t.back : b[1] = x.top}
<1>1. CASE x.top = t.root \/ links = {}
  <2>1. Rise(t, x) = x
    BY <1>1 DEF Rise
  <2> QED
    BY <1>1, <2>1
<1>2. CASE x.top # t.root /\ links # {}
  <2> DEFINE link == CHOOSE b \in links : TRUE
  <2>1. link \in links
    BY <1>2
  <2>2. Rise(t, x) = [top |-> link[2], path |-> <<link[3]>> \o x.path]
    BY <1>2 DEF Rise
  <2> HIDE DEF link
  <2>3. link \in t.back /\ link[1] = x.top
    BY <2>1
  <2>4. link[2] \in Inodes /\ link[3] \in Names
    <3>1. t.back \subseteq Inodes \X Inodes \X Names
      BY TreeParts
    <3> QED
      BY <2>3, <3>1
  <2>5. <<link[3]>> \o x.path \in Seq(Names)
    BY <2>4 DEF Places
  <2>6. Rise(t, x) \in Places
    BY <2>2, <2>4, <2>5 DEF Places
  <2> QED
    BY <1>2, <2>2, <2>3, <2>6
<1> QED
  BY <1>1, <1>2

LEMMA ClimbRises ==
  ASSUME NEW t, IsTree(t), NEW d \in Inodes
  PROVE  \E up : Rises(t, d, up) /\ Climb(t, d) = up[MaxInodes]
<1> DEFINE m == MaxInodes
           base == [top |-> d, path |-> <<>>]
           F(f) == [k \in 0 .. MaxInodes |->
                      IF k = 0 THEN [top |-> d, path |-> <<>>]
                      ELSE LET below == f[k - 1]
                               links == {b \in t.back : b[1] = below.top}
                           IN IF below.top = t.root \/ links = {} THEN below
                              ELSE LET link == CHOOSE b \in links : TRUE
                                   IN [top |-> link[2], path |-> <<link[3]>> \o below.path]]
           G(f) == [k \in 0 .. m |-> IF k = 0 THEN base ELSE Rise(t, f[k - 1])]
           iter == CHOOSE f : f = F(f)
           step == [k \in 1 .. m |-> [x \in Places |-> Rise(t, x)]]
<1>1. Climb(t, d) = iter[MaxInodes]
  BY DEF Climb
<1>2. m \in Nat /\ base \in Places
  <2>1. <<>> \in Seq(Names)
    OBVIOUS
  <2> QED
    BY <2>1, NamespaceAssumption DEF Places
<1>3. \A f : F(f) = G(f)
  BY DEF Rise
<1> HIDE DEF m, base
<1>4. step \in [1 .. m -> [Places -> Places]]
  BY RiseType
<1>5. PICK f : Follows(f, m, Places, base, step)
  <2> HIDE DEF step
  <2> QED
    BY <1>2, <1>4, Recursion
<1>6. /\ f \in [0 .. m -> Places] /\ f[0] = base
      /\ \A k \in 1 .. m : f[k] = Rise(t, f[k - 1])
  <2>1. f \in [0 .. m -> Places] /\ f[0] = base
    BY <1>5 DEF Follows
  <2>2. ASSUME NEW k \in 1 .. m PROVE f[k] = Rise(t, f[k - 1])
    <3>1. f[k] = step[k][f[k - 1]]
      BY <1>5 DEF Follows
    <3>2. k - 1 \in 0 .. m
      BY <1>2
    <3>3. f[k - 1] \in Places
      BY <2>1, <3>2
    <3> QED
      BY <3>1, <3>3
  <2> QED
    BY <2>1, <2>2
<1>7. f = G(f)
  <2>1. \A k \in 0 .. m : f[k] = IF k = 0 THEN base ELSE Rise(t, f[k - 1])
    <3> SUFFICES ASSUME NEW k \in 0 .. m, k # 0 PROVE f[k] = Rise(t, f[k - 1])
      BY <1>6
    <3>1. k \in 1 .. m
      BY <1>2
    <3> QED
      BY <1>6, <3>1
  <2>2. f = [k \in 0 .. m |-> f[k]]
    BY <1>6
  <2> QED
    BY <2>1, <2>2
<1>8. iter = F(iter)
  <2>1. \E g : g = F(g)
    <3> HIDE DEF F, G
    <3> QED
      BY <1>3, <1>7
  <2> HIDE DEF F
  <2> QED
    BY <2>1, Zenon
<1> HIDE DEF iter
<1>9. iter = G(iter)
  <2> HIDE DEF F, G
  <2> QED
    BY <1>3, <1>8
<1>10. \A k \in 0 .. m : iter[k] = IF k = 0 THEN base ELSE Rise(t, iter[k - 1])
  BY <1>9
<1>11. \A k \in 0 .. m : iter[k] = f[k]
  <2> DEFINE Q == {k \in 0 .. m : iter[k] = f[k]}
  <2>1. 0 \in Q
    <3>1. 0 \in 0 .. m
      BY <1>2
    <3> QED
      BY <1>6, <1>10, <3>1
  <2>2. ASSUME NEW k \in 0 .. m - 1, k \in Q PROVE k + 1 \in Q
    <3>1. k + 1 \in 1 .. m /\ k + 1 \in 0 .. m /\ k + 1 # 0 /\ (k + 1) - 1 = k
      BY <1>2
    <3>2. iter[k + 1] = Rise(t, iter[k]) /\ f[k + 1] = Rise(t, f[k])
      BY <1>6, <1>10, <3>1
    <3> QED
      BY <2>2, <3>1, <3>2
  <2> HIDE DEF Q
  <2>3. \A k \in 0 .. m : k \in Q
    BY <1>2, <2>1, <2>2, InductionUpTo
  <2> QED
    BY <2>3 DEF Q
<1>12. iter[m] = f[m]
  <2>1. m \in 0 .. m
    BY <1>2
  <2> QED
    BY <1>11, <2>1
<1>13. Rises(t, d, f)
  BY <1>6 DEF Rises, m, base
<1> QED
  BY <1>1, <1>12, <1>13 DEF m


\* The path collected by a climb that ends at the root leads to where it began.
LEMMA ClimbPath ==
  ASSUME NEW t, Sound(t), NEW d \in Inodes, Climb(t, d).top = t.root
  PROVE  Climb(t, d).path \in Seq(Names) /\ Lookup(t, Climb(t, d).path) = d
<1>1. IsTree(t) /\ MaxInodes \in Nat
  BY NamespaceAssumption DEF Sound, Ground
<1>2. PICK up : Rises(t, d, up) /\ Climb(t, d) = up[MaxInodes]
  BY <1>1, ClimbRises
<1> DEFINE Q == {k \in 0 .. MaxInodes : \A q \in Seq(Names) :
                   Lookup(t, q) = up[k].top => Lookup(t, q \o up[k].path) = d}
<1>3. \A k \in 0 .. MaxInodes : up[k] \in Places /\ up[k].path \in Seq(Names)
  BY <1>2 DEF Rises, Places
<1>4. 0 \in Q
  <2>1. up[0].top = d /\ up[0].path = <<>> /\ 0 \in 0 .. MaxInodes
    BY <1>1, <1>2 DEF Rises
  <2>2. \A q \in Seq(Names) : q \o <<>> = q
    OBVIOUS
  <2> QED
    BY <2>1, <2>2
<1>5. ASSUME NEW k \in 0 .. MaxInodes - 1, k \in Q PROVE k + 1 \in Q
  <2>1. k + 1 \in 1 .. MaxInodes /\ k + 1 \in 0 .. MaxInodes /\ k \in 0 .. MaxInodes /\ (k + 1) - 1 = k
    BY <1>1
  <2> DEFINE x == up[k]
  <2>2. up[k + 1] = Rise(t, x) /\ x \in Places /\ x.path \in Seq(Names)
    BY <1>2, <1>3, <2>1 DEF Rises
  <2>3. \A q \in Seq(Names) : Lookup(t, q) = x.top => Lookup(t, q \o x.path) = d
    BY <1>5
  <2> HIDE DEF Q, x
  <2>4. CASE Rise(t, x) = x
    BY <2>1, <2>2, <2>3, <2>4 DEF Q
  <2>5. CASE Rise(t, x) # x
    <3>1. PICK b \in t.back : b[1] = x.top /\ Rise(t, x) = [top |-> b[2], path |-> <<b[3]>> \o x.path]
      BY <1>1, <2>2, <2>5, RiseType
    <3>2. PICK y \in DOMAIN t.entry : b = <<t.entry[y], y[1], y[2]>>
      BY DEF Sound, Ground, Shaped, SoundLinks
    <3>3. y = <<y[1], y[2]>> /\ y[2] \in Names
      <4>1. DOMAIN t.entry \subseteq Inodes \X Names
        BY <1>1, TreeParts
      <4> QED
        BY <4>1
    <3>4. b[1] = t.entry[y] /\ b[2] = y[1] /\ b[3] = y[2]
      BY <3>2
    <3>5. ASSUME NEW q \in Seq(Names), Lookup(t, q) = b[2]
          PROVE  Lookup(t, q \o (<<b[3]>> \o x.path)) = d
      <4>1. Lookup(t, Append(q, b[3])) = Child(t, b[2], b[3])
        BY <1>1, <3>3, <3>4, <3>5, LookupNext
      <4>2. Child(t, b[2], b[3]) = x.top
        BY <3>1, <3>3, <3>4 DEF Child, Listed
      <4>3. Append(q, b[3]) \in Seq(Names)
        BY <3>3, <3>4
      <4>4. Lookup(t, Append(q, b[3]) \o x.path) = d
        BY <2>3, <4>1, <4>2, <4>3
      <4>5. Append(q, b[3]) \o x.path = q \o (<<b[3]>> \o x.path)
        <5>1. b[3] \in Names
          BY <3>3, <3>4
        <5> DEFINE n == b[3]
                   s == x.path
        <5>2. n \in Names /\ s \in Seq(Names) /\ q \in Seq(Names)
          BY <2>2, <5>1
        <5> HIDE DEF n, s
        <5>3. Append(q, n) \o s = q \o (<<n>> \o s)
          BY <5>2
        <5> QED
          BY <5>3 DEF n, s
      <4> QED
        BY <4>4, <4>5
    <3>6. up[k + 1].top = b[2] /\ up[k + 1].path = <<b[3]>> \o x.path
      BY <2>2, <3>1
    <3> QED
      BY <2>1, <3>5, <3>6 DEF Q
  <2> QED
    BY <2>4, <2>5
<1> HIDE DEF Q
<1>6. \A k \in 0 .. MaxInodes : k \in Q
  BY <1>1, <1>4, <1>5, InductionUpTo
<1>7. MaxInodes \in Q /\ MaxInodes \in 0 .. MaxInodes
  BY <1>1, <1>6
<1> DEFINE s == Climb(t, d).path
<1>8. s \in Seq(Names) /\ s = up[MaxInodes].path /\ up[MaxInodes].top = t.root
  BY <1>2, <1>3, <1>7
<1> HIDE DEF s
<1>9. <<>> \in Seq(Names) /\ <<>> \o s = s
  BY <1>8
<1>10. Lookup(t, <<>>) = t.root
  BY <1>1, LookupRoot
<1>11. Lookup(t, s) = d
  BY <1>7, <1>8, <1>9, <1>10 DEF Q
<1> QED
  BY <1>8, <1>11 DEF s

-----------------------------------------------------------------------------
(* Chains of directories.                                                  *)

Chain(t, g, k) ==
  /\ g \in [0 .. k -> Dirs(t)]
  /\ \A c \in 0 .. k - 1 : g[c] \in Hanging(t) /\ t.inode[g[c]].parent = g[c + 1]

LEMMA ChainApart ==
  ASSUME NEW t, Sound(t), NEW k \in Nat, NEW g, Chain(t, g, k),
         NEW a \in 0 .. k, NEW b \in 0 .. k, a < b
  PROVE  g[a] # g[b]
<1> SUFFICES ASSUME g[a] = g[b] PROVE FALSE
  OBVIOUS
<1> DEFINE S == {g[c] : c \in a .. b - 1}
<1>1. \A c \in a .. b - 1 : c \in 0 .. k - 1 /\ c + 1 \in 0 .. k
  OBVIOUS
<1>2. S \in SUBSET Hanging(t) /\ g[a] \in S
  <2>1. a \in a .. b - 1
    OBVIOUS
  <2> QED
    BY <1>1, <2>1 DEF Chain
<1>3. PICK x \in S : t.inode[x].parent \notin S
  <2> HIDE DEF S
  <2> QED
    BY <1>2 DEF Sound, Ground, Shaped, NoLoop
<1>4. PICK c \in a .. b - 1 : x = g[c]
  BY <1>3
<1>5. t.inode[x].parent = g[c + 1]
  BY <1>1, <1>4 DEF Chain
<1>6. c + 1 = b \/ c + 1 \in a .. b - 1
  OBVIOUS
<1>7. g[c + 1] \in S
  BY <1>2, <1>6
<1> QED
  BY <1>3, <1>5, <1>7

\* A chain has no more directories than there are.
LEMMA ChainShort ==
  ASSUME NEW t, Sound(t), NEW k \in Nat, NEW g, Chain(t, g, k)
  PROVE  /\ IsFiniteSet(DOMAIN t.inode) /\ Cardinality(DOMAIN t.inode) \in Nat
         /\ IsFiniteSet(Dirs(t)) /\ k + 1 <= Cardinality(Dirs(t))
         /\ Cardinality(Dirs(t)) <= Cardinality(DOMAIN t.inode)
<1>1. IsFiniteSet(DOMAIN t.inode)
  BY ArenaFinite DEF Sound, Ground
<1>2. Dirs(t) \subseteq DOMAIN t.inode
  BY DEF Dirs
<1>3. /\ IsFiniteSet(Dirs(t)) /\ Cardinality(Dirs(t)) <= Cardinality(DOMAIN t.inode)
      /\ Cardinality(Dirs(t)) \in Nat /\ Cardinality(DOMAIN t.inode) \in Nat
  BY <1>1, <1>2, FS_Subset, FS_CardinalityType
<1>4. k + 1 <= Cardinality(Dirs(t))
  <2> SUFFICES ASSUME Cardinality(Dirs(t)) < k + 1 PROVE FALSE
    BY <1>3
  <2>1. IsFiniteSet(0 .. k) /\ Cardinality(0 .. k) = k + 1
    <3>1. 0 \in Int /\ k \in Int /\ ~(0 > k) /\ k - 0 + 1 = k + 1
      OBVIOUS
    <3> QED
      BY <3>1, FS_Interval
  <2>2. PICK a \in 0 .. k, b \in 0 .. k : a # b /\ g[a] = g[b]
    <3>1. g \in [0 .. k -> Dirs(t)]
      BY DEF Chain
    <3> DEFINE I == 0 .. k
    <3>2. g \in [I -> Dirs(t)] /\ IsFiniteSet(I) /\ Cardinality(Dirs(t)) < Cardinality(I)
      BY <2>1, <3>1
    <3> HIDE DEF I
    <3>3. \E x, y \in I : x # y /\ g[x] = g[y]
      BY <1>3, <3>2, FS_PigeonHole
    <3> QED
      BY <3>3 DEF I
  <2>3. a < b \/ b < a
    BY <2>2
  <2> QED
    BY <2>2, <2>3, ChainApart
<1> QED
  BY <1>1, <1>3, <1>4

\* A directory with a name hangs by it.
LEMMA HangsBy ==
  ASSUME NEW t, Sound(t), NEW x \in DOMAIN t.entry, t.entry[x] \in Dirs(t)
  PROVE  t.entry[x] \in Hanging(t) /\ t.inode[t.entry[x]].parent = x[1]
<1> DEFINE d == t.entry[x]
<1>1. d \in DOMAIN t.inode /\ d # t.root /\ <<d, x[1], x[2]>> \in t.back
  BY DEF Sound, Ground, Shaped, SoundEntries, SoundLinks
<1>2. IsFiniteSet(t.back)
  BY LinksFinite DEF Sound, Ground, Shaped, SoundEntries, SoundLinks, Recorded
<1>3. t.inode[d].links # 0
  <2> DEFINE b == <<d, x[1], x[2]>>
  <2>0. b \in t.back /\ b[1] = d
    BY <1>1
  <2> HIDE DEF b
  <2>1. Count(t.back, d) \in Nat /\ Count(t.back, d) # 0
    BY <1>2, <2>0, CountNone
  <2>2. t.inode[d].links = Count(t.back, d) + 0
    BY <1>1 DEF Sound, Ground, Shaped, SoundLinks
  <2> HIDE DEF Count, d
  <2> QED
    BY <2>1, <2>2
<1>4. d \in Hanging(t)
  BY <1>1, <1>3 DEF Hanging, Sound, Ground, Shaped, SoundDirs
<1>5. PICK n \in Names : <<d, t.inode[d].parent, n>> \in t.back
  BY <1>1, <1>3 DEF Sound, Ground, Shaped, SoundDirs
<1>6. PICK y \in DOMAIN t.entry : <<d, t.inode[d].parent, n>> = <<t.entry[y], y[1], y[2]>>
  BY <1>5 DEF Sound, Ground, Shaped, SoundLinks
<1>7. t.entry[y] = d /\ y[1] = t.inode[d].parent
  BY <1>6
<1>8. x = y
  BY <1>7, OneName
<1> QED
  BY <1>4, <1>7, <1>8

\* A path that leads to a directory passes as many others as it has names.
LEMMA PathChain ==
  ASSUME NEW t, Sound(t)
  PROVE  \A p \in Seq(Names) : Lookup(t, p) \in Dirs(t) =>
           \E g : Chain(t, g, Len(p)) /\ g[0] = Lookup(t, p)
<1> DEFINE Q == {p \in Seq(Names) : Lookup(t, p) \in Dirs(t) =>
                   \E g : Chain(t, g, Len(p)) /\ g[0] = Lookup(t, p)}
<1>1. <<>> \in Q
  <2> DEFINE g == [c \in 0 .. 0 |-> Lookup(t, <<>>)]
  <2>1. Lookup(t, <<>>) \in Dirs(t) => Chain(t, g, 0) /\ g[0] = Lookup(t, <<>>)
    BY DEF Chain
  <2>2. Len(<<>>) = 0 /\ <<>> \in Seq(Names)
    OBVIOUS
  <2> HIDE DEF g
  <2> QED
    BY <2>1, <2>2
<1>2. ASSUME NEW p \in Seq(Names), NEW n \in Names, p \in Q PROVE Append(p, n) \in Q
  <2> DEFINE r == Append(p, n)
             m == Len(p)
  <2>1. r \in Seq(Names) /\ Len(r) = m + 1 /\ m \in Nat
    OBVIOUS
  <2>2. ASSUME Lookup(t, r) \in Dirs(t) PROVE \E g : Chain(t, g, m + 1) /\ g[0] = Lookup(t, r)
    <3>1. Lookup(t, r) # None
      BY <2>2, NoneIsNot
    <3> DEFINE d == Lookup(t, p)
               x == Lookup(t, r)
    <3>2. <<d, n>> \in DOMAIN t.entry /\ x = t.entry[<<d, n>>] /\ d \in Dirs(t)
      BY <3>1, FrontIs
    <3>3. PICK g : Chain(t, g, m) /\ g[0] = d
      BY <1>2, <3>2
    <3>4. x \in Hanging(t) /\ t.inode[x].parent = <<d, n>>[1]
      BY <2>2, <3>2, HangsBy
    <3> HIDE DEF d, x, r, m
    <3> DEFINE h == [c \in 0 .. m + 1 |-> IF c = 0 THEN x ELSE g[c - 1]]
    <3>5. h[0] = x /\ \A c \in 1 .. m + 1 : h[c] = g[c - 1]
      BY <2>1
    <3>6. h \in [0 .. m + 1 -> Dirs(t)]
      <4>1. \A c \in 0 .. m + 1 : c # 0 => c - 1 \in 0 .. m
        BY <2>1
      <4>2. x \in Dirs(t) /\ g \in [0 .. m -> Dirs(t)]
        BY <3>3, <3>4 DEF Chain, Hanging
      <4> QED
        BY <4>1, <4>2
    <3> HIDE DEF h
    <3>7. ASSUME NEW c \in 0 .. (m + 1) - 1 PROVE h[c] \in Hanging(t) /\ t.inode[h[c]].parent = h[c + 1]
      <4>1. CASE c = 0
        <5>1. h[c] = x /\ h[c + 1] = d
          <6>1. 1 \in 1 .. m + 1 /\ 1 - 1 = 0 /\ 0 + 1 = 1
            BY <2>1
          <6> QED
            BY <3>3, <3>5, <4>1, <6>1
        <5> QED
          BY <3>4, <5>1
      <4>2. CASE c # 0
        <5>1. c \in 1 .. m + 1 /\ c + 1 \in 1 .. m + 1 /\ c - 1 \in 0 .. m - 1 /\ (c - 1) + 1 = c /\ (c + 1) - 1 = c
          BY <2>1, <4>2
        <5>2. h[c] = g[c - 1] /\ h[c + 1] = g[c]
          BY <3>5, <5>1
        <5> QED
          BY <3>3, <5>1, <5>2 DEF Chain
      <4> QED
        BY <4>1, <4>2
    <3>8. Chain(t, h, m + 1)
      BY <3>6, <3>7 DEF Chain
    <3> QED
      BY <3>5, <3>8 DEF x
  <2> QED
    BY <2>1, <2>2
<1> HIDE DEF Q
<1>3. \A p \in Seq(Names) : p \in Q
  BY <1>1, <1>2, PathInduction
<1> QED
  BY <1>3 DEF Q

\* So a path that leads somewhere is one of Paths.
LEMMA PathShort ==
  ASSUME NEW t, Sound(t), Compact(t), NEW p \in Seq(Names), Lookup(t, p) # None
  PROVE  p \in Paths
<1> DEFINE m == Len(p)
<1>1. m \in Nat /\ MaxInodes \in Nat \ {0} /\ p \in [1 .. m -> Names]
  BY NamespaceAssumption
<1>2. m + 1 <= MaxInodes
  <2>1. CASE Lookup(t, p) \in Dirs(t)
    <3>1. PICK g : Chain(t, g, m)
      BY <2>1, PathChain
    <3> HIDE DEF m
    <3> QED
      BY <1>1, <3>1, ChainShort, FS_CardinalityType DEF Compact
  <2>2. CASE Lookup(t, p) \notin Dirs(t)
    <3>1. p # <<>>
      BY <2>2, LookupRoot, NoneIsNot DEF Sound, Ground
    <3> DEFINE f == Front(p)
               n == Last(p)
               x == Lookup(t, p)
    <3>2. f \in Seq(Names) /\ n \in Names /\ p = Append(f, n) /\ Len(f) = m - 1
      BY <3>1, PathEnds
    <3>3. Lookup(t, f) \in Dirs(t) /\ x \in DOMAIN t.inode
      BY <3>2, FrontIs
    <3>4. PICK g : Chain(t, g, Len(f))
      BY <3>2, <3>3, PathChain
    <3>5. /\ IsFiniteSet(DOMAIN t.inode) /\ Len(f) + 1 <= Cardinality(Dirs(t))
          /\ IsFiniteSet(Dirs(t))
      BY <3>2, <3>4, ChainShort
    <3> HIDE DEF x, f, m
    <3>6. x \notin Dirs(t)
      BY <2>2 DEF x
    <3>7. Dirs(t) \subseteq DOMAIN t.inode \ {x}
      BY <3>6 DEF Dirs
    <3>8. /\ IsFiniteSet(DOMAIN t.inode \ {x})
          /\ Cardinality(DOMAIN t.inode \ {x}) = Cardinality(DOMAIN t.inode) - 1
      BY <3>3, <3>5, FS_RemoveElement
    <3>9. Cardinality(Dirs(t)) <= Cardinality(DOMAIN t.inode) - 1
      BY <3>7, <3>8, FS_Subset
    <3>10. Cardinality(Dirs(t)) \in Nat /\ Cardinality(DOMAIN t.inode) \in Nat
      BY <3>5, FS_CardinalityType
    <3> QED
      BY <1>1, <3>2, <3>5, <3>9, <3>10 DEF Compact
  <2> QED
    BY <2>1, <2>2
<1> HIDE DEF m
<1>3. m \in 0 .. MaxInodes - 1
  BY <1>1, <1>2
<1> QED
  BY <1>1, <1>3 DEF Paths, SeqOf

\* A directory that has a name is below the root, as paths_of finds.
LEMMA ClimbTop ==
  ASSUME NEW t, Sound(t), Compact(t), NEW d \in Dirs(t), t.inode[d].links > 0
  PROVE  Climb(t, d).top = t.root
<1>1. IsTree(t) /\ MaxInodes \in Nat /\ d \in Inodes
  <2>1. IsTree(t)
    BY DEF Sound, Ground
  <2>2. DOMAIN t.inode \subseteq Inodes
    BY <2>1, TreeParts
  <2> QED
    BY <2>1, <2>2, NamespaceAssumption DEF Dirs
<1>2. PICK up : Rises(t, d, up) /\ Climb(t, d) = up[MaxInodes]
  BY <1>1, ClimbRises
<1> SUFFICES ASSUME up[MaxInodes].top # t.root PROVE FALSE
  BY <1>2
<1>3. ASSUME NEW c \in 0 .. MaxInodes PROVE up[c].top # t.root
  <2> SUFFICES ASSUME up[c].top = t.root PROVE FALSE
    OBVIOUS
  <2> DEFINE S == {j \in 0 .. MaxInodes : j >= c => up[j].top = t.root}
  <2>1. 0 \in S
    BY <1>1
  <2>2. ASSUME NEW j \in 0 .. MaxInodes - 1, j \in S PROVE j + 1 \in S
    <3>1. j + 1 \in 0 .. MaxInodes /\ j + 1 \in 1 .. MaxInodes /\ (j + 1) - 1 = j /\ j \in 0 .. MaxInodes
      BY <1>1
    <3>2. CASE j >= c
      <4>1. up[j].top = t.root /\ up[j + 1] = Rise(t, up[j])
        BY <1>2, <2>2, <3>1, <3>2 DEF Rises
      <4>2. Rise(t, up[j]) = up[j]
        BY <4>1 DEF Rise
      <4> QED
        BY <3>1, <4>1, <4>2
    <3>3. CASE ~(j >= c)
      <4>1. j + 1 >= c => j + 1 = c
        BY <3>3
      <4> QED
        BY <3>1, <4>1
    <3> QED
      BY <3>2, <3>3
  <2> HIDE DEF S
  <2>3. \A j \in 0 .. MaxInodes : j \in S
    BY <1>1, <2>1, <2>2, InductionUpTo
  <2>4. MaxInodes \in S /\ MaxInodes >= c
    BY <1>1, <2>3
  <2> QED
    BY <2>4 DEF S
<1> DEFINE Q == {c \in 0 .. MaxInodes : up[c].top \in Dirs(t) /\ t.inode[up[c].top].links > 0}
<1>4. 0 \in Q
  BY <1>1, <1>2 DEF Rises
<1>5. ASSUME NEW c \in 0 .. MaxInodes - 1, up[c].top \in Dirs(t), t.inode[up[c].top].links > 0
      PROVE  /\ up[c].top \in Hanging(t) /\ t.inode[up[c].top].parent = up[c + 1].top
             /\ up[c + 1].top \in Dirs(t) /\ t.inode[up[c + 1].top].links > 0
  <2> DEFINE x == up[c]
  <2>1. c + 1 \in 0 .. MaxInodes /\ c + 1 \in 1 .. MaxInodes /\ (c + 1) - 1 = c /\ c \in 0 .. MaxInodes
    BY <1>1
  <2>2. x.top # t.root /\ x \in Places /\ up[c + 1] = Rise(t, x)
    BY <1>2, <1>3, <2>1 DEF Rises
  <2>3. x.top \in Hanging(t)
    BY <1>5, <2>2 DEF Hanging
  <2>4. PICK n \in Names : <<x.top, t.inode[x.top].parent, n>> \in t.back
    <3> DEFINE h == x.top
    <3>1. h \in Dirs(t) /\ t.inode[h].links # 0 /\ h # t.root
      BY <2>3 DEF Hanging, Sound, Ground, Shaped, SoundDirs
    <3>2. SoundDirs(t)
      BY DEF Sound, Ground, Shaped
    <3> HIDE DEF h
    <3>3. \E n \in Names : <<h, t.inode[h].parent, n>> \in t.back
      BY <3>1, <3>2 DEF SoundDirs
    <3> QED
      BY <3>3 DEF h
  <2>5. <<x.top, t.inode[x.top].parent, n>>[1] = x.top
    OBVIOUS
  <2> HIDE DEF x
  <2>6. PICK b \in t.back : b[1] = x.top /\ Rise(t, x) = [top |-> b[2], path |-> <<b[3]>> \o x.path]
    BY <1>1, <2>2, <2>4, <2>5, RiseType
  <2>7. PICK y \in DOMAIN t.entry : b = <<t.entry[y], y[1], y[2]>>
    BY DEF Sound, Ground, Shaped, SoundLinks
  <2>8. t.entry[y] = x.top /\ b[2] = y[1]
    BY <2>6, <2>7
  <2>9. t.inode[x.top].parent = b[2]
    BY <2>3, <2>8, HangsBy DEF Hanging
  <2>10. up[c + 1].top = b[2]
    BY <2>2, <2>6
  <2>11. b[2] \in Dirs(t) /\ t.inode[b[2]].links > 0
    BY <2>8 DEF Sound, Ground, Shaped, SoundEntries
  <2> QED
    BY <2>3, <2>9, <2>10, <2>11 DEF x
<1>6. \A c \in 0 .. MaxInodes - 1 : c \in Q => c + 1 \in Q
  <2> SUFFICES ASSUME NEW c \in 0 .. MaxInodes - 1, c \in Q PROVE c + 1 \in Q
    OBVIOUS
  <2>1. c + 1 \in 0 .. MaxInodes
    BY <1>1
  <2> QED
    BY <1>5, <2>1
<1> HIDE DEF Q
<1>7. \A c \in 0 .. MaxInodes : c \in Q
  BY <1>1, <1>4, <1>6, InductionUpTo
<1>8. \A c \in 0 .. MaxInodes : up[c].top \in Dirs(t) /\ t.inode[up[c].top].links > 0
  BY <1>7 DEF Q
<1> DEFINE g == [c \in 0 .. MaxInodes |-> up[c].top]
<1>9. Chain(t, g, MaxInodes)
  <2>1. g \in [0 .. MaxInodes -> Dirs(t)]
    BY <1>8
  <2>2. ASSUME NEW c \in 0 .. MaxInodes - 1
        PROVE  g[c] \in Hanging(t) /\ t.inode[g[c]].parent = g[c + 1]
    <3>1. c \in 0 .. MaxInodes /\ c + 1 \in 0 .. MaxInodes
      BY <1>1
    <3>2. g[c] = up[c].top /\ g[c + 1] = up[c + 1].top
      BY <3>1
    <3> HIDE DEF g
    <3> QED
      BY <1>5, <1>8, <3>1, <3>2
  <2> HIDE DEF g
  <2> QED
    BY <2>1, <2>2 DEF Chain
<1> HIDE DEF g
<1> QED
  BY <1>1, <1>9, ChainShort, FS_CardinalityType DEF Compact

-----------------------------------------------------------------------------
(* What the operations tell.                                               *)

LEMMA LookupSame ==
  ASSUME NEW t, NEW u, u.root = t.root, u.entry = t.entry
  PROVE  \A p : Lookup(u, p) = Lookup(t, p)
BY DEF Lookup, Child, Listed

\* Fewer inodes are no more.
LEMMA CompactStays ==
  ASSUME NEW t, IsTree(t), NEW u, DOMAIN u.inode \subseteq DOMAIN t.inode, Compact(t)
  PROVE  Compact(u)
<1>1. IsFiniteSet(DOMAIN t.inode)
  BY ArenaFinite
<1>2. /\ Cardinality(DOMAIN u.inode) <= Cardinality(DOMAIN t.inode)
      /\ Cardinality(DOMAIN u.inode) \in Nat /\ Cardinality(DOMAIN t.inode) \in Nat
  BY <1>1, FS_Subset, FS_CardinalityType
<1> QED
  BY <1>2, NamespaceAssumption DEF Compact

\* Without a notification the listener is told nothing, and nothing it shows changes.
LEMMA QuietTold ==
  ASSUME NEW t, IsTree(t), NEW u, Quiet(t, u)
  PROVE  Told(t, u)
<1>1. Compact(t) => Compact(u)
  BY CompactStays DEF Quiet
<1>2. u.tracking = t.tracking /\ u.changes = t.changes /\ (Queued(t) => Queued(u))
  BY DEF Quiet, Queued, Invalidated
<1>3. \A p : Lookup(u, p) = Lookup(t, p)
  BY LookupSame DEF Quiet
<1>4. ASSUME NEW view, NEW Q \in Seq(Notes), Tells(view, Q \o t.changes, t)
      PROVE  Tells(view, Q \o u.changes, u)
  <2>1. Tells(view, Q \o t.changes, u)
    BY <1>3, <1>4, TellsSame
  <2> QED
    BY <1>2, <2>1
<1> QED
  BY <1>1, <1>2, <1>4 DEF Told

\* The path of an entry leads to it.
LEMMA EntryPathLeads ==
  ASSUME NEW t, Sound(t), NEW d, NEW n \in Names, MayEnter(t, d), t.tracking
  PROVE  \E q \in Seq(Names) : /\ EntryPath(t, d, n) = Append(q, n) /\ Lookup(t, q) = d
                               /\ d \in Dirs(t)
<1>1. d \in Dirs(t) /\ d \in Inodes /\ Climb(t, d).top = t.root
  <2>1. DOMAIN t.inode \subseteq Inodes
    BY TreeParts DEF Sound, Ground
  <2> QED
    BY <2>1 DEF MayEnter, IsDirectory, Exists, Dirs
<1>2. Climb(t, d).path \in Seq(Names) /\ Lookup(t, Climb(t, d).path) = d
  BY <1>1, ClimbPath
<1>3. EntryPath(t, d, n) = Append(Climb(t, d).path, n)
  BY DEF EntryPath
<1> QED
  BY <1>1, <1>2, <1>3

\* Notes that name no path.
LEMMA PlainTold ==
  ASSUME NEW t, IsTree(t), NEW u, IsTree(u), Quiet(t, u), NEW i \in DOMAIN t.inode,
         NEW kind \in {"write", "metadata"}
  PROVE  Told(t, Emit(u, Change(kind, i, <<>>, <<>>)))
<1> DEFINE c == Change(kind, i, <<>>, <<>>)
<1>1. c.kind = kind /\ c.inode = i /\ c.path = <<>> /\ c.old = <<>>
  BY DEF Change
<1>2. i \in 0 .. LastInode
  BY TreeParts DEF Inodes
<1>3. c \in Notes
  BY <1>2 DEF Change, Notes, ChangeKinds
<1>4. \A p : Lookup(u, p) = Lookup(t, p)
  BY LookupSame DEF Quiet
<1> HIDE DEF c
<1>5. \A p : ~Touches(c, p)
  BY <1>1 DEF Touches
<1>6. Announces(c, t, u)
  BY <1>4, <1>5 DEF Announces
<1>7. Compact(t) => Compact(u)
  BY CompactStays DEF Quiet
<1>8. Told(t, Emit(u, c))
  BY <1>1, <1>3, <1>6, <1>7, EmitTells DEF Quiet
<1> QED
  BY <1>8 DEF c

\* An entry is made.
LEMMA AddTold ==
  ASSUME NEW t, Sound(t), NEW d, NEW n \in Names, MayEnter(t, d), ~Listed(t, d, n),
         NEW i \in Inodes, i \notin Dirs(t), NEW v, IsTree(v), Adds(t, v, d, n, i),
         Compact(t) => Compact(v)
  PROVE  Told(t, Emit(v, Change("create", i, EntryPath(t, d, n), <<>>)))
<1> DEFINE c == Change("create", i, EntryPath(t, d, n), <<>>)
<1>1. /\ DOMAIN v.entry = DOMAIN t.entry \cup {<<d, n>>} /\ v.entry[<<d, n>>] = i
      /\ \A x \in DOMAIN t.entry : x # <<d, n>> => v.entry[x] = t.entry[x]
  BY DEF Adds, With
<1>2. v.root = t.root /\ v.changes = t.changes /\ v.tracking = t.tracking
  BY DEF Adds, Beside
<1>3. Child(v, d, n) = i /\ Child(t, d, n) = None
  BY <1>1 DEF Child, Listed
<1>4. ASSUME NEW e, NEW a, <<e, a>> # <<d, n>> PROVE Child(v, e, a) = Child(t, e, a)
  BY <1>1, <1>4 DEF Child, Listed
<1>5. d \in Dirs(t) /\ i # d
  BY DEF MayEnter, IsDirectory, Exists, Dirs
<1>6. ASSUME NEW a PROVE Child(t, Child(t, d, n), a) = None /\ Child(v, Child(v, d, n), a) = None
  <2>1. None \notin Dirs(t)
    BY NoneIsNot
  <2>2. Child(t, None, a) = None /\ Child(t, i, a) = None
    BY <2>1, ChildOfNone
  <2>3. Child(v, i, a) = Child(t, i, a)
    BY <1>4, <1>5
  <2> QED
    BY <1>3, <2>2, <2>3
<1>7. ASSUME t.tracking PROVE c \in Notes /\ c.kind = "create" /\ Announces(c, t, v)
  <2>1. PICK q \in Seq(Names) : EntryPath(t, d, n) = Append(q, n) /\ Lookup(t, q) = d
    BY <1>7, EntryPathLeads
  <2> DEFINE r == Append(q, n)
  <2>2. r \in Seq(Names) /\ r # <<>> /\ <<>> \in Seq(Names) /\ i \in 0 .. LastInode /\ i # None
    BY DEF Inodes, None
  <2>3. c.kind = "create" /\ c.inode = i /\ c.path = r
    BY <2>1 DEF Change
  <2>4. c \in Notes
    <3> HIDE DEF r
    <3>1. c = [kind |-> "create", inode |-> i, path |-> r, old |-> <<>>]
      BY <2>1 DEF Change, r
    <3> HIDE DEF c
    <3> QED
      BY <2>2, <3>1 DEF Notes, ChangeKinds
  <2>5. \A p \in Seq(Names) : Lookup(v, p) = IF p = r THEN Child(v, d, n) ELSE Lookup(t, p)
    BY <1>2, <1>4, <1>5, <1>6, <2>1, EntryChanges
  <2> HIDE DEF c, r
  <2>6. \A p : Touches(c, p) <=> p = r
    BY <2>3 DEF Touches
  <2>7. Announces(c, t, v)
    BY <1>3, <2>3, <2>5, <2>6 DEF Announces, Fits, Steps
  <2> QED
    BY <2>3, <2>4, <2>7
<1> HIDE DEF c
<1>8. Told(t, Emit(v, c))
  BY <1>2, <1>7, EmitTells
<1> QED
  BY <1>8 DEF c

LEMMA InsertTold ==
  ASSUME NEW t, Sound(t), NEW d, NEW n \in Names, MayInsert(t, d, n),
         NEW kind \in Kinds, NEW size \in Nat
  PROVE  Told(t, Inserted(t, d, n, kind, size))
<1>1. PICK v : /\ IsTree(v) /\ Adds(t, v, d, n, t.next)
               /\ DOMAIN v.inode = DOMAIN t.inode \cup {t.next}
               /\ Inserted(t, d, n, kind, size)
                    = Emit(v, Change("create", t.next, EntryPath(t, d, n), <<>>))
  BY InsertKeeps
<1>2. IsTree(t) /\ t.next \in 2 .. LastInode + 1 /\ t.next <= LastInode
  BY TreeParts DEF MayInsert, Sound, Ground
<1>3. t.next \in Inodes /\ t.next \notin DOMAIN t.inode
  BY <1>2 DEF Inodes, Sound, Ground, Shaped, SoundEntries
<1>4. Compact(v)
  <2>1. IsFiniteSet(DOMAIN t.inode) /\ Cardinality(DOMAIN t.inode) < MaxInodes
    BY <1>2, ArenaFinite DEF MayInsert
  <2>2. Cardinality(DOMAIN v.inode) = Cardinality(DOMAIN t.inode) + 1
        /\ Cardinality(DOMAIN t.inode) \in Nat
    BY <1>1, <1>3, <2>1, FS_AddElement, FS_CardinalityType
  <2> QED
    BY <2>1, <2>2, NamespaceAssumption DEF Compact
<1> QED
  BY <1>1, <1>3, <1>4, AddTold DEF MayInsert, Dirs

LEMMA LinkTold ==
  ASSUME NEW t, Sound(t), NEW d, NEW n \in Names, NEW i, MayLink(t, d, n, i)
  PROVE  Told(t, Linked(t, d, n, i))
<1>1. PICK v : /\ IsTree(v) /\ Adds(t, v, d, n, i) /\ DOMAIN v.inode = DOMAIN t.inode
               /\ Linked(t, d, n, i) = Emit(v, Change("create", i, EntryPath(t, d, n), <<>>))
  BY LinkKeeps
<1>2. i \in Inodes /\ i \notin Dirs(t)
  BY TreeParts DEF MayLink, Exists, IsDirectory, Dirs, Sound, Ground
<1>3. Compact(t) => Compact(v)
  BY <1>1, CompactStays DEF Sound, Ground
<1> QED
  BY <1>1, <1>2, <1>3, AddTold DEF MayLink

\* What becomes of the tree with an entry that leads to nothing further.
LEMMA RemovedPaths ==
  ASSUME NEW t, Sound(t), NEW v, IsTree(v), v.root = t.root, NEW d, NEW n \in Names,
         <<d, n>> \in DOMAIN t.entry, Empty(t, t.entry[<<d, n>>]),
         OneLess(t, v.entry, d, n), NEW q \in Seq(Names), Lookup(t, q) = d
  PROVE  \A p \in Seq(Names) : Lookup(v, p) = IF p = Append(q, n) THEN None ELSE Lookup(t, p)
<1>1. /\ DOMAIN v.entry = DOMAIN t.entry \ {<<d, n>>}
      /\ \A x \in DOMAIN v.entry : v.entry[x] = t.entry[x]
  BY DEF OneLess
<1>2. Child(t, d, n) = t.entry[<<d, n>>] /\ Child(v, d, n) = None
  BY <1>1 DEF Child, Listed
<1>3. ASSUME NEW e, NEW a, <<e, a>> # <<d, n>> PROVE Child(v, e, a) = Child(t, e, a)
  BY <1>1, <1>3 DEF Child, Listed
<1>4. d \in Dirs(t)
  <2>1. <<d, n>>[1] \in Dirs(t)
    BY DEF Sound, Ground, Shaped, SoundEntries
  <2> QED
    BY <2>1
<1>5. ASSUME NEW a PROVE Child(t, Child(t, d, n), a) = None /\ Child(v, Child(v, d, n), a) = None
  <2> DEFINE j == t.entry[<<d, n>>]
  <2>1. Child(t, j, a) = None
    <3>1. <<j, a>> \notin DOMAIN t.entry
      <4> SUFFICES ASSUME <<j, a>> \in DOMAIN t.entry PROVE FALSE
        OBVIOUS
      <4> HIDE DEF j
      <4>1. a \in Names
        BY TreeParts DEF Sound, Ground
      <4> QED
        BY <4>1 DEF Empty, Listed, j
    <3> QED
      BY <3>1 DEF Child, Listed
  <2>2. None \notin Dirs(t)
    BY NoneIsNot
  <2>3. d # None /\ Child(t, None, a) = None
    BY <1>4, <2>2, ChildOfNone
  <2>4. Child(v, None, a) = None
    BY <1>3, <2>3
  <2> QED
    BY <1>2, <2>1, <2>4
<1> QED
  BY <1>2, <1>3, <1>4, <1>5, EntryChanges

\* An entry is removed.
LEMMA UnlinkTold ==
  ASSUME NEW t, Sound(t), NEW d, NEW n, MayUnlink(t, d, n)
  PROVE  Told(t, Unlinked(t, d, n))
<1> DEFINE i == t.entry[<<d, n>>]
           c == Change("remove", i, EntryPath(t, d, n), <<>>)
<1>1. Listed(t, d, n) /\ Empty(t, t.entry[<<d, n>>]) /\ MayEnter(t, d)
  BY DEF MayUnlink
<1>2. IsTree(t) /\ n \in Names /\ <<d, n>> \in DOMAIN t.entry /\ i \in Inodes
  BY <1>1, TreeParts DEF Listed, Sound, Ground
<1>3. PICK v : IsTree(v) /\ Removes(t, v, d, n) /\ Unlinked(t, d, n) = Emit(v, c)
  BY <1>1, UnlinkKeeps
<1>4. v.root = t.root /\ v.changes = t.changes /\ v.tracking = t.tracking
      /\ DOMAIN v.inode \subseteq DOMAIN t.inode
  BY <1>3 DEF Removes, Beside
<1>5. OneLess(t, v.entry, d, n)
  BY <1>3 DEF Removes, OneLess, Restrict
<1>6. ASSUME t.tracking PROVE c \in Notes /\ c.kind = "remove" /\ Announces(c, t, v)
  <2>1. PICK q \in Seq(Names) : EntryPath(t, d, n) = Append(q, n) /\ Lookup(t, q) = d
    BY <1>1, <1>2, <1>6, EntryPathLeads
  <2> DEFINE r == Append(q, n)
  <2>2. r \in Seq(Names) /\ <<>> \in Seq(Names) /\ i \in 0 .. LastInode
    BY <1>2 DEF Inodes
  <2>3. c.kind = "remove" /\ c.path = r
    BY <2>1 DEF Change
  <2>4. c \in Notes
    <3> HIDE DEF r, i
    <3>1. c = [kind |-> "remove", inode |-> i, path |-> r, old |-> <<>>]
      BY <2>1 DEF Change, r
    <3> HIDE DEF c
    <3> QED
      BY <2>2, <3>1 DEF Notes, ChangeKinds
  <2>5. \A p \in Seq(Names) : Lookup(v, p) = IF p = r THEN None ELSE Lookup(t, p)
    BY <1>1, <1>2, <1>3, <1>4, <1>5, <2>1, RemovedPaths
  <2> HIDE DEF c, r, i
  <2>6. \A p : Touches(c, p) <=> p = r
    BY <2>3 DEF Touches
  <2>7. Announces(c, t, v)
    BY <2>3, <2>5, <2>6 DEF Announces, Fits, Steps
  <2> QED
    BY <2>3, <2>4, <2>7
<1>7. Compact(t) => Compact(v)
  BY <1>2, <1>4, CompactStays
<1> HIDE DEF c
<1>8. Told(t, Emit(v, c))
  BY <1>3, <1>4, <1>6, <1>7, EmitTells
<1> QED
  BY <1>3, <1>8

\* An entry is moved: first the one in its way is removed.
LEMMA MoveTold ==
  ASSUME NEW t, Sound(t), NEW d, NEW n \in Names, NEW e, NEW m \in Names, MayMove(t, d, n, e, m)
  PROVE  Told(t, Moved(t, d, n, e, m))
<1> DEFINE i == t.entry[<<d, n>>]
           w == IF Listed(t, e, m) THEN Unlinked(t, e, m) ELSE t
           c == Change("rename", i, EntryPath(t, e, m), EntryPath(t, d, n))
<1>1. /\ Sound(w) /\ <<e, m>> \notin DOMAIN w.entry /\ <<d, n>> \in DOMAIN w.entry
      /\ \E v : Sound(v) /\ Moves(w, v, d, n, e, m) /\ Moved(t, d, n, e, m) = Emit(v, c)
  BY MoveKeeps
<1>2. PICK v : Sound(v) /\ Moves(w, v, d, n, e, m) /\ Moved(t, d, n, e, m) = Emit(v, c)
  BY <1>1
<1>3. MayEnter(t, d) /\ MayEnter(t, e) /\ <<d, n>> \in DOMAIN t.entry /\ i \in Inodes
  BY TreeParts DEF MayMove, Listed, Sound, Ground
<1>4. ASSUME Listed(t, e, m)
      PROVE  /\ <<e, m>> \in DOMAIN t.entry /\ Empty(t, t.entry[<<e, m>>]) /\ MayUnlink(t, e, m)
             /\ t.entry[<<e, m>>] # d /\ t.entry[<<e, m>>] # e
  <2> DEFINE j == t.entry[<<e, m>>]
  <2>1. <<e, m>> \in DOMAIN t.entry /\ Child(t, e, m) = j
    BY <1>4 DEF Listed, Child
  <2>2. j # None
    BY <2>1, TreeParts DEF Sound, Ground, Inodes, None
  <2>3. Empty(t, j)
    BY <2>1, <2>2 DEF MayMove
  <2> HIDE DEF j
  <2>4. j # d /\ j # e
    BY <1>3, <2>1, <2>3 DEF Empty, Listed
  <2> QED
    BY <1>3, <1>4, <2>1, <2>3, <2>4 DEF MayUnlink, j
<1>5. Told(t, w)
  <2>1. CASE Listed(t, e, m)
    BY <1>4, <2>1, UnlinkTold
  <2>2. CASE ~Listed(t, e, m)
    <3>1. Told(t, t)
      BY QuietItself, QuietTold DEF Sound, Ground
    <3> QED
      BY <2>2, <3>1
  <2> QED
    BY <2>1, <2>2
<1>6. w.root = t.root /\ w.tracking = t.tracking
      /\ (Listed(t, e, m) => OneLess(t, w.entry, e, m) /\ SameBut(t, w, t.entry[<<e, m>>]))
  <2>1. CASE Listed(t, e, m)
    <3>1. OneLess(t, w.entry, e, m) /\ SameBut(t, w, t.entry[<<e, m>>])
      BY <1>4, <2>1, UnlinkKeeps
    <3> HIDE DEF w
    <3> QED
      BY <1>5, <3>1 DEF SameBut, Told
  <2>2. CASE ~Listed(t, e, m)
    BY <2>2
  <2> QED
    BY <2>1, <2>2
<1>7. v.root = w.root /\ v.changes = w.changes /\ v.tracking = w.tracking
      /\ DOMAIN v.inode = DOMAIN w.inode
  <2> HIDE DEF w
  <2> QED
    BY <1>2 DEF Moves, Shifts, Beside
<1>8. ASSUME w.tracking PROVE c \in Notes /\ c.kind = "rename" /\ Announces(c, w, v)
  <2>1. PICK qd \in Seq(Names) : EntryPath(t, d, n) = Append(qd, n) /\ Lookup(t, qd) = d /\ d \in Dirs(t)
    BY <1>3, <1>6, <1>8, EntryPathLeads
  <2>2. PICK qe \in Seq(Names) : EntryPath(t, e, m) = Append(qe, m) /\ Lookup(t, qe) = e /\ e \in Dirs(t)
    BY <1>3, <1>6, <1>8, EntryPathLeads
  <2> DEFINE y == Append(qd, n)
             z == Append(qe, m)
  <2>3. y \in Seq(Names) /\ z \in Seq(Names)
    OBVIOUS
  <2>4. c.kind = "rename" /\ c.path = z /\ c.old = y
    BY <2>1, <2>2 DEF Change
  <2>5. c \in Notes
    <3> HIDE DEF y, z, i
    <3>1. c = [kind |-> "rename", inode |-> i, path |-> z, old |-> y] /\ i \in 0 .. LastInode
      BY <1>3, <2>1, <2>2 DEF Change, y, z, Inodes
    <3> HIDE DEF c
    <3> QED
      BY <2>3, <3>1 DEF Notes, ChangeKinds
  <2>6. Lookup(w, qd) = d /\ Lookup(w, qe) = e /\ d \in Dirs(w) /\ e \in Dirs(w)
    <3>1. CASE Listed(t, e, m)
      <4>1. \A p \in Seq(Names) : Lookup(w, p) = IF p = z THEN None ELSE Lookup(t, p)
        <5>1. Sound(w) /\ w.root = t.root /\ OneLess(t, w.entry, e, m)
          BY <1>1, <1>6, <3>1
        <5> HIDE DEF w
        <5>2. IsTree(w)
          BY <5>1 DEF Sound, Ground
        <5> QED
          BY <1>4, <2>2, <3>1, <5>1, <5>2, RemovedPaths
      <4>2. Lookup(t, z) = t.entry[<<e, m>>]
        <5>1. Lookup(t, z) = Child(t, e, m)
          BY <2>2, LookupNext DEF Sound, Ground
        <5> QED
          BY <1>4, <3>1, <5>1 DEF Child
      <4>3. qd # z /\ qe # z
        BY <1>4, <2>1, <2>2, <3>1, <4>2
      <4>4. w.inode[d] = t.inode[d] /\ w.inode[e] = t.inode[e] /\ {d, e} \subseteq DOMAIN w.inode
        <5>1. {d, e} \subseteq DOMAIN t.inode \ {t.entry[<<e, m>>]}
          BY <1>4, <2>1, <2>2, <3>1 DEF Dirs
        <5>2. SameBut(t, w, t.entry[<<e, m>>])
          BY <1>6, <3>1
        <5> HIDE DEF w
        <5> QED
          BY <5>1, <5>2 DEF SameBut
      <4> HIDE DEF w, z
      <4> QED
        BY <2>1, <2>2, <4>1, <4>3, <4>4 DEF Dirs
    <3>2. CASE ~Listed(t, e, m)
      BY <2>1, <2>2, <3>2
    <3> QED
      BY <3>1, <3>2
  <2>7. Sound(w) /\ IsTree(v)
    BY <1>1, <1>2 DEF Sound, Ground
  <2> HIDE DEF w
  <2>8. ASSUME NEW x, NEW a, <<x, a>> # <<d, n>>, <<x, a>> # <<e, m>>
        PROVE  Child(v, x, a) = Child(w, x, a)
    <3>1. v.entry = With(Restrict(w.entry, DOMAIN w.entry \ {<<d, n>>}), <<e, m>>, w.entry[<<d, n>>])
      BY <1>2 DEF Moves
    <3>2. /\ DOMAIN v.entry = (DOMAIN w.entry \ {<<d, n>>}) \cup {<<e, m>>}
          /\ \A k \in DOMAIN v.entry : k # <<e, m>> => v.entry[k] = w.entry[k]
      BY <3>1 DEF With, Restrict
    <3> QED
      BY <2>8, <3>2 DEF Child, Listed
  <2>9. \A p \in Seq(Names) : ~Below(y, p) /\ ~Below(z, p) => Lookup(v, p) = Lookup(w, p)
    BY <1>7, <2>6, <2>7, <2>8, EntriesChange
  <2> HIDE DEF c, y, z
  <2>10. Announces(c, w, v)
    BY <2>4, <2>9 DEF Announces, Touches, Fits, Steps
  <2> QED
    BY <2>4, <2>5, <2>10
<1>9. Told(w, Emit(v, c))
  <2>1. IsTree(v) /\ (Compact(w) => Compact(v))
    BY <1>2, <1>7 DEF Compact, Sound, Ground
  <2> HIDE DEF c, w
  <2> QED
    BY <1>7, <1>8, <2>1, EmitTells
<1> HIDE DEF w, c
<1> QED
  BY <1>2, <1>5, <1>9, ToldFurther

\* A new tree.
LEMMA ResetTold ==
  ASSUME NEW t, Sound(t), NEW root \in Inodes, NEW g \in Nat
  PROVE  Told(t, Emit(Fresh(root, g, t.tracking), Change("reset", None, <<>>, <<>>)))
<1> DEFINE v == Fresh(root, g, t.tracking)
           c == Change("reset", None, <<>>, <<>>)
           u == Emit(v, c)
<1>1. Sound(v) /\ IsTree(v) /\ v.changes = <<>> /\ v.tracking = t.tracking /\ DOMAIN v.inode = {root}
  <2>1. t.tracking \in BOOLEAN
    BY TreeParts DEF Sound, Ground
  <2>2. Sound(v) /\ DOMAIN v.inode = {root}
    BY <2>1, FreshSound
  <2> QED
    BY <2>2 DEF Fresh, Sound, Ground
<1> HIDE DEF v
<1>2. u.tracking = v.tracking /\ u.inode = v.inode /\ u.root = v.root /\ u.entry = v.entry /\ IsTree(u)
  BY <1>1, EmitCore, CoreParts
<1>3. Compact(u)
  <2>1. Cardinality({root}) = 1
    BY FS_Singleton
  <2>2. Cardinality(DOMAIN u.inode) = 1
    BY <1>1, <1>2, <2>1
  <2> HIDE DEF u
  <2> QED
    BY <2>2, NamespaceAssumption DEF Compact
<1>4. c \in Notes /\ c.kind = "reset"
  <2>1. <<>> \in Seq(Names) /\ None \in 0 .. LastInode
    BY NamespaceAssumption DEF None
  <2> QED
    BY <2>1 DEF Change, Notes, ChangeKinds
<1>5. Rescan \in Notes /\ Rescan.kind = "rescan"
  BY RescanIs
<1> HIDE DEF c
<1>6. ASSUME t.tracking
      PROVE  \E b \in {c, Rescan} : u.changes = <<b>>
  <2>1. ~Invalidated(v) /\ v.tracking
    BY <1>1, <1>6 DEF Invalidated
  <2>2. u = [v EXCEPT !.changes = IF Len(@) >= MaxChanges THEN <<Rescan>> ELSE Append(@, c)]
    BY <2>1 DEF Emit
  <2>3. u.changes = IF Len(<<>>) >= MaxChanges THEN <<Rescan>> ELSE Append(<<>>, c)
    BY <1>1, <2>2 DEF IsTree, Trees
  <2>4. Append(<<>>, c) = <<c>>
    OBVIOUS
  <2> QED
    BY <2>3, <2>4
<1>7. ~t.tracking => u.changes = <<>>
  BY <1>1 DEF Emit
<1>8. Queued(u)
  <2>1. CASE t.tracking
    <3>1. PICK b \in {c, Rescan} : u.changes = <<b>>
      BY <1>6, <2>1
    <3>2. b \in Notes
      BY <1>4, <1>5
    <3>3. u.changes \in Seq(Notes) /\ Len(u.changes) = 1
      BY <3>1, <3>2
    <3> QED
      BY <3>3 DEF Queued
  <2>2. CASE ~t.tracking
    <3>1. u.changes = <<>> /\ <<>> \in Seq(Notes)
      BY <1>7, <2>2
    <3> HIDE DEF u
    <3> QED
      BY <3>1 DEF Queued, Invalidated
  <2> QED
    BY <2>1, <2>2
<1>9. ASSUME t.tracking, NEW view, NEW Q \in Seq(Notes) PROVE Tells(view, Q \o u.changes, u)
  <2>1. PICK b \in {c, Rescan} : u.changes = <<b>>
    BY <1>6, <1>9
  <2>2. b \in Notes /\ b.kind \in {"reset", "rescan"}
    BY <1>4, <1>5
  <2>3. Q \o <<b>> = Append(Q, b)
    BY <2>2
  <2>4. Tells(view, Append(Q, b), u)
    BY <2>2, TellsAgain
  <2> QED
    BY <2>1, <2>3, <2>4
<1>10. Told(t, u)
  <2>1. u.tracking = t.tracking
    BY <1>1, <1>2
  <2> HIDE DEF u
  <2> QED
    BY <1>3, <1>8, <1>9, <2>1 DEF Told
<1> QED
  BY <1>10 DEF c, v

-----------------------------------------------------------------------------
(* What the operations do to a listing.                                    *)

\* Every entry has a cookie, smaller than the next one its directory gives.
CookieSound(t) ==
  /\ \A k \in DOMAIN t.inode : t.inode[k].next_cookie \in Nat \ {0}
  /\ DOMAIN t.cookie = DOMAIN t.entry
  /\ \A x \in DOMAIN t.entry : t.cookie[x] \in 1 .. t.inode[x[1]].next_cookie - 1

\* An entry y of u was there in t with its cookie, or it is new, after all the others
\* of its directory, and none of the names its inode had there is gone.
Stays(t, u, y) ==
  \E x \in DOMAIN t.entry :
    x[1] = y[1] /\ t.entry[x] = u.entry[y] /\ t.cookie[x] = u.cookie[y]
Joins(t, u, y) ==
  /\ y[1] \in DOMAIN t.inode => t.inode[y[1]].next_cookie <= u.cookie[y]
  /\ \A x \in DOMAIN t.entry :
       x[1] = y[1] /\ t.entry[x] = u.entry[y] =>
         \E z \in DOMAIN u.entry : z # y /\ z[1] = y[1] /\ u.entry[z] = u.entry[y]
Lists(t, u) ==
  CookieSound(t) =>
    /\ CookieSound(u)
    /\ \A k \in DOMAIN t.inode \cap DOMAIN u.inode : t.inode[k].next_cookie <= u.inode[k].next_cookie
    /\ \A y \in DOMAIN u.entry : Stays(t, u, y) \/ Joins(t, u, y)

\* Entries go, and what is left keeps its cookies.
Thins(t, u) ==
  /\ DOMAIN u.entry \subseteq DOMAIN t.entry /\ DOMAIN u.inode \subseteq DOMAIN t.inode
  /\ DOMAIN u.cookie = DOMAIN t.cookie \ (DOMAIN t.entry \ DOMAIN u.entry)
  /\ \A x \in DOMAIN u.entry : u.entry[x] = t.entry[x] /\ (x \in DOMAIN u.cookie => u.cookie[x] = t.cookie[x])
  /\ \A k \in DOMAIN u.inode : u.inode[k].next_cookie = t.inode[k].next_cookie

LEMMA ThinsItself ==
  ASSUME NEW t
  PROVE  Thins(t, t)
BY DEF Thins

LEMMA ThinsFurther ==
  ASSUME NEW t, NEW u, NEW v, Thins(t, u), Thins(u, v)
  PROVE  Thins(t, v)
<1>1. DOMAIN v.cookie = DOMAIN t.cookie \ (DOMAIN t.entry \ DOMAIN v.entry)
  BY DEF Thins
<1>2. \A x \in DOMAIN v.entry : x \in DOMAIN u.entry /\ (x \in DOMAIN v.cookie => x \in DOMAIN u.cookie)
  BY DEF Thins
<1> QED
  BY <1>1, <1>2 DEF Thins

LEMMA QuietThins ==
  ASSUME NEW t, NEW u, Quiet(t, u)
  PROVE  Thins(t, u)
BY DEF Quiet, Thins

\* An entry's directory is there.
LEMMA EntryDirectory ==
  ASSUME NEW t, Sound(t), NEW x \in DOMAIN t.entry
  PROVE  x[1] \in DOMAIN t.inode /\ t.inode[x[1]].next_cookie \in Nat
<1>1. x[1] \in DOMAIN t.inode
  BY DEF Sound, Ground, Shaped, SoundEntries, Dirs
<1>2. t.inode \in [DOMAIN t.inode -> Records]
  BY TreeParts DEF Sound, Ground
<1> QED
  BY <1>1, <1>2 DEF Records

LEMMA ThinLists ==
  ASSUME NEW t, Sound(t), NEW u, Sound(u), Thins(t, u)
  PROVE  Lists(t, u)
<1> SUFFICES ASSUME CookieSound(t)
             PROVE  /\ CookieSound(u)
                    /\ \A k \in DOMAIN t.inode \cap DOMAIN u.inode :
                         t.inode[k].next_cookie <= u.inode[k].next_cookie
                    /\ \A y \in DOMAIN u.entry : Stays(t, u, y) \/ Joins(t, u, y)
  BY DEF Lists
<1>1. DOMAIN u.cookie = DOMAIN u.entry
  BY DEF Thins, CookieSound
<1>2. \A x \in DOMAIN u.entry : x \in DOMAIN t.entry /\ u.entry[x] = t.entry[x] /\ u.cookie[x] = t.cookie[x]
  BY <1>1 DEF Thins
<1>3. \A k \in DOMAIN u.inode : u.inode[k].next_cookie = t.inode[k].next_cookie /\ u.inode[k].next_cookie \in Nat \ {0}
  BY DEF Thins, CookieSound
<1>4. ASSUME NEW x \in DOMAIN u.entry PROVE u.cookie[x] \in 1 .. u.inode[x[1]].next_cookie - 1
  <2>1. x[1] \in DOMAIN u.inode
    BY EntryDirectory
  <2>2. t.cookie[x] \in 1 .. t.inode[x[1]].next_cookie - 1
    BY <1>2 DEF CookieSound
  <2> QED
    BY <1>2, <1>3, <2>1, <2>2
<1>5. CookieSound(u)
  BY <1>1, <1>3, <1>4 DEF CookieSound
<1>6. \A y \in DOMAIN u.entry : Stays(t, u, y)
  BY <1>2 DEF Stays
<1> QED
  BY <1>3, <1>5, <1>6

LEMMA ListsQuiet ==
  ASSUME NEW t, NEW u, Sound(u), NEW v, Sound(v), Lists(t, u), Quiet(u, v)
  PROVE  Lists(t, v)
<1> SUFFICES ASSUME CookieSound(t)
             PROVE  /\ CookieSound(v)
                    /\ \A k \in DOMAIN t.inode \cap DOMAIN v.inode :
                         t.inode[k].next_cookie <= v.inode[k].next_cookie
                    /\ \A y \in DOMAIN v.entry : Stays(t, v, y) \/ Joins(t, v, y)
  BY DEF Lists
<1>1. /\ CookieSound(u)
      /\ \A k \in DOMAIN t.inode \cap DOMAIN u.inode : t.inode[k].next_cookie <= u.inode[k].next_cookie
      /\ \A y \in DOMAIN u.entry : Stays(t, u, y) \/ Joins(t, u, y)
  BY DEF Lists
<1>2. CookieSound(v)
  BY <1>1, QuietThins, ThinLists DEF Lists
<1>3. v.entry = u.entry /\ v.cookie = u.cookie
  BY DEF Quiet
<1>4. \A y \in DOMAIN v.entry : Stays(t, v, y) \/ Joins(t, v, y)
  BY <1>1, <1>3 DEF Stays, Joins
<1>5. \A k \in DOMAIN t.inode \cap DOMAIN v.inode : t.inode[k].next_cookie <= v.inode[k].next_cookie
  BY <1>1 DEF Quiet
<1> QED
  BY <1>2, <1>4, <1>5

\* What is the same for readers.
LEMMA ListsSame ==
  ASSUME NEW t, NEW u, NEW v, Lists(t, u),
         v.entry = u.entry, v.cookie = u.cookie, v.inode = u.inode
  PROVE  Lists(t, v)
BY DEF Lists, CookieSound, Stays, Joins

LEMMA EmitLists ==
  ASSUME NEW t, NEW u, IsTree(u), Lists(t, u), NEW c
  PROVE  Lists(t, Emit(u, c))
<1>1. Core(Emit(u, c)) = Core(u)
  BY EmitCore
<1> QED
  BY <1>1, CoreParts, ListsSame

LEMMA AddLists ==
  ASSUME NEW t, Sound(t), NEW d \in DOMAIN t.inode, NEW n, ~Listed(t, d, n), NEW i,
         NEW v, IsTree(v), Adds(t, v, d, n, i),
         \A k \in DOMAIN v.inode \ DOMAIN t.inode : v.inode[k].next_cookie = 1
  PROVE  Lists(t, v)
<1> SUFFICES ASSUME CookieSound(t)
             PROVE  /\ CookieSound(v)
                    /\ \A k \in DOMAIN t.inode \cap DOMAIN v.inode :
                         t.inode[k].next_cookie <= v.inode[k].next_cookie
                    /\ \A y \in DOMAIN v.entry : Stays(t, v, y) \/ Joins(t, v, y)
  BY DEF Lists
<1> DEFINE y == <<d, n>>
<1>1. /\ DOMAIN v.entry = DOMAIN t.entry \cup {y} /\ v.entry[y] = i /\ y \notin DOMAIN t.entry
      /\ \A x \in DOMAIN t.entry : v.entry[x] = t.entry[x]
      /\ DOMAIN v.cookie = DOMAIN t.entry \cup {y} /\ v.cookie[y] = t.inode[d].next_cookie
      /\ \A x \in DOMAIN t.entry : v.cookie[x] = t.cookie[x]
  BY DEF Adds, With, CookieSound, Listed
<1>2. /\ DOMAIN t.inode \subseteq DOMAIN v.inode
      /\ \A k \in DOMAIN t.inode : /\ t.inode[k].next_cookie \in Nat \ {0}
                                   /\ v.inode[k].next_cookie = t.inode[k].next_cookie + (IF k = d THEN 1 ELSE 0)
  BY DEF Adds, CookieSound
<1>3. y[1] = d
  OBVIOUS
<1> HIDE DEF y
<1>4. \A k \in DOMAIN v.inode : v.inode[k].next_cookie \in Nat \ {0}
  BY <1>2
<1>5. ASSUME NEW x \in DOMAIN v.entry PROVE v.cookie[x] \in 1 .. v.inode[x[1]].next_cookie - 1
  <2>1. CASE x = y
    BY <1>1, <1>2, <1>3, <2>1
  <2>2. CASE x # y
    <3>1. x \in DOMAIN t.entry /\ x[1] \in DOMAIN t.inode
      BY <1>1, <2>2, EntryDirectory
    <3>2. t.cookie[x] \in 1 .. t.inode[x[1]].next_cookie - 1
      BY <3>1 DEF CookieSound
    <3> QED
      BY <1>1, <1>2, <3>1, <3>2
  <2> QED
    BY <2>1, <2>2
<1>6. CookieSound(v)
  BY <1>1, <1>4, <1>5 DEF CookieSound
<1>7. \A x \in DOMAIN t.entry : Stays(t, v, x)
  BY <1>1 DEF Stays
<1>8. Joins(t, v, y)
  BY <1>1, <1>2, <1>3 DEF Joins
<1>9. \A k \in DOMAIN t.inode \cap DOMAIN v.inode : t.inode[k].next_cookie <= v.inode[k].next_cookie
  BY <1>2
<1> QED
  BY <1>1, <1>6, <1>7, <1>8, <1>9

LEMMA RemovesThins ==
  ASSUME NEW t, NEW v, NEW d, NEW n, <<d, n>> \in DOMAIN t.entry, Removes(t, v, d, n)
  PROVE  Thins(t, v)
<1>1. /\ DOMAIN v.entry = DOMAIN t.entry \ {<<d, n>>}
      /\ \A x \in DOMAIN v.entry : v.entry[x] = t.entry[x]
      /\ DOMAIN v.cookie = DOMAIN t.cookie \ {<<d, n>>}
      /\ \A x \in DOMAIN v.cookie : v.cookie[x] = t.cookie[x]
  BY DEF Removes, Restrict
<1> QED
  BY <1>1 DEF Removes, Thins

LEMMA MoveLists ==
  ASSUME NEW t, Sound(t), NEW w, Sound(w), Thins(t, w), NEW v, Sound(v),
         NEW d, NEW n, NEW e, NEW m, Moves(w, v, d, n, e, m),
         <<e, m>> \notin DOMAIN w.entry, <<d, n>> \in DOMAIN w.entry,
         w.entry[<<d, n>>] = t.entry[<<d, n>>], DOMAIN t.entry \subseteq DOMAIN w.entry \cup {<<e, m>>},
         <<e, m>> \in DOMAIN t.entry => t.entry[<<e, m>>] # t.entry[<<d, n>>]
  PROVE  Lists(t, v)
<1> SUFFICES ASSUME CookieSound(t)
             PROVE  /\ CookieSound(v)
                    /\ \A k \in DOMAIN t.inode \cap DOMAIN v.inode :
                         t.inode[k].next_cookie <= v.inode[k].next_cookie
                    /\ \A y \in DOMAIN v.entry : Stays(t, v, y) \/ Joins(t, v, y)
  BY DEF Lists
<1> DEFINE x0 == <<d, n>>
           y0 == <<e, m>>
<1>1. x0[1] = d /\ y0[1] = e /\ x0 # y0
  OBVIOUS
<1>2. /\ v.entry = With(Restrict(w.entry, DOMAIN w.entry \ {x0}), y0, w.entry[x0])
      /\ v.cookie = With(Restrict(w.cookie, DOMAIN w.cookie \ {x0}), y0,
                         IF d = e THEN w.cookie[x0] ELSE w.inode[e].next_cookie)
      /\ DOMAIN v.inode = DOMAIN w.inode
      /\ \A k \in DOMAIN w.inode :
           v.inode[k].next_cookie = w.inode[k].next_cookie + (IF k = e /\ d # e THEN 1 ELSE 0)
  BY DEF Moves, Shifts
<1> HIDE DEF x0, y0
<1>3. CookieSound(w)
  BY ThinLists DEF Lists
<1>4. x0 \in DOMAIN w.entry /\ y0 \notin DOMAIN w.entry /\ w.entry[x0] = t.entry[x0]
      /\ DOMAIN t.entry \subseteq DOMAIN w.entry \cup {y0} /\ (y0 \in DOMAIN t.entry => t.entry[y0] # t.entry[x0])
  BY DEF x0, y0
<1>5. /\ DOMAIN w.cookie = DOMAIN w.entry
      /\ DOMAIN v.entry = (DOMAIN w.entry \ {x0}) \cup {y0}
      /\ v.entry[y0] = w.entry[x0] /\ \A x \in DOMAIN w.entry \ {x0} : v.entry[x] = w.entry[x]
      /\ DOMAIN v.cookie = (DOMAIN w.entry \ {x0}) \cup {y0}
      /\ v.cookie[y0] = (IF d = e THEN w.cookie[x0] ELSE w.inode[e].next_cookie)
      /\ \A x \in DOMAIN w.entry \ {x0} : v.cookie[x] = w.cookie[x]
  BY <1>2, <1>3, <1>4 DEF With, Restrict, CookieSound
<1>6. e \in DOMAIN w.inode
  <2>1. y0 \in DOMAIN v.entry
    BY <1>5
  <2> QED
    BY <1>1, <1>2, <2>1, EntryDirectory
<1>7. \A k \in DOMAIN w.inode : /\ w.inode[k].next_cookie \in Nat \ {0} /\ k \in DOMAIN t.inode
                                /\ w.inode[k].next_cookie = t.inode[k].next_cookie
  BY <1>3 DEF CookieSound, Thins
<1>8. \A x \in DOMAIN w.entry : /\ x \in DOMAIN t.entry /\ w.entry[x] = t.entry[x]
                                /\ w.cookie[x] = t.cookie[x]
                                /\ w.cookie[x] \in 1 .. w.inode[x[1]].next_cookie - 1
                                /\ x[1] \in DOMAIN w.inode
  BY <1>3, <1>5, EntryDirectory DEF Thins, CookieSound
<1>9. \A k \in DOMAIN v.inode : v.inode[k].next_cookie \in Nat \ {0}
  BY <1>2, <1>7
<1>10. ASSUME NEW x \in DOMAIN v.entry PROVE v.cookie[x] \in 1 .. v.inode[x[1]].next_cookie - 1
  <2>0. ASSUME NEW k \in DOMAIN w.inode, NEW c \in 1 .. w.inode[k].next_cookie - 1
        PROVE  c \in 1 .. v.inode[k].next_cookie - 1
    BY <1>2, <1>7
  <2>1. CASE x = y0
    <3>1. CASE d = e
      <4>1. v.cookie[x] = w.cookie[x0] /\ x[1] = d /\ w.cookie[x0] \in 1 .. w.inode[d].next_cookie - 1
        BY <1>1, <1>4, <1>5, <1>8, <2>1, <3>1
      <4> QED
        BY <1>6, <2>0, <3>1, <4>1
    <3>2. CASE d # e
      BY <1>1, <1>2, <1>5, <1>6, <1>7, <2>1, <3>2
    <3> QED
      BY <3>1, <3>2
  <2>2. CASE x # y0
    <3>1. x \in DOMAIN w.entry \ {x0}
      BY <1>5, <2>2
    <3>2. v.cookie[x] = w.cookie[x]
      BY <1>5, <3>1
    <3> QED
      BY <1>8, <2>0, <3>1, <3>2
  <2> QED
    BY <2>1, <2>2
<1>11. CookieSound(v)
  BY <1>5, <1>9, <1>10 DEF CookieSound
<1>12. \A k \in DOMAIN t.inode \cap DOMAIN v.inode : t.inode[k].next_cookie <= v.inode[k].next_cookie
  BY <1>2, <1>7
<1>13. ASSUME NEW y \in DOMAIN v.entry PROVE Stays(t, v, y) \/ Joins(t, v, y)
  <2>1. CASE y # y0
    <3>1. y \in DOMAIN w.entry \ {x0}
      BY <1>5, <2>1
    <3> QED
      BY <1>5, <1>8, <3>1 DEF Stays
  <2>2. CASE y = y0 /\ d = e
    BY <1>1, <1>4, <1>5, <1>8, <2>2 DEF Stays
  <2>3. CASE y = y0 /\ d # e
    <3>1. t.inode[y[1]].next_cookie <= v.cookie[y]
      BY <1>1, <1>5, <1>6, <1>7, <2>3
    <3>2. ASSUME NEW x \in DOMAIN t.entry, x[1] = y[1], t.entry[x] = v.entry[y]
          PROVE  x # y /\ x \in DOMAIN v.entry /\ v.entry[x] = v.entry[y]
      <4>1. x # y0
        BY <1>4, <1>5, <2>3, <3>2
      <4>2. x # x0
        BY <1>1, <2>3, <3>2
      <4>3. x \in DOMAIN w.entry \ {x0}
        BY <1>4, <4>1, <4>2
      <4> QED
        BY <1>5, <1>8, <2>3, <3>2, <4>1, <4>3
    <3> QED
      BY <3>1, <3>2 DEF Joins
  <2> QED
    BY <2>1, <2>2, <2>3
<1> QED
  BY <1>11, <1>12, <1>13

-----------------------------------------------------------------------------
(* What the operations do to both views.                                   *)

Seen(t, u) == Told(t, u) /\ Lists(t, u)

LEMMA QuietSeen ==
  ASSUME NEW t, Sound(t), NEW u, Sound(u), Quiet(t, u)
  PROVE  Seen(t, u)
BY QuietTold, QuietThins, ThinLists DEF Seen, Sound, Ground

LEMMA SeenQuiet ==
  ASSUME NEW t, NEW u, Sound(u), NEW v, Sound(v), Seen(t, u), Quiet(u, v)
  PROVE  Seen(t, v)
<1>1. Told(u, v)
  BY QuietTold DEF Sound, Ground
<1> QED
  BY <1>1, ToldFurther, ListsQuiet DEF Seen

LEMMA InsertSeen ==
  ASSUME NEW t, Sound(t), NEW d, NEW n \in Names, MayInsert(t, d, n),
         NEW kind \in Kinds, NEW size \in Nat
  PROVE  Seen(t, Inserted(t, d, n, kind, size))
<1>1. PICK v : /\ IsTree(v) /\ Adds(t, v, d, n, t.next)
               /\ DOMAIN v.inode = DOMAIN t.inode \cup {t.next}
               /\ v.inode[t.next].next_cookie = 1
               /\ Inserted(t, d, n, kind, size)
                    = Emit(v, Change("create", t.next, EntryPath(t, d, n), <<>>))
  BY InsertKeeps
<1>2. d \in DOMAIN t.inode /\ ~Listed(t, d, n)
  BY DEF MayInsert, MayEnter, IsDirectory, Exists
<1>3. Lists(t, v)
  BY <1>1, <1>2, AddLists
<1> QED
  BY <1>1, <1>3, EmitLists, InsertTold DEF Seen

LEMMA LinkSeen ==
  ASSUME NEW t, Sound(t), NEW d, NEW n \in Names, NEW i, MayLink(t, d, n, i)
  PROVE  Seen(t, Linked(t, d, n, i))
<1>1. PICK v : /\ IsTree(v) /\ Adds(t, v, d, n, i) /\ DOMAIN v.inode = DOMAIN t.inode
               /\ Linked(t, d, n, i) = Emit(v, Change("create", i, EntryPath(t, d, n), <<>>))
  BY LinkKeeps
<1>2. d \in DOMAIN t.inode /\ ~Listed(t, d, n)
  BY DEF MayLink, MayEnter, IsDirectory, Exists
<1>3. Lists(t, v)
  BY <1>1, <1>2, AddLists
<1> QED
  BY <1>1, <1>3, EmitLists, LinkTold DEF Seen

LEMMA UnlinkThins ==
  ASSUME NEW t, Sound(t), NEW d, NEW n, Listed(t, d, n), Empty(t, t.entry[<<d, n>>])
  PROVE  Thins(t, Unlinked(t, d, n))
<1> DEFINE c == Change("remove", t.entry[<<d, n>>], EntryPath(t, d, n), <<>>)
<1>1. PICK v : IsTree(v) /\ Removes(t, v, d, n) /\ Unlinked(t, d, n) = Emit(v, c)
  BY UnlinkKeeps
<1>2. Thins(t, v)
  BY <1>1, RemovesThins DEF Listed
<1> HIDE DEF c
<1>3. Core(Unlinked(t, d, n)) = Core(v)
  BY <1>1, EmitCore
<1> QED
  BY <1>2, <1>3, CoreParts DEF Thins

LEMMA UnlinkSeen ==
  ASSUME NEW t, Sound(t), NEW d, NEW n, MayUnlink(t, d, n)
  PROVE  Seen(t, Unlinked(t, d, n))
<1>1. Listed(t, d, n) /\ Empty(t, t.entry[<<d, n>>])
  BY DEF MayUnlink
<1>2. Sound(Unlinked(t, d, n))
  BY <1>1, UnlinkKeeps DEF Keeps
<1> QED
  BY <1>1, <1>2, UnlinkThins, ThinLists, UnlinkTold DEF Seen

LEMMA MoveSeen ==
  ASSUME NEW t, Sound(t), NEW d, NEW n \in Names, NEW e, NEW m \in Names, MayMove(t, d, n, e, m)
  PROVE  Seen(t, Moved(t, d, n, e, m))
<1> DEFINE w == IF Listed(t, e, m) THEN Unlinked(t, e, m) ELSE t
           c == Change("rename", t.entry[<<d, n>>], EntryPath(t, e, m), EntryPath(t, d, n))
<1>1. /\ Sound(w) /\ <<e, m>> \notin DOMAIN w.entry /\ <<d, n>> \in DOMAIN w.entry
      /\ w.entry[<<d, n>>] = t.entry[<<d, n>>]
      /\ \E v : Sound(v) /\ Moves(w, v, d, n, e, m) /\ Moved(t, d, n, e, m) = Emit(v, c)
  BY MoveKeeps
<1>2. PICK v : Sound(v) /\ Moves(w, v, d, n, e, m) /\ Moved(t, d, n, e, m) = Emit(v, c)
  BY <1>1
<1>3. ASSUME <<e, m>> \in DOMAIN t.entry
      PROVE  t.entry[<<e, m>>] # t.entry[<<d, n>>] /\ Empty(t, t.entry[<<e, m>>]) /\ Listed(t, e, m)
  <2>1. Child(t, e, m) = t.entry[<<e, m>>] /\ t.entry[<<e, m>>] # None /\ Listed(t, e, m)
    BY <1>3, TreeParts DEF Child, Listed, Sound, Ground, Inodes, None
  <2> QED
    BY <2>1 DEF MayMove
<1>4. Thins(t, w) /\ DOMAIN t.entry \subseteq DOMAIN w.entry \cup {<<e, m>>}
  <2>1. CASE Listed(t, e, m)
    <3>1. Empty(t, t.entry[<<e, m>>])
      BY <1>3, <2>1 DEF Listed
    <3>2. OneLess(t, Unlinked(t, e, m).entry, e, m) /\ Thins(t, Unlinked(t, e, m))
      BY <2>1, <3>1, UnlinkKeeps, UnlinkThins
    <3> QED
      BY <2>1, <3>2 DEF OneLess
  <2>2. CASE ~Listed(t, e, m)
    BY <2>2, ThinsItself
  <2> QED
    BY <2>1, <2>2
<1> HIDE DEF w, c
<1>5. Lists(t, v)
  BY <1>1, <1>2, <1>3, <1>4, MoveLists
<1>6. Lists(t, Moved(t, d, n, e, m))
  BY <1>2, <1>5, EmitLists DEF Sound, Ground
<1> QED
  BY <1>6, MoveTold DEF Seen

LEMMA ResizeSeen ==
  ASSUME NEW t, Sound(t), NEW i \in DOMAIN t.inode, NEW size \in Nat
  PROVE  Seen(t, Resized(t, i, size))
<1>1. PICK v : /\ IsTree(v) /\ Quiet(t, v)
               /\ Resized(t, i, size) = Emit(v, Change("write", i, <<>>, <<>>))
  BY ResizeKeeps
<1>2. Told(t, Resized(t, i, size))
  BY <1>1, PlainTold DEF Sound, Ground
<1>3. Sound(Resized(t, i, size))
  BY ResizeKeeps DEF Keeps
<1>4. Core(Resized(t, i, size)) = Core(v)
  BY <1>1, EmitCore
<1>5. Thins(t, Resized(t, i, size))
  BY <1>1, <1>4, CoreParts, QuietThins DEF Thins
<1> QED
  BY <1>2, <1>3, <1>5, ThinLists DEF Seen

LEMMA RetouchSeen ==
  ASSUME NEW t, Sound(t), NEW i \in DOMAIN t.inode
  PROVE  Seen(t, Retouched(t, i))
<1>1. IsTree(t) /\ Quiet(t, t) /\ Retouched(t, i) = Emit(t, Change("metadata", i, <<>>, <<>>))
  BY QuietItself DEF Retouched, Sound, Ground
<1>2. Told(t, Retouched(t, i))
  BY <1>1, PlainTold
<1>3. Lists(t, t)
  BY ThinsItself, ThinLists
<1>4. Lists(t, Retouched(t, i))
  BY <1>1, <1>3, EmitLists
<1> QED
  BY <1>2, <1>4 DEF Seen

\* What is removed on the way down from the root may be removed.
LEMMA PrunedIs ==
  ASSUME NEW t, Sound(t), Compact(t)
  PROVE  Pruned(t) = t \/ \E d, n : MayUnlink(t, d, n) /\ Pruned(t) = Unlinked(t, d, n)
<1>1. CASE Leaves(t) = {}
  BY <1>1 DEF Pruned
<1>2. CASE Leaves(t) # {}
  <2>1. PICK x \in Leaves(t) : Pruned(t) = Unlinked(t, x[1], x[2])
    BY <1>2 DEF Pruned
  <2>2. x \in DOMAIN t.entry /\ x = <<x[1], x[2]>>
    BY TreeParts DEF Leaves, Sound, Ground
  <2>3. Listed(t, x[1], x[2]) /\ Empty(t, t.entry[<<x[1], x[2]>>])
    BY <2>2 DEF Leaves, Listed
  <2>4. x[1] \in Dirs(t) /\ t.inode[x[1]].links > 0
    BY <2>2 DEF Sound, Ground, Shaped, SoundEntries
  <2>5. Climb(t, x[1]).top = t.root
    BY <2>4, ClimbTop
  <2>6. MayUnlink(t, x[1], x[2])
    BY <2>3, <2>4, <2>5 DEF MayUnlink, MayEnter, IsDirectory, Exists, Dirs
  <2> QED
    BY <2>1, <2>6
<1> QED
  BY <1>1, <1>2

LEMMA ClearSeen ==
  ASSUME NEW t, Sound(t), Compact(t)
  PROVE  Seen(t, Cleared(t))
<1>1. PICK m, tree : /\ m \in Nat /\ tree[0] = t /\ Cleared(t) = tree[m]
                     /\ \A k \in 0 .. m - 1 : tree[k + 1] = Pruned(tree[k])
  BY ClearSteps
<1> DEFINE Fine(u) == Sound(u) /\ Told(t, u) /\ Thins(t, u)
           Q == {k \in 0 .. m : Fine(tree[k])}
<1>2. Told(t, t)
  BY QuietItself, QuietTold DEF Sound, Ground
<1>3. 0 \in Q
  BY <1>1, <1>2, ThinsItself
<1>4. ASSUME NEW u, Fine(u) PROVE Fine(Pruned(u))
  <2>1. Compact(u)
    BY <1>4 DEF Told
  <2>2. CASE Pruned(u) = u
    BY <1>4, <2>2
  <2>3. CASE \E d, n : MayUnlink(u, d, n) /\ Pruned(u) = Unlinked(u, d, n)
    <3>1. PICK d, n : MayUnlink(u, d, n) /\ Pruned(u) = Unlinked(u, d, n)
      BY <2>3
    <3>2. Listed(u, d, n) /\ Empty(u, u.entry[<<d, n>>])
      BY <3>1 DEF MayUnlink
    <3>3. Told(u, Pruned(u)) /\ Thins(u, Pruned(u)) /\ Sound(Pruned(u))
      BY <1>4, <3>1, <3>2, UnlinkTold, UnlinkThins, UnlinkKeeps DEF Keeps
    <3> QED
      BY <1>4, <3>3, ToldFurther, ThinsFurther
  <2> QED
    BY <1>4, <2>1, <2>2, <2>3, PrunedIs
<1> HIDE DEF Fine
<1>5. ASSUME NEW k \in 0 .. m - 1, k \in Q PROVE k + 1 \in Q
  <2>1. k + 1 \in 0 .. m /\ tree[k + 1] = Pruned(tree[k])
    BY <1>1
  <2>2. Fine(tree[k])
    BY <1>5
  <2> QED
    BY <1>4, <2>1, <2>2
<1> HIDE DEF Q
<1>6. \A k \in 0 .. m : k \in Q
  BY <1>1, <1>3, <1>5, InductionUpTo
<1>7. Fine(Cleared(t))
  BY <1>1, <1>6 DEF Q
<1> QED
  BY <1>7, ThinLists DEF Fine, Seen

LEMMA ResetSeen ==
  ASSUME NEW t, Sound(t), MayReplace(t)
  PROVE  Seen(t, Replaced(t))
<1> DEFINE v == Fresh(t.next, t.generation + 1, t.tracking)
<1>1. t.next \in Inodes /\ t.generation + 1 \in Nat /\ t.next \notin DOMAIN t.inode /\ t.tracking \in BOOLEAN
  <2>1. t.next \in 2 .. LastInode + 1 /\ t.generation \in Nat /\ t.tracking \in BOOLEAN
    BY TreeParts DEF Sound, Ground
  <2>2. DOMAIN t.inode \subseteq 1 .. t.next - 1
    BY DEF Sound, Ground, Shaped, SoundEntries
  <2> QED
    BY <2>1, <2>2 DEF MayReplace, Inodes
<1>2. Told(t, Replaced(t))
  BY <1>1, ResetTold DEF Replaced
<1>3. IsTree(v) /\ DOMAIN v.inode = {t.next} /\ v.inode[t.next].next_cookie = 1
      /\ DOMAIN v.entry = {} /\ DOMAIN v.cookie = {}
  <2>1. Sound(v)
    BY <1>1, FreshSound
  <2> QED
    BY <2>1 DEF Fresh, NewInode, Sound, Ground
<1> HIDE DEF v
<1>4. Lists(t, v)
  BY <1>1, <1>3 DEF Lists, CookieSound
<1>5. Lists(t, Replaced(t))
  BY <1>3, <1>4, EmitLists DEF Replaced, v
<1> QED
  BY <1>2, <1>5 DEF Seen

-----------------------------------------------------------------------------
(* The steps.                                                              *)

\* What a step leaves of the tree it has made, and where the notifications are.
Carries(t) ==
  /\ fs'.root = t.root /\ fs'.entry = t.entry /\ fs'.tracking = t.tracking
  /\ DOMAIN fs'.inode = DOMAIN t.inode
  /\ Uses("readdir") => fs'.cookie = t.cookie /\ fs'.inode = t.inode
  /\ \/ fs'.changes = t.changes /\ microtasks' = microtasks
     \/ fs'.changes = <<>> /\ microtasks' = microtasks \o t.changes
Advances ==
  /\ \E t : Seen(fs, t) /\ Carries(t)
  /\ UNCHANGED <<subscribed, mirror, workload>>

LEMMA ReplyAdvances ==
  ASSUME NEW s, NEW t, Sound(t), NEW table, Seen(fs, t), Reply(s, t, table)
  PROVE  Advances
<1> DEFINE u == Remembered(t)
<1>1. /\ DOMAIN u.inode = DOMAIN t.inode /\ u.root = t.root /\ u.entry = t.entry
      /\ u.changes = t.changes /\ u.tracking = t.tracking /\ (Uses("readdir") => u = t)
  BY RememberedKeeps
<1>2. fs' = u /\ UNCHANGED <<subscribed, microtasks, mirror, workload>>
  BY DEF Reply, hostVars
<1> HIDE DEF u
<1>3. Carries(t)
  BY <1>1, <1>2 DEF Carries
<1> QED
  BY <1>2, <1>3 DEF Advances

LEMMA HostAdvances ==
  ASSUME NEW t, Sound(t), Seen(fs, t), HostDone(t)
  PROVE  Advances
<1> DEFINE u == Remembered(t)
<1>1. /\ DOMAIN u.inode = DOMAIN t.inode /\ u.root = t.root /\ u.entry = t.entry
      /\ u.changes = t.changes /\ u.tracking = t.tracking /\ (Uses("readdir") => u = t)
      /\ IsTree(u)
  BY RememberedKeeps DEF Keeps, Sound, Ground
<1>2. fs' = [u EXCEPT !.changes = <<>>] /\ microtasks' = microtasks \o t.changes
      /\ UNCHANGED <<subscribed, mirror, workload>>
  BY DEF HostDone
<1> HIDE DEF u
<1>3. /\ fs'.root = u.root /\ fs'.entry = u.entry /\ fs'.tracking = u.tracking /\ fs'.inode = u.inode
      /\ fs'.cookie = u.cookie /\ fs'.changes = <<>>
  BY <1>1, <1>2 DEF IsTree, Trees
<1>4. Carries(t)
  BY <1>1, <1>2, <1>3 DEF Carries
<1> QED
  BY <1>2, <1>4 DEF Advances

\* A step that only releases something.
LEMMA QuietAdvances ==
  ASSUME Sound(fs), Sound(fs'), Quiet(fs, fs'), UNCHANGED <<hostVars, workload>>
  PROVE  Advances
<1>1. Seen(fs, fs')
  BY QuietSeen
<1>2. UNCHANGED <<subscribed, microtasks, mirror, workload>>
  BY DEF hostVars
<1>3. Carries(fs')
  BY <1>2 DEF Carries
<1> QED
  BY <1>1, <1>2, <1>3 DEF Advances

LEMMA SameSeen ==
  ASSUME NEW t, Sound(t)
  PROVE  Seen(t, t)
BY QuietItself, QuietSeen

LEMMA InstallAdvances ==
  ASSUME SessionsSound, running, NEW s \in Sessions, NEW t, Keeps(fs, t), Seen(fs, t), NEW f \in Fids,
         NEW i \in DOMAIN t.inode, NEW open \in Accesses \cup {Closed}, Install(s, t, f, i, open)
  PROVE  Advances
<1> DEFINE u == Installed(t, fids[s], f, i)
           r == [inode |-> i, open |-> open]
<1>1. Settled(t, fids) /\ Settled(fs, fids)
  BY SettledStays DEF SessionsSound
<1>2. Sound(u) /\ Quiet(t, u)
  BY <1>1, InstallAccounted DEF Settled
<1>3. Table(s) = fids[s]
  BY TableIs
<1>4. Reply(s, u, With(fids[s], f, r))
  BY <1>3 DEF Install
<1> HIDE DEF u, r
<1>5. Seen(fs, u)
  BY <1>1, <1>2, SeenQuiet DEF Settled
<1> QED
  BY <1>2, <1>4, <1>5, ReplyAdvances

LEMMA AttachAdvances ==
  ASSUME SessionsSound, NEW s \in Sessions, NEW f \in Fids, Attach(s, f)
  PROVE  Advances
<1>1. running /\ Install(s, fs, f, fs.root, Closed) /\ Sound(fs) /\ fs.root \in DOMAIN fs.inode
  BY NoneIsNot DEF Attach, Ready, SessionsSound, Settled, Dirs
<1>2. Keeps(fs, fs) /\ Seen(fs, fs) /\ Closed \in Accesses \cup {Closed}
  BY <1>1, KeepsItself, SameSeen
<1> QED
  BY <1>1, <1>2, InstallAdvances

LEMMA WalkAdvances ==
  ASSUME SessionsSound, NEW s \in Sessions, NEW f \in Fids, NEW g \in Fids,
         NEW names \in Walks, Walk(s, f, g, names)
  PROVE  Advances
<1> DEFINE i == FoldLeft(Stepped, Held(s, f), names)
<1>1. running /\ f \in DOMAIN Table(s) /\ i # None /\ Install(s, fs, g, i, Closed)
  BY DEF Walk, Ready
<1>2. Sound(fs) /\ Keeps(fs, fs) /\ Seen(fs, fs) /\ Closed \in Accesses \cup {Closed}
  BY KeepsItself, SameSeen DEF SessionsSound, Settled
<1>3. Held(s, f) \in DOMAIN fs.inode
  BY <1>1, HeldIs
<1>4. PICK m \in Nat : DOMAIN names = 1 .. m
  <2>1. PICK m \in 0 .. MaxWalk : names \in [1 .. m -> Names \cup {Up}]
    BY DEF Walks, SeqOf
  <2>2. m \in Nat
    BY <2>1, NinePAssumption
  <2> QED
    BY <2>1, <2>2
<1>5. i \in DOMAIN fs.inode
  BY <1>1, <1>2, <1>3, <1>4, WalkStays
<1> HIDE DEF i
<1> QED
  BY <1>1, <1>2, <1>5, InstallAdvances

\* O_TRUNC or not.
LEMMA TruncatedSeen ==
  ASSUME NEW t, Sound(t), NEW i \in DOMAIN t.inode, NEW truncate \in BOOLEAN
  PROVE  LET u == IF truncate THEN Resized(t, i, 0) ELSE t
         IN Keeps(t, u) /\ Seen(t, u) /\ i \in DOMAIN u.inode
<1>1. Keeps(t, t) /\ Seen(t, t)
  BY KeepsItself, SameSeen
<1>2. 0 \in Nat
  OBVIOUS
<1>3. Keeps(t, Resized(t, i, 0)) /\ Seen(t, Resized(t, i, 0)) /\ i \in DOMAIN Resized(t, i, 0).inode
  BY <1>2, ResizeKeeps, ResizeSeen
<1> QED
  BY <1>1, <1>3

LEMMA OpenAdvances ==
  ASSUME SessionsSound, NEW s \in Sessions, NEW f \in Fids, NEW access \in Accesses,
         NEW truncate \in BOOLEAN, Open(s, f, access, truncate)
  PROVE  Advances
<1> DEFINE i == Held(s, f)
           t == IF truncate THEN Resized(fs, i, 0) ELSE fs
<1>1. running /\ f \in DOMAIN Table(s) /\ Reply(s, t, [Table(s) EXCEPT ![f].open = access])
  BY DEF Open, Ready
<1>2. Sound(fs) /\ i \in DOMAIN fs.inode
  BY <1>1, HeldIs DEF SessionsSound, Settled
<1>3. Keeps(fs, t) /\ Seen(fs, t)
  BY <1>2, TruncatedSeen
<1> HIDE DEF t
<1> QED
  BY <1>1, <1>3, ReplyAdvances DEF Keeps

LEMMA CreateAdvances ==
  ASSUME SessionsSound, NEW s \in Sessions, NEW f \in Fids, NEW n \in Names,
         NEW access \in Accesses, NEW truncate \in BOOLEAN, Create(s, f, n, access, truncate)
  PROVE  Advances
<1> DEFINE d == Held(s, f)
           i == Child(fs, d, n)
           t == IF truncate THEN Resized(fs, i, 0) ELSE fs
           u == Inserted(fs, d, n, "file", 0)
<1>1. running /\ Sound(fs)
  BY DEF Create, Ready, SessionsSound, Settled
<1>2. CASE IsFile(fs, i) /\ Install(s, t, f, i, access)
  <2>1. i \in DOMAIN fs.inode
    BY <1>2 DEF IsFile, Exists
  <2>2. Keeps(fs, t) /\ Seen(fs, t) /\ i \in DOMAIN t.inode
    BY <1>1, <2>1, TruncatedSeen
  <2> HIDE DEF t, i
  <2> QED
    BY <1>1, <1>2, <2>2, InstallAdvances
<1>3. CASE MayInsert(fs, d, n) /\ Install(s, u, f, fs.next, access)
  <2>1. Keeps(fs, u) /\ fs.next \in DOMAIN u.inode /\ Seen(fs, u)
    BY <1>1, <1>3, InsertKeeps, InsertSeen DEF Kinds
  <2> HIDE DEF u, d
  <2> QED
    BY <1>1, <1>3, <2>1, InstallAdvances
<1> QED
  BY <1>2, <1>3 DEF Create

LEMMA ClunkAdvances ==
  ASSUME SessionsSound, NEW s \in Sessions, NEW f \in Fids, Clunk(s, f)
  PROVE  Advances
<1> DEFINE t == ReleaseFid(fs, fids[s][f].inode)
<1>1. f \in DOMAIN Table(s)
  BY DEF Clunk
<1>2. Settled(fs, fids) /\ Sound(fs)
  BY DEF SessionsSound, Settled
<1>3. f \in DOMAIN fids[s] /\ Held(s, f) = fids[s][f].inode /\ Table(s) = fids[s]
  BY <1>1, HeldIs
<1>4. Reply(s, t, Restrict(fids[s], DOMAIN fids[s] \ {f}))
  BY <1>3 DEF Clunk
<1>5. Sound(t) /\ Quiet(fs, t)
  BY <1>2, <1>3, ClunkAccounted DEF Settled
<1> HIDE DEF t
<1> QED
  BY <1>2, <1>4, <1>5, QuietSeen, ReplyAdvances

LEMMA WriteAdvances ==
  ASSUME SessionsSound, NEW s \in Sessions, NEW f \in Fids, NEW offset \in 0 .. MaxFileBytes,
         NEW count \in 0 .. MaxFileBytes, NEW append \in BOOLEAN, Write(s, f, offset, count, append)
  PROVE  Advances
<1> DEFINE i == Held(s, f)
           size == SizeAfter(fs, i, offset, count, append)
<1>1. running /\ f \in DOMAIN Table(s) /\ Reply(s, Resized(fs, i, size), Table(s))
  BY DEF Write, Ready
<1>2. Sound(fs) /\ i \in DOMAIN fs.inode
  BY <1>1, HeldIs DEF SessionsSound, Settled
<1>3. size \in Nat
  <2>1. fs.inode[i].size \in Nat
    BY <1>2, TreeParts DEF Sound, Ground, Records
  <2>2. offset \in Nat /\ count \in Nat
    BY NamespaceAssumption
  <2>3. (IF append THEN fs.inode[i].size ELSE offset) + count \in Nat
    BY <2>1, <2>2
  <2> QED
    BY <2>1, <2>3, LargerIs DEF SizeAfter
<1> HIDE DEF i, size
<1>4. Sound(Resized(fs, i, size)) /\ Seen(fs, Resized(fs, i, size))
  BY <1>2, <1>3, ResizeKeeps, ResizeSeen DEF Keeps
<1> QED
  BY <1>1, <1>4, ReplyAdvances

\* Requests that change the tree and leave the session's table.
LEMMA TreeAdvances ==
  ASSUME SessionsSound, NEW s \in Sessions, NEW f \in Fids, NEW n \in Names, NEW g \in Fids,
         NEW m \in Names, NEW kind \in {"directory", "symlink"},
         \/ Mkdir(s, f, n, kind)
         \/ Link(s, f, n, g) \/ Rename(s, f, n, g, m) \/ Unlink(s, f, n)
  PROVE  Advances
<1> DEFINE d == Held(s, f)
<1>1. Sound(fs) /\ 0 \in Nat /\ kind \in Kinds
  BY DEF SessionsSound, Settled, Kinds
<1>2. f \in DOMAIN Table(s)
  BY DEF Mkdir, Link, Rename, Unlink
<1>3. d \in DOMAIN fs.inode
  BY <1>2, HeldIs
<1>4. ASSUME NEW t, Keeps(fs, t), Seen(fs, t), Reply(s, t, Table(s)) PROVE Advances
  BY <1>4, ReplyAdvances DEF Keeps
<1>7. CASE Mkdir(s, f, n, kind)
  <2>1. MayInsert(fs, d, n) /\ Reply(s, Inserted(fs, d, n, kind, 0), Table(s))
    BY <1>7 DEF Mkdir
  <2> HIDE DEF d
  <2> QED
    BY <1>1, <1>4, <2>1, InsertKeeps, InsertSeen
<1>8. CASE Link(s, f, n, g)
  <2>1. MayLink(fs, d, n, Held(s, g)) /\ Reply(s, Linked(fs, d, n, Held(s, g)), Table(s))
    BY <1>8 DEF Link
  <2> HIDE DEF d
  <2> QED
    BY <1>1, <1>4, <2>1, LinkKeeps, LinkSeen
<1>9. CASE Rename(s, f, n, g, m)
  <2>1. MayMove(fs, d, n, Held(s, g), m) /\ Reply(s, Moved(fs, d, n, Held(s, g), m), Table(s))
    BY <1>9 DEF Rename
  <2> HIDE DEF d
  <2>2. Keeps(fs, Moved(fs, d, n, Held(s, g), m))
    BY <1>1, <2>1, MoveKeeps
  <2>3. Seen(fs, Moved(fs, d, n, Held(s, g), m))
    BY <1>1, <2>1, MoveSeen
  <2> QED
    BY <1>4, <2>1, <2>2, <2>3
<1>10. CASE Unlink(s, f, n)
  <2>1. MayUnlink(fs, d, n) /\ Reply(s, Unlinked(fs, d, n), Table(s))
    BY <1>10 DEF Unlink
  <2> HIDE DEF d
  <2>2. Keeps(fs, Unlinked(fs, d, n))
    BY <1>1, <2>1, UnlinkKeeps DEF MayUnlink
  <2> QED
    BY <1>1, <1>4, <2>1, <2>2, UnlinkSeen
<1> QED
  BY <1>7, <1>8, <1>9, <1>10

\* Requests that change the locks.
LEMMA LockAdvances ==
  ASSUME SessionsSound, NEW s \in Sessions, NEW r \in Ranges,
         r.inode \in DOMAIN fs.inode, fs.inode[r.inode].kind = "file",
         NEW L, L = Subtracted(fs, r) \/ L = Subtracted(fs, r) \cup {r},
         Reply(s, [fs EXCEPT !.locks = L], Table(s))
  PROVE  Advances
<1> DEFINE t == [fs EXCEPT !.locks = L]
<1>1. Sound(fs) /\ IsTree(fs) /\ fs.locks \subseteq Ranges
  BY TreeParts DEF SessionsSound, Settled, Sound, Ground
<1>2. \A l \in fs.locks : l.inode \in DOMAIN fs.inode /\ fs.inode[l.inode].kind = "file"
  BY <1>1 DEF Sound, Ground, SoundLocks
<1>3. L \subseteq Ranges /\ \A l \in L : l.inode \in DOMAIN fs.inode /\ fs.inode[l.inode].kind = "file"
  <2>1. Subtracted(fs, r) \subseteq Ranges /\ \A x \in Subtracted(fs, r) : \E l \in fs.locks : Akin(x, l)
    BY <1>1, SubtractedIs
  <2> QED
    BY <1>2, <2>1 DEF Akin
<1>4. Sound(t) /\ Quiet(fs, t)
  BY <1>1, <1>3, LocksKeep, LocksQuiet
<1> HIDE DEF t
<1>5. Seen(fs, t)
  BY <1>1, <1>4, QuietSeen
<1>6. Reply(s, t, Table(s))
  BY DEF t
<1> QED
  BY <1>4, <1>5, <1>6, ReplyAdvances

LEMMA LockStepAdvances ==
  ASSUME SessionsSound, NEW s \in Sessions, NEW f, NEW owner \in Owners,
         NEW kind \in {"read", "write"}, NEW start \in Bytes, NEW length \in Bytes,
         Lock(s, f, owner, kind, start, length) \/ Unlock(s, f, owner, start, length)
  PROVE  Advances
<1>1. CASE Lock(s, f, owner, kind, start, length)
  <2> DEFINE r == Request(s, f, owner, kind, start, length)
  <2>1. Lockable(s, f) /\ Reply(s, Locked(fs, r), Table(s))
    BY <1>1 DEF Lock
  <2>2. r \in Ranges /\ r.inode \in DOMAIN fs.inode /\ fs.inode[r.inode].kind = "file"
    BY <2>1, RequestIs
  <2> HIDE DEF r
  <2>3. Reply(s, [fs EXCEPT !.locks = Subtracted(fs, r) \cup {r}], Table(s))
    BY <2>1 DEF Locked
  <2> QED
    BY <2>2, <2>3, LockAdvances
<1>2. CASE Unlock(s, f, owner, start, length)
  <2> DEFINE r == Request(s, f, owner, "read", start, length)
  <2>1. Lockable(s, f) /\ Reply(s, Unlocked(fs, r), Table(s))
    BY <1>2 DEF Unlock
  <2>2. r \in Ranges /\ r.inode \in DOMAIN fs.inode /\ fs.inode[r.inode].kind = "file"
    BY <2>1, RequestIs
  <2> HIDE DEF r
  <2>3. Reply(s, [fs EXCEPT !.locks = Subtracted(fs, r)], Table(s))
    BY <2>1 DEF Unlocked
  <2> QED
    BY <2>2, <2>3, LockAdvances
<1> QED
  BY <1>1, <1>2

\* Requests that end a session.
LEMMA EndAdvances ==
  ASSUME SessionsSound, SessionsSound', NEW s \in Sessions, NEW known \in BOOLEAN,
         \/ Version(s, known) \/ Malformed(s)
         \/ \E S \in SUBSET Sessions : ResetSessions(S)
  PROVE  Advances
<1>1. Sound(fs) /\ Sound(fs') /\ Settled(fs, fids)
  BY DEF SessionsSound, Settled
<1>2. UNCHANGED <<hostVars, workload>>
  BY DEF Version, Malformed, ResetSessions
<1>3. Quiet(fs, fs')
  <2>1. CASE Version(s, known)
    <3>1. fs' = Released(fs, s, fids[s])
      BY <2>1, TableIs DEF Version
    <3> QED
      BY <1>1, <3>1, ReleasedKeeps DEF Settled
  <2>2. CASE Malformed(s)
    BY <2>2, QuietItself DEF Malformed
  <2>3. CASE \E S \in SUBSET Sessions : ResetSessions(S)
    <3>1. PICK S \in SUBSET Sessions : ResetSessions(S)
      BY <2>3
    <3>2. fs' = ResetTree(fs, fids, generation, fs.generation, S)
      BY <3>1 DEF ResetSessions, ResetTree
    <3>3. \A x \in S : generation[x] = fs.generation \/ fids[x] = <<>>
      BY DEF SessionsSound, HaltedSessionsClosed
    <3> QED
      BY <1>1, <3>2, <3>3, ResetKeeps DEF Settled
  <2> QED
    BY <2>1, <2>2, <2>3
<1> QED
  BY <1>1, <1>2, <1>3, QuietAdvances

LEMMA LookupExists ==
  ASSUME NEW t, Sound(t), NEW p \in Steps, Lookup(t, p) # None
  PROVE  Lookup(t, p) \in DOMAIN t.inode
<1>1. PICK q \in Seq(Names), n \in Names : p = Append(q, n)
  BY PathEnds DEF Steps
<1> QED
  BY <1>1, FrontIs

LEMMA EntryPathsAre ==
  EntryPaths \subseteq Steps
<1>1. ASSUME NEW p \in EntryPaths PROVE p \in Steps
  <2>1. PICK m \in 0 .. MaxDepth : p \in [1 .. m -> Names]
    BY DEF EntryPaths, SeqOf
  <2>2. m \in Nat
    BY <2>1, NinePAssumption
  <2>3. p \in Seq(Names)
    BY <2>1, <2>2
  <2> QED
    BY <2>3 DEF EntryPaths, Steps
<1> QED
  BY <1>1

\* The host's operations on the tree.
LEMMA HostTreeAdvances ==
  ASSUME SessionsSound,
         NEW p \in EntryPaths, NEW q \in EntryPaths, NEW z \in 0 .. MaxFileBytes,
         NEW kind \in {"directory", "symlink"},
         \/ HostWriteFile(p, z) \/ HostMkdir(p, kind) \/ HostRemove(p) \/ HostLink(p, q)
         \/ HostRename(p, q) \/ HostAttributes(p)
  PROVE  Advances
<1> DEFINE n == Last(p)
           m == Last(q)
           d == Lookup(fs, Front(p))
           e == Lookup(fs, Front(q))
           i == Lookup(fs, p)
<1>1. Sound(fs) /\ n \in Names /\ m \in Names /\ z \in Nat /\ kind \in Kinds /\ "file" \in Kinds /\ 0 \in Nat
  BY LastIsName, NamespaceAssumption DEF SessionsSound, Settled, Kinds
<1>2. ASSUME NEW t, Keeps(fs, t), Seen(fs, t), HostDone(t) PROVE Advances
  BY <1>2, HostAdvances DEF Keeps
<1>3. CASE HostWriteFile(p, z)
  <2>1. MayWriteFile(fs, d, n, z) /\ HostDone(FileWritten(fs, d, n, z))
    BY <1>3 DEF HostWriteFile
  <2> HIDE DEF n, d
  <2>2. CASE Listed(fs, d, n)
    <3>1. fs.entry[<<d, n>>] \in DOMAIN fs.inode
      BY <2>1, <2>2 DEF MayWriteFile, MayResize, IsFile, Exists
    <3>2. Keeps(fs, FileWritten(fs, d, n, z)) /\ Seen(fs, FileWritten(fs, d, n, z))
      BY <1>1, <2>2, <3>1, ResizeKeeps, ResizeSeen DEF FileWritten
    <3> QED
      BY <1>2, <2>1, <3>2
  <2>3. CASE ~Listed(fs, d, n)
    <3>1. MayInsert(fs, d, n)
      BY <2>1, <2>3 DEF MayWriteFile
    <3>2. Keeps(fs, FileWritten(fs, d, n, z)) /\ Seen(fs, FileWritten(fs, d, n, z))
      BY <1>1, <2>3, <3>1, InsertKeeps, InsertSeen DEF FileWritten
    <3> QED
      BY <1>2, <2>1, <3>2
  <2> QED
    BY <2>2, <2>3
<1>4. CASE HostMkdir(p, kind)
  <2>1. MayInsert(fs, d, n) /\ HostDone(Inserted(fs, d, n, kind, 0))
    BY <1>4 DEF HostMkdir
  <2> HIDE DEF n, d
  <2>2. Keeps(fs, Inserted(fs, d, n, kind, 0)) /\ Seen(fs, Inserted(fs, d, n, kind, 0))
    BY <1>1, <2>1, InsertKeeps, InsertSeen
  <2> QED
    BY <1>2, <2>1, <2>2
<1>5. CASE HostRemove(p)
  <2>1. MayUnlink(fs, d, n) /\ HostDone(Unlinked(fs, d, n))
    BY <1>5 DEF HostRemove
  <2> HIDE DEF n, d
  <2>2. Keeps(fs, Unlinked(fs, d, n)) /\ Seen(fs, Unlinked(fs, d, n))
    BY <1>1, <2>1, UnlinkKeeps, UnlinkSeen DEF MayUnlink
  <2> QED
    BY <1>2, <2>1, <2>2
<1>6. CASE HostLink(p, q)
  <2>1. MayLink(fs, e, m, i) /\ HostDone(Linked(fs, e, m, i))
    BY <1>6 DEF HostLink
  <2> HIDE DEF m, e, i
  <2>2. Keeps(fs, Linked(fs, e, m, i)) /\ Seen(fs, Linked(fs, e, m, i))
    BY <1>1, <2>1, LinkKeeps, LinkSeen
  <2> QED
    BY <1>2, <2>1, <2>2
<1>7. CASE HostRename(p, q)
  <2>1. MayMove(fs, d, n, e, m) /\ HostDone(Moved(fs, d, n, e, m))
    BY <1>7 DEF HostRename
  <2> HIDE DEF n, m, d, e
  <2>2. Keeps(fs, Moved(fs, d, n, e, m))
    BY <1>1, <2>1, MoveKeeps
  <2>3. Seen(fs, Moved(fs, d, n, e, m))
    BY <1>1, <2>1, MoveSeen
  <2> QED
    BY <1>2, <2>1, <2>2, <2>3
<1>8. CASE HostAttributes(p)
  <2>1. i # None /\ HostDone(Retouched(fs, i))
    BY <1>8 DEF HostAttributes
  <2>2. i \in DOMAIN fs.inode
    BY <1>1, <2>1, EntryPathsAre, LookupExists
  <2> HIDE DEF i
  <2>3. Keeps(fs, Retouched(fs, i)) /\ Seen(fs, Retouched(fs, i))
    BY <1>1, <2>2, EmitKeeps, RetouchSeen DEF Retouched
  <2> QED
    BY <1>2, <2>1, <2>3
<1> QED
  BY <1>3, <1>4, <1>5, <1>6, <1>7, <1>8

LEMMA HostWholeAdvances ==
  ASSUME SessionsSound, Compact(fs), HostClear \/ HostReset
  PROVE  Advances
<1>1. Sound(fs)
  BY DEF SessionsSound, Settled
<1>2. CASE HostClear
  <2>1. HostDone(Cleared(fs))
    BY <1>2 DEF HostClear
  <2>2. Sound(Cleared(fs)) /\ Seen(fs, Cleared(fs))
    BY <1>1, ClearKeeps, ClearSeen DEF Keeps
  <2> QED
    BY <2>1, <2>2, HostAdvances
<1>3. CASE HostReset
  <2> DEFINE F == Fresh(fs.next, fs.generation + 1, fs.tracking)
             t == Replaced(fs)
  <2>1. HostDone(t) /\ MayReplace(fs)
    BY <1>3 DEF HostReset
  <2>2. Sound(t)
    <3>1. fs.next \in 2 .. LastInode + 1 /\ fs.generation \in Nat /\ fs.tracking \in BOOLEAN
      BY <1>1, TreeParts DEF Sound, Ground
    <3>2. fs.next \in Inodes /\ fs.generation + 1 \in Nat
      BY <2>1, <3>1 DEF MayReplace, Inodes
    <3>3. Sound(F)
      BY <3>1, <3>2, FreshSound
    <3> HIDE DEF F
    <3> QED
      BY <3>3, EmitKeeps DEF Replaced, F, Keeps
  <2>3. Seen(fs, t)
    BY <1>1, <2>1, ResetSeen
  <2> HIDE DEF t
  <2> QED
    BY <2>1, <2>2, <2>3, HostAdvances
<1> QED
  BY <1>2, <1>3

LEMMA SessionAdvances ==
  ASSUME SessionsSound, SessionsSound', NEW s \in workload.sessions, SessionNext(s)
  PROVE  Advances
<1>1. /\ s \in Sessions /\ workload.names \subseteq Names /\ workload.fids \subseteq Fids
      /\ workload.owners[s] \subseteq Owners /\ TRUE \in BOOLEAN
  BY WorkloadIs
<1>2. ASSUME NEW known \in BOOLEAN, Version(s, known) PROVE Advances
  BY <1>1, <1>2, EndAdvances
<1>3. CASE Malformed(s)
  BY <1>1, <1>3, EndAdvances
<1>4. CASE DeviceReset(s)
  <2>1. {s} \in SUBSET Sessions /\ ResetSessions({s})
    BY <1>1, <1>4 DEF DeviceReset
  <2> QED
    BY <1>1, <2>1, EndAdvances
<1>5. ASSUME NEW f \in Fids, Attach(s, f) \/ Clunk(s, f) PROVE Advances
  BY <1>1, <1>5, AttachAdvances, ClunkAdvances
<1>6. ASSUME NEW f \in Fids, NEW g \in Fids, NEW names \in Walks, Walk(s, f, g, names) PROVE Advances
  BY <1>1, <1>6, WalkAdvances
<1>7. ASSUME NEW f \in Fids, NEW a \in Accesses, NEW t \in BOOLEAN, Open(s, f, a, t) PROVE Advances
  BY <1>1, <1>7, OpenAdvances
<1>8. ASSUME NEW f \in Fids, NEW n \in Names, NEW a \in Accesses, NEW t \in BOOLEAN,
             Create(s, f, n, a, t)
      PROVE  Advances
  BY <1>1, <1>8, CreateAdvances
<1>9. ASSUME NEW f \in Fids, NEW o \in 0 .. MaxFileBytes, NEW c \in 0 .. MaxFileBytes,
             NEW a \in BOOLEAN, Write(s, f, o, c, a)
      PROVE  Advances
  BY <1>1, <1>9, WriteAdvances
<1>10. ASSUME NEW f \in Fids, NEW n \in Names, NEW g \in Fids, NEW m \in Names,
              NEW kind \in {"directory", "symlink"},
              \/ Mkdir(s, f, n, kind)
              \/ Link(s, f, n, g) \/ Rename(s, f, n, g, m) \/ Unlink(s, f, n)
       PROVE  Advances
  BY <1>1, <1>10, TreeAdvances
<1>11. ASSUME NEW f \in Fids, Setattr(s, f) PROVE Advances
  <2>1. Reply(s, Retouched(fs, Held(s, f)), Table(s)) /\ f \in DOMAIN Table(s) /\ Sound(fs)
    BY <1>11 DEF Setattr, SessionsSound, Settled
  <2>2. Held(s, f) \in DOMAIN fs.inode
    BY <1>1, <2>1, HeldIs
  <2>3. Sound(Retouched(fs, Held(s, f))) /\ Seen(fs, Retouched(fs, Held(s, f)))
    BY <2>1, <2>2, EmitKeeps, RetouchSeen DEF Retouched, Keeps
  <2> QED
    BY <2>1, <2>3, ReplyAdvances
<1>12. ASSUME NEW f \in Fids, NEW o \in Owners, NEW b \in Bytes, NEW c \in Bytes,
              NEW kind \in {"read", "write"}, Lock(s, f, o, kind, b, c) \/ Unlock(s, f, o, b, c)
       PROVE  Advances
  BY <1>1, <1>12, LockStepAdvances
<1>13. 0 \in 0 .. MaxFileBytes /\ "symlink" \in {"directory", "symlink"} /\ "read" \in {"read", "write"}
  BY NamespaceAssumption
<1>14. ASSUME NEW f \in Fids, NEW z \in 0 .. MaxFileBytes, Truncate(s, f, z) PROVE Advances
  <2>1. Reply(s, Resized(fs, Held(s, f), z), Table(s)) /\ f \in DOMAIN Table(s) /\ Sound(fs) /\ z \in Nat
    BY <1>14, NamespaceAssumption DEF Truncate, SessionsSound, Settled
  <2>2. Held(s, f) \in DOMAIN fs.inode
    BY <1>1, <2>1, HeldIs
  <2>3. Sound(Resized(fs, Held(s, f), z)) /\ Seen(fs, Resized(fs, Held(s, f), z))
    BY <2>1, <2>2, ResizeKeeps, ResizeSeen DEF Keeps
  <2> QED
    BY <2>1, <2>3, ReplyAdvances
<1>15. ASSUME NEW f \in Fids, NEW n \in Names, Unlink(s, f, n) PROVE Advances
  BY <1>10, <1>13, <1>15
<1>16. ASSUME NEW f \in Fids, NEW n \in Names, NEW kind \in {"directory", "symlink"}, Mkdir(s, f, n, kind)
       PROVE  Advances
  BY <1>10, <1>13, <1>16
<1>17. ASSUME NEW f \in Fids, NEW n \in Names, NEW g \in Fids, Link(s, f, n, g) PROVE Advances
  BY <1>10, <1>13, <1>17
<1>18. ASSUME NEW f \in Fids, NEW n \in Names, NEW g \in Fids, NEW m \in Names, Rename(s, f, n, g, m)
       PROVE  Advances
  BY <1>10, <1>13, <1>18
<1>19. ASSUME NEW f \in Fids, NEW o \in Owners, NEW b \in Bytes, NEW c \in Bytes, Unlock(s, f, o, b, c)
       PROVE  Advances
  BY <1>12, <1>13, <1>19
<1> QED
  BY <1>1, <1>2, <1>3, <1>4, <1>5, <1>6, <1>7, <1>8, <1>9, <1>11, <1>12, <1>14,
     <1>15, <1>16, <1>17, <1>18, <1>19 DEF SessionNext

-----------------------------------------------------------------------------
(* The listener.                                                           *)

\* The listener's view with all that is in the queues shows the tree as it is.
MirrorKept ==
  /\ fs.tracking = subscribed
  /\ Compact(fs) /\ Queued(fs)
  /\ microtasks \in Seq(Notes)
  /\ mirror \subseteq Steps \X Inodes
  /\ subscribed => Tells(mirror, microtasks \o fs.changes, fs)

LEMMA TreeIs ==
  ASSUME NEW t, Sound(t), Compact(t)
  PROVE  /\ Tree(t) \subseteq Steps \X Inodes
         /\ \A p \in Steps : \A i : <<p, i>> \in Tree(t) <=> i = Lookup(t, p) /\ i # None
<1>1. ASSUME NEW p \in Paths \ {<<>>} PROVE p \in Steps
  <2>1. PICK m \in 0 .. MaxInodes - 1 : p \in [1 .. m -> Names]
    BY DEF Paths, SeqOf
  <2>2. m \in Nat
    BY <2>1, NamespaceAssumption
  <2>3. p \in Seq(Names)
    BY <2>1, <2>2
  <2> QED
    BY <2>3 DEF Steps
<1>2. ASSUME NEW p \in Steps, Lookup(t, p) # None PROVE p \in NamedPaths(t) /\ Lookup(t, p) \in Inodes
  <2>1. p \in Seq(Names) /\ p # <<>>
    BY DEF Steps
  <2>2. p \in Paths
    BY <1>2, <2>1, PathShort
  <2>3. Lookup(t, p) \in 0 .. LastInode
    BY <2>1, LookupType DEF Sound, Ground
  <2> QED
    BY <1>2, <2>1, <2>2, <2>3 DEF NamedPaths, Inodes, None
<1>3. \A p \in NamedPaths(t) : p \in Steps /\ Lookup(t, p) # None
  BY <1>1 DEF NamedPaths
<1> QED
  BY <1>2, <1>3 DEF Tree

\* What the listener makes of a notification.
LEMMA Heard ==
  ASSUME Sound(fs), Compact(fs), NEW c \in Notes, NEW view, view \subseteq Steps \X Inodes
  PROVE  LET new == Listened(view, c)
         IN /\ new \subseteq Steps \X Inodes
            /\ \A p \in Steps :
                 IF Touches(c, p) THEN Fits(c, Lookup(fs, p)) => Shown(new, p, Lookup(fs, p))
                 ELSE \A x : <<p, x>> \in new <=> <<p, x>> \in view
<1> DEFINE T == Tree(fs)
           new == Listened(view, c)
<1>1. T \subseteq Steps \X Inodes /\ \A p \in Steps : \A i : <<p, i>> \in T <=> i = Lookup(fs, p) /\ i # None
  BY TreeIs
<1>2. c.kind \in ChangeKinds /\ c.inode \in 0 .. LastInode /\ c.path \in Seq(Names)
      /\ (c.kind = "create" => c.path \in Steps /\ c.inode \in Inodes /\ c.inode # None)
  BY DEF Notes, Steps, Inodes, None
<1>3. CASE c.kind = "create"
  <2>1. new = {x \in view : x[1] # c.path} \cup {<<c.path, c.inode>>}
    BY <1>3 DEF Listened
  <2> HIDE DEF new
  <2>2. new \subseteq Steps \X Inodes
    BY <1>2, <1>3, <2>1
  <2>3. \A p \in Steps : Touches(c, p) <=> c.path = p
    BY <1>3 DEF Touches
  <2>4. \A p \in Steps : \A x : <<p, x>> \in new <=> IF p = c.path THEN x = c.inode ELSE <<p, x>> \in view
    BY <2>1
  <2> QED
    BY <1>2, <1>3, <2>2, <2>3, <2>4 DEF Fits, Shown, new
<1>4. CASE c.kind = "remove"
  <2>1. new = {x \in view : x[1] # c.path}
    BY <1>4 DEF Listened
  <2> HIDE DEF new
  <2>2. \A p \in Steps : Touches(c, p) <=> c.path = p
    BY <1>4 DEF Touches
  <2>3. \A p \in Steps : \A x : <<p, x>> \in new <=> p # c.path /\ <<p, x>> \in view
    BY <2>1
  <2> QED
    BY <1>4, <2>1, <2>2, <2>3 DEF Fits, Shown, new
<1>5. CASE c.kind = "rename"
  <2>1. new = {x \in view : ~(Below(c.path, x[1]) \/ Below(c.old, x[1]))}
              \cup {x \in T : Below(c.path, x[1]) \/ Below(c.old, x[1])}
    BY <1>5 DEF Listened
  <2> HIDE DEF new, T
  <2>2. new \subseteq Steps \X Inodes
    BY <1>1, <2>1
  <2>3. \A p \in Steps : Touches(c, p) <=> Below(c.path, p) \/ Below(c.old, p)
    BY <1>5 DEF Touches
  <2>4. \A p \in Steps : \A x : <<p, x>> \in new <=> IF Touches(c, p) THEN <<p, x>> \in T ELSE <<p, x>> \in view
    BY <2>1, <2>3
  <2> QED
    BY <1>1, <2>2, <2>4 DEF Shown, new
<1>6. CASE c.kind \in {"reset", "rescan"}
  <2>1. new = T
    BY <1>6 DEF Listened
  <2>2. \A p : Touches(c, p)
    BY <1>6 DEF Touches
  <2> HIDE DEF new, T
  <2> QED
    BY <1>1, <2>1, <2>2 DEF Shown, new
<1>7. CASE c.kind \in {"write", "metadata"}
  <2>1. new = view
    BY <1>7 DEF Listened
  <2>2. \A p : ~Touches(c, p)
    BY <1>7 DEF Touches
  <2> HIDE DEF new, T
  <2> QED
    BY <2>1, <2>2 DEF new
<1> QED
  BY <1>2, <1>3, <1>4, <1>5, <1>6, <1>7 DEF ChangeKinds

LEMMA DeliverKeeps ==
  ASSUME Sound(fs), MirrorKept, Deliver
  PROVE  MirrorKept'
<1> DEFINE Q == microtasks
           R == Tail(microtasks)
           c == Head(microtasks)
<1>1. /\ Q \in Seq(Notes) /\ Q # <<>> /\ fs.changes = <<>> /\ fs' = fs /\ subscribed' = subscribed
      /\ microtasks' = R /\ mirror' = IF subscribed THEN Listened(mirror, c) ELSE mirror
      /\ Compact(fs) /\ mirror \subseteq Steps \X Inodes
  BY DEF MirrorKept, Deliver
<1>2. /\ c \in Notes /\ c = Q[1] /\ 1 \in DOMAIN Q /\ R \in Seq(Notes)
      /\ \A k \in DOMAIN R : k + 1 \in DOMAIN Q /\ R[k] = Q[k + 1] /\ k \in Nat \ {0}
      /\ \A k \in DOMAIN Q : k = 1 \/ (k - 1 \in DOMAIN R /\ R[k - 1] = Q[k] /\ k \in Nat \ {0, 1})
      /\ Q \o <<>> = Q /\ R \o <<>> = R
  BY <1>1
<1>3. fs.tracking = subscribed /\ Queued(fs) /\ (subscribed => Tells(mirror, Q, fs))
  BY <1>1, <1>2 DEF MirrorKept
<1> HIDE DEF Q, R, c
<1>4. ASSUME subscribed
      PROVE  Listened(mirror, c) \subseteq Steps \X Inodes /\ Tells(Listened(mirror, c), R, fs)
  <2> DEFINE new == Listened(mirror, c)
  <2>1. /\ new \subseteq Steps \X Inodes
        /\ \A p \in Steps :
             IF Touches(c, p) THEN Fits(c, Lookup(fs, p)) => Shown(new, p, Lookup(fs, p))
             ELSE \A x : <<p, x>> \in new <=> <<p, x>> \in mirror
    BY <1>1, <1>2, Heard
  <2>2. Tells(mirror, Q, fs)
    BY <1>3, <1>4
  <2> HIDE DEF new
  <2>3. ASSUME NEW p \in Steps, NoneAfter(R, p, 0) PROVE Shown(new, p, Lookup(fs, p))
    <3>1. \A k \in DOMAIN Q : 1 < k => ~Touches(Q[k], p)
      <4>1. \A k \in DOMAIN R : 0 < k => ~Touches(R[k], p)
        BY <2>3 DEF NoneAfter
      <4> QED
        BY <1>2, <4>1
    <3>2. CASE Touches(c, p)
      <4>1. Fits(c, Lookup(fs, p))
        BY <1>2, <2>2, <3>1, <3>2 DEF Tells, NoneAfter
      <4> QED
        BY <2>1, <3>2, <4>1
    <3>3. CASE ~Touches(c, p)
      <4>1. \A k \in DOMAIN Q : ~Touches(Q[k], p)
        BY <1>2, <3>1, <3>3
      <4>2. Shown(mirror, p, Lookup(fs, p))
        BY <2>2, <4>1 DEF Tells, NoneAfter
      <4> QED
        BY <2>1, <3>3, <4>2 DEF Shown
    <3> QED
      BY <3>2, <3>3
  <2>4. ASSUME NEW p \in Steps, NEW k \in DOMAIN R, Touches(R[k], p), NoneAfter(R, p, k)
        PROVE  Fits(R[k], Lookup(fs, p))
    <3>1. k + 1 \in DOMAIN Q /\ R[k] = Q[k + 1]
      BY <1>2
    <3>2. NoneAfter(Q, p, k + 1)
      <4> SUFFICES ASSUME NEW j \in DOMAIN Q, k + 1 < j PROVE ~Touches(Q[j], p)
        BY DEF NoneAfter
      <4>1. k \in Nat \ {0}
        BY <1>2
      <4>2. j - 1 \in DOMAIN R /\ R[j - 1] = Q[j] /\ j \in Nat
        BY <1>2, <4>1
      <4>3. k < j - 1
        BY <4>1, <4>2
      <4> QED
        BY <2>4, <4>2, <4>3 DEF NoneAfter
    <3> QED
      BY <2>2, <2>4, <3>1, <3>2 DEF Tells
  <2> QED
    BY <2>1, <2>3, <2>4 DEF Tells, new
<1>5. mirror' \subseteq Steps \X Inodes /\ (subscribed' => Tells(mirror', microtasks' \o fs'.changes, fs'))
  BY <1>1, <1>2, <1>4
<1> QED
  BY <1>1, <1>2, <1>3, <1>5 DEF MirrorKept

LEMMA AdvanceKeepsMirror ==
  ASSUME Sound(fs), MirrorKept, Advances
  PROVE  MirrorKept'
<1>1. PICK t : Seen(fs, t) /\ Carries(t)
  BY DEF Advances
<1>2. subscribed' = subscribed /\ mirror' = mirror
  BY DEF Advances
<1>3. /\ fs.tracking = subscribed /\ Compact(fs) /\ Queued(fs) /\ microtasks \in Seq(Notes)
      /\ mirror \subseteq Steps \X Inodes
      /\ (subscribed => Tells(mirror, microtasks \o fs.changes, fs))
  BY DEF MirrorKept
<1>4. /\ t.tracking = fs.tracking /\ Compact(t) /\ Queued(t) /\ t.changes \in Seq(Notes)
      /\ (subscribed => Tells(mirror, microtasks \o t.changes, t))
  <2>1. Told(fs, t)
    BY <1>1 DEF Seen
  <2>2. t.tracking = fs.tracking /\ Compact(t) /\ Queued(t)
    BY <1>3, <2>1 DEF Told
  <2>3. t.changes \in Seq(Notes)
    BY <2>2 DEF Queued
  <2>4. subscribed => Tells(mirror, microtasks \o t.changes, t)
    BY <1>3, <2>1 DEF Told
  <2> QED
    BY <2>2, <2>3, <2>4
<1>5. /\ fs'.tracking = t.tracking /\ DOMAIN fs'.inode = DOMAIN t.inode
      /\ \A p : Lookup(fs', p) = Lookup(t, p)
  BY <1>1, LookupSame DEF Carries
<1>6. Compact(fs')
  BY <1>4, <1>5 DEF Compact
<1>7. /\ Queued(fs') /\ microtasks' \in Seq(Notes)
      /\ microtasks' \o fs'.changes = microtasks \o t.changes
  <2>1. CASE fs'.changes = t.changes /\ microtasks' = microtasks
    BY <1>3, <1>4, <2>1 DEF Queued, Invalidated
  <2>2. CASE fs'.changes = <<>> /\ microtasks' = microtasks \o t.changes
    <3>1. microtasks \o t.changes \in Seq(Notes)
      BY <1>3, <1>4
    <3>2. (microtasks \o t.changes) \o <<>> = microtasks \o t.changes
      BY <3>1
    <3>3. Queued(fs')
      BY <2>2 DEF Queued, Invalidated
    <3> QED
      BY <2>2, <3>1, <3>2, <3>3
  <2> QED
    BY <1>1, <2>1, <2>2 DEF Carries
<1>8. subscribed' => Tells(mirror', microtasks' \o fs'.changes, fs')
  <2> SUFFICES ASSUME subscribed PROVE Tells(mirror, microtasks \o t.changes, fs')
    BY <1>2, <1>7
  <2> QED
    BY <1>4, <1>5, TellsSame
<1> QED
  BY <1>2, <1>3, <1>4, <1>5, <1>6, <1>7, <1>8 DEF MirrorKept

LEMMA SubscribeKeeps ==
  ASSUME Sound(fs), MirrorKept, Subscribe
  PROVE  MirrorKept'
<1> DEFINE v == [fs EXCEPT !.tracking = TRUE, !.changes = <<>>]
           t == SetChangeTracking(fs, TRUE)
<1>1. /\ IsTree(fs) /\ fs.tracking = FALSE /\ Compact(fs) /\ microtasks \in Seq(Notes)
      /\ mirror \subseteq Steps \X Inodes
  BY DEF Sound, Ground, MirrorKept, Subscribe
<1>2. v.tracking = TRUE /\ v.changes = <<>> /\ v.inode = fs.inode /\ IsTree(v)
  BY <1>1 DEF IsTree, Trees
<1>3. t = Emit(v, Rescan)
  BY <1>1 DEF SetChangeTracking
<1> HIDE DEF v, t
<1>4. t.changes = <<Rescan>>
  <2>1. ~Invalidated(v)
    BY <1>2 DEF Invalidated
  <2>2. t = [v EXCEPT !.changes = IF Len(@) >= MaxChanges THEN <<Rescan>> ELSE Append(@, Rescan)]
    BY <1>2, <1>3, <2>1 DEF Emit
  <2>3. t.changes = IF Len(<<>>) >= MaxChanges THEN <<Rescan>> ELSE Append(<<>>, Rescan)
    BY <1>2, <2>2 DEF IsTree, Trees
  <2>4. Append(<<>>, Rescan) = <<Rescan>>
    OBVIOUS
  <2> QED
    BY <2>3, <2>4
<1>5. t.tracking = TRUE /\ t.inode = fs.inode /\ IsTree(t)
  BY <1>2, <1>3, EmitCore, CoreParts
<1>6. /\ fs' = [t EXCEPT !.changes = <<>>] /\ microtasks' = microtasks \o <<Rescan>>
      /\ subscribed' = TRUE /\ mirror' = mirror
  BY <1>4 DEF Subscribe, t
<1>7. fs'.changes = <<>> /\ fs'.tracking = TRUE /\ fs'.inode = fs.inode
  BY <1>5, <1>6 DEF IsTree, Trees
<1>8. Compact(fs') /\ Queued(fs')
  BY <1>1, <1>7 DEF Compact, Queued, Invalidated
<1>9. /\ microtasks' = Append(microtasks, Rescan) /\ microtasks' \in Seq(Notes)
      /\ microtasks' \o fs'.changes = Append(microtasks, Rescan)
  <2>1. Rescan \in Notes
    BY RescanIs
  <2>2. microtasks \o <<Rescan>> = Append(microtasks, Rescan) /\ Append(microtasks, Rescan) \in Seq(Notes)
        /\ Append(microtasks, Rescan) \o <<>> = Append(microtasks, Rescan)
    BY <1>1, <2>1
  <2> QED
    BY <1>6, <1>7, <2>2
<1>10. Tells(mirror, Append(microtasks, Rescan), fs')
  BY <1>1, RescanIs, TellsAgain
<1> QED
  BY <1>1, <1>6, <1>7, <1>8, <1>9, <1>10 DEF MirrorKept

LEMMA UnsubscribeKeeps ==
  ASSUME Sound(fs), MirrorKept, Unsubscribe
  PROVE  MirrorKept'
<1> DEFINE v == [fs EXCEPT !.tracking = FALSE, !.changes = <<>>]
<1>1. IsTree(fs) /\ fs.tracking = TRUE /\ Compact(fs) /\ microtasks \in Seq(Notes)
      /\ subscribed \in BOOLEAN
  BY TreeParts DEF Sound, Ground, MirrorKept, Unsubscribe
<1>2. v.tracking = FALSE /\ v.changes = <<>> /\ v.inode = fs.inode
  BY <1>1 DEF IsTree, Trees
<1>3. SetChangeTracking(fs, FALSE) = v
  BY <1>1, <1>2 DEF SetChangeTracking, Emit
<1> HIDE DEF v
<1>4. fs' = v /\ microtasks' = microtasks /\ subscribed' = FALSE /\ mirror' = {}
  BY <1>3 DEF Unsubscribe
<1>5. fs'.changes = <<>> /\ fs'.tracking = FALSE /\ fs'.inode = fs.inode
  BY <1>2, <1>4
<1>6. Compact(fs') /\ Queued(fs')
  BY <1>1, <1>5 DEF Compact, Queued, Invalidated
<1>7. mirror' \subseteq Steps \X Inodes /\ microtasks' \in Seq(Notes)
  BY <1>1, <1>4
<1> QED
  BY <1>4, <1>5, <1>6, <1>7 DEF MirrorKept

LEMMA ServiceAdvances ==
  ASSUME Sound(fs), Service \/ UNCHANGED vars
  PROVE  Advances
<1>1. Seen(fs, fs)
  BY SameSeen
<1>2. CASE Service
  <2>1. fs' = [fs EXCEPT !.changes = <<>>] /\ microtasks' = microtasks \o fs.changes
        /\ UNCHANGED <<subscribed, mirror, workload>>
    BY <1>2 DEF Service
  <2>2. /\ fs'.root = fs.root /\ fs'.entry = fs.entry /\ fs'.tracking = fs.tracking
        /\ fs'.inode = fs.inode /\ fs'.cookie = fs.cookie /\ fs'.changes = <<>>
    BY <2>1 DEF Sound, Ground, IsTree, Trees
  <2>3. Carries(fs)
    BY <2>1, <2>2 DEF Carries
  <2> QED
    BY <1>1, <2>1, <2>3 DEF Advances
<1>3. CASE UNCHANGED vars
  <2>1. UNCHANGED <<fs, microtasks, subscribed, mirror, workload>>
    BY <1>3 DEF vars
  <2>2. Carries(fs)
    BY <2>1 DEF Carries
  <2> QED
    BY <1>1, <2>1, <2>2 DEF Advances
<1> QED
  BY <1>2, <1>3

\* Every step advances the tree, or is the listener's.
LEMMA NextAdvances ==
  ASSUME SessionsSound, SessionsSound', Compact(fs), [Next]_vars
  PROVE  \/ Advances
         \/ Subscribe \/ Unsubscribe \/ Deliver
<1>1. CASE ReaderNext
  <2>1. PICK s \in workload.sessions, f \in workload.fids, count \in 1 .. 2, again \in BOOLEAN :
          Readdir(s, f, count, again)
    BY <1>1 DEF ReaderNext
  <2>2. Reply(s, fs, Table(s)) /\ Sound(fs)
    BY <2>1 DEF Readdir, SessionsSound, Settled
  <2> QED
    BY <2>2, SameSeen, ReplyAdvances
<1>2. CASE HostNext
  <2>1. CASE Halt \/ Boot
    <3>1. ResetSessions(Sessions) /\ Sessions \in SUBSET Sessions
      BY <2>1 DEF Halt, Boot
    <3>2. Sound(fs) /\ Sound(fs') /\ UNCHANGED <<hostVars, workload>>
      BY <3>1 DEF SessionsSound, Settled, ResetSessions
    <3>3. fs' = ResetTree(fs, fids, generation, fs.generation, Sessions)
      BY <3>1 DEF ResetSessions, ResetTree
    <3>4. \A x \in Sessions : generation[x] = fs.generation \/ fids[x] = <<>>
      BY DEF SessionsSound, HaltedSessionsClosed
    <3>5. Quiet(fs, fs')
      BY <3>1, <3>3, <3>4, ResetKeeps DEF SessionsSound, Settled
    <3> QED
      BY <3>2, <3>5, QuietAdvances
  <2>2. CASE HostClear \/ HostReset
    BY <2>2, HostWholeAdvances
  <2>3. CASE Service
    BY <2>3, ServiceAdvances DEF SessionsSound, Settled
  <2>4. ASSUME NEW p \in EntryPaths,
               \/ HostRemove(p) \/ HostAttributes(p)
               \/ \E z \in 0 .. MaxFileBytes : HostWriteFile(p, z)
               \/ \E kind \in {"directory", "symlink"} : HostMkdir(p, kind)
               \/ \E q \in EntryPaths : HostLink(p, q) \/ HostRename(p, q)
        PROVE  Advances
    <3>1. 0 \in 0 .. MaxFileBytes /\ "symlink" \in {"directory", "symlink"}
      BY NamespaceAssumption
    <3>2. CASE HostRemove(p) \/ HostAttributes(p)
      BY <3>1, <3>2, HostTreeAdvances
    <3>3. CASE \E z \in 0 .. MaxFileBytes : HostWriteFile(p, z)
      BY <3>1, <3>3, HostTreeAdvances
    <3>4. CASE \E kind \in {"directory", "symlink"} : HostMkdir(p, kind)
      BY <3>1, <3>4, HostTreeAdvances
    <3>5. CASE \E q \in EntryPaths : HostLink(p, q) \/ HostRename(p, q)
      BY <3>1, <3>5, HostTreeAdvances
    <3> QED
      BY <2>4, <3>2, <3>3, <3>4, <3>5
  <2> QED
    BY <1>2, <2>1, <2>2, <2>3, <2>4 DEF HostNext
<1>3. CASE \E s \in workload.sessions : SessionNext(s)
  BY <1>3, SessionAdvances
<1>4. CASE UNCHANGED vars
  BY <1>4, ServiceAdvances DEF SessionsSound, Settled
<1> QED
  BY <1>1, <1>2, <1>3, <1>4 DEF Next

LEMMA MirrorStep ==
  ASSUME SessionsSound, SessionsSound', MirrorKept, [Next]_vars
  PROVE  MirrorKept'
<1>1. Sound(fs) /\ Compact(fs)
  BY DEF SessionsSound, Settled, MirrorKept
<1> QED
  BY <1>1, NextAdvances, AdvanceKeepsMirror, SubscribeKeeps, UnsubscribeKeeps, DeliverKeeps

LEMMA MirrorHolds ==
  ASSUME SessionsSound, MirrorKept
  PROVE  MirrorExact
<1> SUFFICES ASSUME subscribed, fs.changes = <<>>, microtasks = <<>> PROVE mirror = Tree(fs)
  BY DEF MirrorExact
<1>1. mirror \subseteq Steps \X Inodes /\ Tells(mirror, <<>>, fs) /\ Sound(fs) /\ Compact(fs)
  <2>1. microtasks \o fs.changes = <<>>
    OBVIOUS
  <2> QED
    BY <2>1 DEF MirrorKept, SessionsSound, Settled
<1>2. /\ Tree(fs) \subseteq Steps \X Inodes
      /\ \A p \in Steps : \A i : <<p, i>> \in Tree(fs) <=> i = Lookup(fs, p) /\ i # None
  BY <1>1, TreeIs
<1>3. \A p \in Steps : \A i : <<p, i>> \in mirror <=> i = Lookup(fs, p) /\ i # None
  <2>1. \A p : NoneAfter(<<>>, p, 0)
    BY DEF NoneAfter
  <2> QED
    BY <1>1, <2>1 DEF Tells, Shown
<1>4. \A x \in Steps \X Inodes : x \in mirror <=> x \in Tree(fs)
  BY <1>2, <1>3
<1> QED
  BY <1>1, <1>2, <1>4


-----------------------------------------------------------------------------
(* Reading a directory in pieces.                                          *)

Readers == [reader : {<<>>} \cup Sessions \X Fids, dir : Nat, offset : Nat,
            told : [Inodes -> Nat], strayed : SUBSET Inodes, missed : {{}}]

\* What the reader was told of is what has a cookie up to its own: each inode that never
\* strayed was told of once and has its one name there, and no name there was left out.
Charted(t, l) ==
  /\ l.dir < t.next
  /\ l.dir \in DOMAIN t.inode => l.offset < t.inode[l.dir].next_cookie
  /\ \A i \in Known(l) \ l.strayed :
       /\ l.told[i] = 1
       /\ \E x \in Contents(t, l.dir) :
            /\ t.entry[x] = i /\ t.cookie[x] <= l.offset
            /\ \A y \in Contents(t, l.dir) : t.entry[y] = i => y = x
  /\ \A x \in Contents(t, l.dir) : t.cookie[x] <= l.offset => t.entry[x] \in Known(l)
ListingKept ==
  /\ listing \in Readers
  /\ IF Uses("readdir") THEN CookieSound(fs) /\ Charted(fs, listing) ELSE Known(listing) = {}

LEMMA ContentsFinite ==
  ASSUME NEW t, Sound(t), NEW d
  PROVE  /\ IsFiniteSet(Contents(t, d))
         /\ \A S \in SUBSET Contents(t, d) : IsFiniteSet(S) /\ Cardinality(S) \in Nat
<1>1. IsFiniteSet(DOMAIN t.entry)
  BY DEF Sound, Ground, Shaped, SoundEntries
<1>2. Contents(t, d) \in SUBSET DOMAIN t.entry
  BY DEF Contents
<1>3. IsFiniteSet(Contents(t, d))
  BY <1>1, <1>2, FS_Subset
<1> QED
  BY <1>3, FS_Subset, FS_CardinalityType

\* An inode that has not strayed has one name in the directory.
LEMMA SoleName ==
  ASSUME NEW t, Sound(t), NEW l, NEW i \in Known(l), i \notin Strayed(t, l)
  PROVE  \E x \in Contents(t, l.dir) :
           t.entry[x] = i /\ \A y \in Contents(t, l.dir) : t.entry[y] = i => y = x
<1> DEFINE S == {x \in Contents(t, l.dir) : t.entry[x] = i}
<1>1. Cardinality(S) = 1
  BY DEF Strayed, Known
<1>2. IsFiniteSet(S)
  BY ContentsFinite
<1>3. PICK w : S = {w}
  <2> HIDE DEF S
  <2> QED
    BY <1>1, <1>2, FS_Singleton
<1>4. w \in S /\ \A y \in S : y = w
  BY <1>3
<1>5. w \in Contents(t, l.dir) /\ t.entry[w] = i
  BY <1>4
<1>6. \A y \in Contents(t, l.dir) : t.entry[y] = i => y = w
  BY <1>4
<1> QED
  BY <1>5, <1>6

LEMMA RestrayedIs ==
  ASSUME NEW t, NEW l \in Readers
  PROVE  LET m == [l EXCEPT !.strayed = Strayed(t, l)]
         IN /\ m \in Readers /\ Known(m) = Known(l)
            /\ m.dir = l.dir /\ m.offset = l.offset /\ m.told = l.told /\ m.missed = {}
            /\ m.strayed = Strayed(t, l)
<1>1. Strayed(t, l) \in SUBSET Inodes
  BY DEF Strayed, Known, Readers
<1> QED
  BY <1>1 DEF Readers, Known

\* Whatever happens to the tree meanwhile, the reader's record stays good.
LEMMA ChartedFurther ==
  ASSUME NEW t, Sound(t), NEW u, Sound(u), NEW l \in Readers,
         CookieSound(t), Charted(t, l), Lists(t, u), t.next <= u.next,
         l.dir \notin DOMAIN t.inode => l.dir \notin DOMAIN u.inode
  PROVE  Charted(u, [l EXCEPT !.strayed = Strayed(u, l)])
<1> DEFINE m == [l EXCEPT !.strayed = Strayed(u, l)]
<1>1. /\ Known(m) = Known(l) /\ m.dir = l.dir /\ m.offset = l.offset /\ m.told = l.told
      /\ m.strayed = Strayed(u, l)
  BY RestrayedIs
<1> HIDE DEF m
<1>2. /\ CookieSound(u)
      /\ \A k \in DOMAIN t.inode \cap DOMAIN u.inode : t.inode[k].next_cookie <= u.inode[k].next_cookie
      /\ \A y \in DOMAIN u.entry : Stays(t, u, y) \/ Joins(t, u, y)
  BY DEF Lists
<1>3. /\ l.dir \in Nat /\ l.offset \in Nat /\ t.next \in Nat /\ u.next \in Nat
  <2>1. t.next \in Nat /\ u.next \in Nat
    BY TreeParts DEF Sound, Ground
  <2> QED
    BY <2>1 DEF Readers
<1>4. l.dir < u.next
  BY <1>3 DEF Charted
<1>5. ASSUME l.dir \in DOMAIN u.inode
      PROVE  l.offset < u.inode[l.dir].next_cookie /\ l.dir \in DOMAIN t.inode
             /\ l.offset < t.inode[l.dir].next_cookie
  <2>1. l.dir \in DOMAIN t.inode
    BY <1>5
  <2>2. t.inode[l.dir].next_cookie \in Nat /\ u.inode[l.dir].next_cookie \in Nat
    BY <1>2, <1>5, <2>1 DEF CookieSound
  <2>3. t.inode[l.dir].next_cookie <= u.inode[l.dir].next_cookie
    BY <1>2, <1>5, <2>1
  <2>4. l.offset < t.inode[l.dir].next_cookie
    BY <2>1 DEF Charted
  <2> QED
    BY <1>3, <2>1, <2>2, <2>3, <2>4
\* An entry of the directory is an old one, or comes after all that were read.
<1>6. ASSUME NEW y \in Contents(u, l.dir)
      PROVE  /\ y \in DOMAIN u.entry /\ y[1] = l.dir /\ u.cookie[y] \in Nat
             /\ \/ \E x \in Contents(t, l.dir) : t.entry[x] = u.entry[y] /\ t.cookie[x] = u.cookie[y]
                \/ Joins(t, u, y) /\ l.offset < u.cookie[y]
  <2>1. y \in DOMAIN u.entry /\ y[1] = l.dir
    BY <1>6 DEF Contents
  <2>2. y[1] \in DOMAIN u.inode
    BY <2>1 DEF Sound, Ground, Shaped, SoundEntries, Dirs
  <2>3. u.cookie[y] \in Nat
    BY <1>2, <2>1, <2>2 DEF CookieSound
  <2>4. CASE Stays(t, u, y)
    <3>1. PICK x \in DOMAIN t.entry : x[1] = y[1] /\ t.entry[x] = u.entry[y] /\ t.cookie[x] = u.cookie[y]
      BY <2>4 DEF Stays
    <3>2. x \in Contents(t, l.dir)
      BY <2>1, <3>1 DEF Contents
    <3> QED
      BY <2>1, <2>3, <3>1, <3>2
  <2>5. CASE Joins(t, u, y)
    <3>1. l.dir \in DOMAIN t.inode /\ l.offset < t.inode[l.dir].next_cookie
      BY <1>5, <2>1, <2>2
    <3>2. t.inode[l.dir].next_cookie <= u.cookie[y]
      BY <2>1, <2>5, <3>1 DEF Joins
    <3>3. t.inode[l.dir].next_cookie \in Nat
      BY <3>1 DEF CookieSound
    <3>4. l.offset < u.cookie[y]
      BY <1>3, <2>3, <3>1, <3>2, <3>3
    <3> QED
      BY <2>1, <2>3, <2>5, <3>4
  <2> QED
    BY <1>2, <2>1, <2>4, <2>5
<1>7. ASSUME NEW i \in Known(l), i \notin Strayed(u, l)
      PROVE  /\ l.told[i] = 1
             /\ \E y \in Contents(u, l.dir) :
                  /\ u.entry[y] = i /\ u.cookie[y] <= l.offset
                  /\ \A z \in Contents(u, l.dir) : u.entry[z] = i => z = y
  <2>1. i \notin l.strayed
    BY <1>7 DEF Strayed
  <2>2. l.told[i] = 1
    BY <1>7, <2>1 DEF Charted
  <2>3. PICK x \in Contents(t, l.dir) :
          /\ t.entry[x] = i /\ t.cookie[x] <= l.offset
          /\ \A y \in Contents(t, l.dir) : t.entry[y] = i => y = x
    BY <1>7, <2>1 DEF Charted
  <2>4. PICK y \in Contents(u, l.dir) :
          u.entry[y] = i /\ \A z \in Contents(u, l.dir) : u.entry[z] = i => z = y
    BY <1>7, SoleName
  <2>5. /\ y \in Contents(u, l.dir) /\ u.entry[y] = i
        /\ \A z \in Contents(u, l.dir) : u.entry[z] = i => z = y
    BY <2>4
  <2>6. ~Joins(t, u, y)
    <3> SUFFICES ASSUME Joins(t, u, y) PROVE FALSE
      OBVIOUS
    <3>1. x \in DOMAIN t.entry /\ x[1] = y[1] /\ t.entry[x] = u.entry[y]
      BY <2>3, <2>5 DEF Contents
    <3>2. PICK z \in DOMAIN u.entry : z # y /\ z[1] = y[1] /\ u.entry[z] = u.entry[y]
      BY <3>1 DEF Joins
    <3>3. z \in Contents(u, l.dir) /\ u.entry[z] = i
      BY <2>5, <3>2 DEF Contents
    <3> QED
      BY <2>5, <3>2, <3>3
  <2>7. PICK w \in Contents(t, l.dir) : t.entry[w] = u.entry[y] /\ t.cookie[w] = u.cookie[y]
    BY <1>6, <2>5, <2>6
  <2>8. w = x
    BY <2>3, <2>5, <2>7
  <2> QED
    BY <2>2, <2>3, <2>5, <2>7, <2>8
<1>8. ASSUME NEW y \in Contents(u, l.dir), u.cookie[y] <= l.offset
      PROVE  u.entry[y] \in Known(l)
  <2>1. ~(l.offset < u.cookie[y])
    BY <1>3, <1>6, <1>8
  <2>2. PICK x \in Contents(t, l.dir) : t.entry[x] = u.entry[y] /\ t.cookie[x] = u.cookie[y]
    BY <1>6, <1>8, <2>1
  <2> QED
    BY <1>8, <2>2 DEF Charted
<1>9. Charted(u, m)
  BY <1>1, <1>4, <1>5, <1>7, <1>8 DEF Charted
<1> QED
  BY <1>9 DEF m


Greatest(t, S) == Max({t.cookie[x] : x \in S})
Times(t, S, i) == Cardinality({x \in S : t.entry[x] = i})
Counted(t, l, S) == [i \in Inodes |-> l.told[i] + Times(t, S, i)]

\* A nonempty set of entries has one of the least cookie, and one of the greatest.
LEMMA CookiesBounded ==
  ASSUME NEW t, Sound(t), CookieSound(t), NEW d \in DOMAIN t.inode,
         NEW S \in SUBSET Contents(t, d), S # {}
  PROVE  /\ \E x \in S : \A y \in S : t.cookie[x] <= t.cookie[y]
         /\ \E x \in S : Greatest(t, S) = t.cookie[x]
         /\ \A y \in S : t.cookie[y] <= Greatest(t, S)
<1> DEFINE m == t.inode[d].next_cookie - 1
           C == {t.cookie[x] : x \in S}
<1>1. m \in Nat
  BY DEF CookieSound
<1>2. \A y \in S : t.cookie[y] \in 1 .. m
  BY DEF CookieSound, Contents
<1> HIDE DEF m
<1>3. C \in SUBSET (1 .. m) /\ C # {}
  BY <1>2
<1>4. Max(C) \in C /\ \A c \in C : Max(C) >= c
  BY <1>1, <1>3, LastPosition
<1>5. PICK c \in C : \A b \in C : c <= b
  <2>1. C \in SUBSET Nat
    BY <1>1, <1>3
  <2> QED
    BY <1>3, <2>1, LeastNatural
<1>6. PICK x \in S : t.cookie[x] = c
  OBVIOUS
<1>7. \A y \in S : t.cookie[x] <= t.cookie[y]
  BY <1>5, <1>6
<1>8. \A y \in S : t.cookie[y] <= Max(C)
  <2> SUFFICES ASSUME NEW y \in S PROVE t.cookie[y] <= Max(C)
    OBVIOUS
  <2>1. t.cookie[y] \in C
    OBVIOUS
  <2>2. Max(C) \in 1 .. m /\ t.cookie[y] \in 1 .. m
    BY <1>3, <1>4, <2>1
  <2> HIDE DEF C
  <2> QED
    BY <1>1, <1>4, <2>1, <2>2
<1> QED
  BY <1>4, <1>6, <1>7, <1>8 DEF Greatest

\* What one Treaddir returns.
Answer(t, ahead, count) ==
  {x \in ahead : Cardinality({y \in ahead : t.cookie[y] < t.cookie[x]}) < count}

LEMMA AnswerIs ==
  ASSUME NEW t, Sound(t), CookieSound(t), NEW d \in DOMAIN t.inode, NEW o \in Nat, NEW count \in 1 .. 2
  PROVE  /\ Answer(t, After(t, d, o), count) = {} => After(t, d, o) = {}
         /\ \A x \in Answer(t, After(t, d, o), count), y \in After(t, d, o) :
              t.cookie[y] <= t.cookie[x] => y \in Answer(t, After(t, d, o), count)
<1> DEFINE A == After(t, d, o)
           R == Answer(t, A, count)
           B(x) == {y \in A : t.cookie[y] < t.cookie[x]}
<1>1. A \in SUBSET Contents(t, d)
  BY DEF After
<1>2. \A y \in A : t.cookie[y] \in Nat
  BY <1>1 DEF CookieSound, Contents
<1>3. \A x \in A : x \in R <=> Cardinality(B(x)) < count
  BY DEF Answer
<1>4. \A x : IsFiniteSet(B(x)) /\ Cardinality(B(x)) \in Nat
  <2> SUFFICES ASSUME NEW x PROVE IsFiniteSet(B(x)) /\ Cardinality(B(x)) \in Nat
    OBVIOUS
  <2>1. B(x) \in SUBSET Contents(t, d)
    BY <1>1
  <2> HIDE DEF B
  <2> QED
    BY <2>1, ContentsFinite
<1>5. ASSUME A # {} PROVE R # {}
  <2>1. PICK x \in A : \A y \in A : t.cookie[x] <= t.cookie[y]
    BY <1>1, <1>5, CookiesBounded
  <2>2. B(x) = {}
    BY <1>2, <2>1
  <2>3. Cardinality(B(x)) = 0
    BY <2>2, FS_EmptySet
  <2> HIDE DEF A, R, B
  <2> QED
    BY <1>3, <2>1, <2>3
<1>6. ASSUME NEW x \in R, NEW y \in A, t.cookie[y] <= t.cookie[x]
      PROVE  y \in R
  <2>1. x \in A
    BY DEF Answer
  <2>2. B(y) \in SUBSET B(x)
    BY <1>2, <1>6, <2>1
  <2> HIDE DEF A, R, B
  <2>3. Cardinality(B(y)) <= Cardinality(B(x))
    BY <1>4, <2>2, FS_Subset
  <2> QED
    BY <1>3, <1>4, <1>6, <2>1, <2>3
<1> QED
  BY <1>5, <1>6

LEMMA NoListingIs ==
  /\ NoListing \in Readers /\ NoListing.reader = <<>> /\ NoListing.dir = None
  /\ NoListing.offset = 0 /\ NoListing.strayed = {} /\ NoListing.missed = {}
  /\ NoListing.told = [i \in Inodes |-> 0]
<1> DEFINE z == [i \in Inodes |-> 0]
<1>1. z \in [Inodes -> Nat]
  OBVIOUS
<1>2. NoListing = [reader |-> <<>>, dir |-> 0, offset |-> 0, told |-> z, strayed |-> {}, missed |-> {}]
  BY DEF NoListing, None
<1> HIDE DEF z
<1>3. NoListing \in Readers
  BY <1>1, <1>2 DEF Readers
<1>4. /\ NoListing.reader = <<>> /\ NoListing.dir = None /\ NoListing.told = z
      /\ NoListing.offset = 0 /\ NoListing.strayed = {} /\ NoListing.missed = {}
  BY <1>2 DEF None
<1> QED
  BY <1>3, <1>4 DEF z

\* A reader that begins, or has come to the end, has been told of nothing.
LEMMA UnreadIs ==
  ASSUME NEW t, Sound(t), CookieSound(t), NEW l \in Readers,
         l.dir \in DOMAIN t.inode \cup {None}, l.offset = 0, l.told = [i \in Inodes |-> 0]
  PROVE  Charted(t, l)
<1>1. l.dir \in Nat /\ l.dir < t.next
  <2>1. t.next \in Nat /\ DOMAIN t.inode \subseteq 1 .. t.next - 1 /\ t.root \in DOMAIN t.inode
    BY TreeParts DEF Sound, Ground, Shaped, SoundEntries, Dirs
  <2> QED
    BY <2>1 DEF None
<1>2. Known(l) = {}
  BY DEF Known
<1>3. \A x \in Contents(t, l.dir) : ~(t.cookie[x] <= 0)
  <2> SUFFICES ASSUME NEW x \in Contents(t, l.dir) PROVE ~(t.cookie[x] <= 0)
    OBVIOUS
  <2>1. x \in DOMAIN t.entry /\ x[1] \in DOMAIN t.inode
    BY DEF Contents, Sound, Ground, Shaped, SoundEntries, Dirs
  <2>2. t.cookie[x] \in 1 .. t.inode[x[1]].next_cookie - 1 /\ t.inode[x[1]].next_cookie \in Nat
    BY <2>1 DEF CookieSound
  <2> QED
    BY <2>2
<1>4. l.dir \in DOMAIN t.inode => 0 < t.inode[l.dir].next_cookie
  BY DEF CookieSound
<1> QED
  BY <1>1, <1>2, <1>3, <1>4 DEF Charted

LEMMA AnswerType ==
  ASSUME NEW t, Sound(t), CookieSound(t), NEW l \in Readers,
         l.dir \in DOMAIN t.inode, NEW reply \in SUBSET Contents(t, l.dir), reply # {}
  PROVE  Greatest(t, reply) \in Nat /\ Counted(t, l, reply) \in [Inodes -> Nat]
<1>1. Greatest(t, reply) \in Nat
  <2>1. PICK x \in reply : Greatest(t, reply) = t.cookie[x]
    BY CookiesBounded
  <2>2. t.cookie[x] \in 1 .. t.inode[l.dir].next_cookie - 1
    BY <2>1 DEF CookieSound, Contents
  <2> QED
    BY <2>1, <2>2
<1>2. Counted(t, l, reply) \in [Inodes -> Nat]
  <2>1. ASSUME NEW i \in Inodes PROVE l.told[i] + Times(t, reply, i) \in Nat
    <3> DEFINE S == {x \in reply : t.entry[x] = i}
    <3>1. S \in SUBSET Contents(t, l.dir)
      OBVIOUS
    <3> HIDE DEF S
    <3>2. Cardinality(S) \in Nat
      BY <3>1, ContentsFinite
    <3>3. Times(t, reply, i) \in Nat
      BY <3>2 DEF S, Times
    <3> QED
      BY <3>3 DEF Readers
  <2> QED
    BY <2>1 DEF Counted
<1> QED
  BY <1>1, <1>2

\* The record after an answer that is not empty.
LEMMA AnswerCharted ==
  ASSUME NEW t, Sound(t), CookieSound(t), NEW l \in Readers, Charted(t, l),
         l.dir \in DOMAIN t.inode, NEW count \in 1 .. 2,
         NEW reply, reply = Answer(t, After(t, l.dir, l.offset), count), reply # {},
         NEW read \in Readers, read.dir = l.dir, read.strayed = l.strayed,
         read.told = Counted(t, l, reply), read.offset = Greatest(t, reply)
  PROVE  LET m == [read EXCEPT !.strayed = Strayed(t, read)]
         IN m \in Readers /\ Charted(t, m)
<1> DEFINE m == [read EXCEPT !.strayed = Strayed(t, read)]
           C == Contents(t, l.dir)
           T(i) == {x \in reply : t.entry[x] = i}
           o == Greatest(t, reply)
<1>1. reply \in SUBSET C /\ \A x \in reply : x \in After(t, l.dir, l.offset)
  BY DEF Answer, After
<1>2. /\ \A x \in C : t.cookie[x] \in 1 .. t.inode[l.dir].next_cookie - 1
      /\ t.inode[l.dir].next_cookie \in Nat /\ l.offset \in Nat /\ l.dir \in Nat
  BY DEF CookieSound, Contents, Readers
<1>3. /\ \E x \in reply : o = t.cookie[x]
      /\ \A y \in reply : t.cookie[y] <= o
  BY <1>1, CookiesBounded
<1>4. \A i : IsFiniteSet(T(i)) /\ Cardinality(T(i)) \in Nat
  <2> SUFFICES ASSUME NEW i PROVE IsFiniteSet(T(i)) /\ Cardinality(T(i)) \in Nat
    OBVIOUS
  <2>1. T(i) \in SUBSET C
    BY <1>1
  <2> HIDE DEF T
  <2> QED
    BY <2>1, ContentsFinite
<1>5. \A x \in C : t.cookie[x] > l.offset <=> x \in After(t, l.dir, l.offset)
  BY DEF After
<1>6. o \in Nat /\ l.offset < o /\ o < t.inode[l.dir].next_cookie
  <2>1. PICK x \in reply : o = t.cookie[x]
    BY <1>3
  <2>2. x \in C /\ t.cookie[x] > l.offset
    BY <1>1, <1>5, <2>1
  <2> HIDE DEF o, C
  <2> QED
    BY <1>2, <2>1, <2>2
\* What has a cookie up to the new one was read before, or is in the answer.
<1>7. ASSUME NEW y \in C
      PROVE  t.cookie[y] <= o <=> t.cookie[y] <= l.offset \/ y \in reply
  <2>1. PICK x \in reply : o = t.cookie[x]
    BY <1>3
  <2>2. ASSUME t.cookie[y] <= o, ~(t.cookie[y] <= l.offset) PROVE y \in reply
    <3>1. y \in After(t, l.dir, l.offset)
      BY <1>2, <1>5, <2>2
    <3> QED
      BY <1>2, <2>1, <2>2, <3>1, AnswerIs
  <2>3. ASSUME t.cookie[y] <= l.offset PROVE t.cookie[y] <= o
    <3> HIDE DEF o, C
    <3> QED
      BY <1>2, <1>6, <2>3
  <2> QED
    BY <1>3, <2>2, <2>3
<1>8. read.told = [i \in Inodes |-> l.told[i] + Cardinality(T(i))] /\ read.offset = o
      /\ read.dir = l.dir /\ read.strayed = l.strayed
  BY DEF Times, Counted
<1>9. read \in Readers
  OBVIOUS
<1>10. m \in Readers /\ Known(m) = Known(read) /\ m.dir = l.dir /\ m.offset = o
       /\ m.told = read.told /\ m.strayed = Strayed(t, read)
  <2>1. \A r \in Readers :
          LET n == [r EXCEPT !.strayed = Strayed(t, r)]
          IN n \in Readers /\ Known(n) = Known(r) /\ n.dir = r.dir /\ n.offset = r.offset
             /\ n.told = r.told /\ n.strayed = Strayed(t, r)
    BY RestrayedIs
  <2>2. m \in Readers /\ Known(m) = Known(read) /\ m.dir = read.dir /\ m.offset = read.offset
        /\ m.told = read.told /\ m.strayed = Strayed(t, read)
    BY <1>9, <2>1
  <2> HIDE DEF m, o, T
  <2> QED
    BY <1>8, <2>2
<1> HIDE DEF m, o
<1>11. \A i \in Inodes : i \in Known(read) <=> i \in Known(l) \/ T(i) # {}
  <2> SUFFICES ASSUME NEW i \in Inodes PROVE i \in Known(read) <=> i \in Known(l) \/ T(i) # {}
    OBVIOUS
  <2>1. read.told[i] = l.told[i] + Cardinality(T(i)) /\ l.told[i] \in Nat
    BY <1>8 DEF Readers
  <2>2. Cardinality(T(i)) \in Nat /\ (Cardinality(T(i)) = 0 <=> T(i) = {})
    BY <1>4, FS_EmptySet
  <2> HIDE DEF T
  <2> QED
    BY <2>1, <2>2 DEF Known
<1>12. ASSUME NEW i \in Known(read), i \notin Strayed(t, read)
       PROVE  /\ read.told[i] = 1
              /\ \E x \in C : /\ t.entry[x] = i /\ t.cookie[x] <= o
                              /\ \A y \in C : t.entry[y] = i => y = x
  <2>1. i \in Inodes /\ i \notin l.strayed
    BY <1>8, <1>12 DEF Known, Strayed
  <2>2. PICK x \in Contents(t, read.dir) :
          t.entry[x] = i /\ \A y \in Contents(t, read.dir) : t.entry[y] = i => y = x
    BY <1>12, SoleName
  <2>3. x \in C /\ t.entry[x] = i /\ \A y \in C : t.entry[y] = i => y = x
    BY <1>8, <2>2
  <2>4. read.told[i] = l.told[i] + Cardinality(T(i)) /\ l.told[i] \in Nat
    BY <1>8, <2>1 DEF Readers
  <2>5. CASE i \in Known(l)
    <3>1. PICK w \in C : t.entry[w] = i /\ t.cookie[w] <= l.offset
      BY <2>1, <2>5 DEF Charted
    <3>2. w = x
      BY <2>3, <3>1
    <3>3. T(i) = {}
      <4> SUFFICES ASSUME NEW y \in T(i) PROVE FALSE
        OBVIOUS
      <4>1. y \in C /\ y = x /\ t.cookie[y] > l.offset
        BY <1>1, <1>5, <2>3
      <4>2. t.cookie[x] \in Nat
        BY <1>2, <2>3
      <4> HIDE DEF C, T
      <4> QED
        BY <1>2, <3>1, <3>2, <4>1, <4>2
    <3>4. l.told[i] = 1
      BY <2>1, <2>5 DEF Charted
    <3>5. read.told[i] = 1
      <4>1. Cardinality(T(i)) = 0
        BY <3>3, FS_EmptySet
      <4> HIDE DEF T
      <4> QED
        BY <2>4, <3>4, <4>1
    <3> QED
      BY <1>7, <2>3, <3>1, <3>2, <3>5
  <2>6. CASE i \notin Known(l)
    <3>1. l.told[i] = 0
      BY <2>1, <2>4, <2>6 DEF Known
    <3>2. T(i) # {}
      BY <1>11, <1>12, <2>1, <2>6
    <3>3. T(i) = {x}
      BY <1>1, <2>3, <3>2
    <3>4. x \in reply
      BY <3>3
    <3>5. Cardinality(T(i)) = 1
      BY <3>3, FS_Singleton
    <3>6. read.told[i] = 1
      BY <2>4, <3>1, <3>5
    <3> QED
      BY <1>7, <2>3, <3>4, <3>6
  <2> QED
    BY <2>5, <2>6
<1>13. ASSUME NEW y \in C, t.cookie[y] <= o
       PROVE  t.entry[y] \in Known(read)
  <2>1. t.entry[y] \in Inodes
    BY TreeParts DEF Contents, Sound, Ground, Shaped, SoundEntries
  <2>2. CASE t.cookie[y] <= l.offset
    BY <1>11, <1>13, <2>1, <2>2 DEF Charted
  <2>3. CASE y \in reply
    BY <1>11, <2>1, <2>3
  <2> QED
    BY <1>7, <1>13, <2>2, <2>3
<1>14. l.dir < t.next
  BY DEF Charted
<1>15. Charted(t, m)
  <2>1. m.dir = l.dir /\ m.offset = o /\ m.told = read.told /\ m.strayed = Strayed(t, read)
        /\ Known(m) = Known(read)
    BY <1>10
  <2>2. m.dir < t.next /\ (m.dir \in DOMAIN t.inode => m.offset < t.inode[m.dir].next_cookie)
    BY <1>6, <1>14, <2>1
  <2>3. \A i \in Known(m) \ m.strayed :
          /\ m.told[i] = 1
          /\ \E x \in Contents(t, m.dir) :
               /\ t.entry[x] = i /\ t.cookie[x] <= m.offset
               /\ \A y \in Contents(t, m.dir) : t.entry[y] = i => y = x
    <3> SUFFICES ASSUME NEW i \in Known(m), i \notin m.strayed
                 PROVE  /\ m.told[i] = 1
                        /\ \E x \in Contents(t, m.dir) :
                             /\ t.entry[x] = i /\ t.cookie[x] <= m.offset
                             /\ \A y \in Contents(t, m.dir) : t.entry[y] = i => y = x
      OBVIOUS
    <3>1. i \in Known(read) /\ i \notin Strayed(t, read)
      BY <2>1
    <3>2. /\ read.told[i] = 1
          /\ \E x \in C : /\ t.entry[x] = i /\ t.cookie[x] <= o
                          /\ \A y \in C : t.entry[y] = i => y = x
      BY <1>12, <3>1
    <3> QED
      BY <2>1, <3>2
  <2>4. \A x \in Contents(t, m.dir) : t.cookie[x] <= m.offset => t.entry[x] \in Known(m)
    BY <1>13, <2>1
  <2> QED
    BY <2>2, <2>3, <2>4 DEF Charted
<1> QED
  BY <1>10, <1>15 DEF m


LEMMA ReaddirKeeps ==
  ASSUME SessionsSound, SessionsSound', ListingKept, NEW s \in Sessions, NEW f, NEW count \in 1 .. 2,
         NEW again \in BOOLEAN, Readdir(s, f, count, again)
  PROVE  ListingKept'
<1> DEFINE d == Held(s, f)
           l == IF again THEN [NoListing EXCEPT !.reader = <<s, f>>, !.dir = d] ELSE listing
           reply == Answer(fs, After(fs, d, l.offset), count)
           read == [l EXCEPT !.told = [i \in Inodes |-> @[i] + Cardinality({x \in reply : fs.entry[x] = i})],
                             !.offset = Max({fs.cookie[x] : x \in reply})]
<1>1. /\ Uses("readdir") /\ f \in DOMAIN Table(s) /\ Reply(s, fs, Table(s))
      /\ ~again => listing.dir = d
      /\ listing' = IF reply = {} THEN [NoListing EXCEPT !.missed = InodesOf(fs, d) \ Known(l)]
                    ELSE [read EXCEPT !.strayed = Strayed(fs, read)]
  BY DEF Readdir, Answer
<1>2. Sound(fs) /\ CookieSound(fs) /\ listing \in Readers /\ Charted(fs, listing)
  BY <1>1 DEF ListingKept, SessionsSound, Settled
<1>3. d \in DOMAIN fs.inode /\ f \in Fids
  BY <1>1, HeldIs
<1>4. fs' = fs /\ workload' = workload
  <2>1. Remembered(fs) = fs
    BY <1>1, <1>2, RememberedKeeps
  <2> QED
    BY <1>1, <2>1 DEF Reply
<1>5. Uses("readdir")'
  BY <1>1, <1>4 DEF Uses
<1>6. l \in Readers /\ Charted(fs, l) /\ l.dir = d
  <2>1. CASE again
    <3>1. <<s, f>> \in {<<>>} \cup Sessions \X Fids
      BY <1>3
    <3> HIDE DEF d
    <3> DEFINE n == [NoListing EXCEPT !.reader = <<s, f>>, !.dir = d]
    <3>2. d \in Nat
      BY <1>2, <1>3, TreeParts, NamespaceAssumption DEF Sound, Ground, Inodes
    <3>3. n \in Readers /\ n.dir = d /\ n.offset = 0 /\ n.told = [i \in Inodes |-> 0]
      <4> DEFINE z == [i \in Inodes |-> 0]
      <4>1. NoListing.told = z
        BY NoListingIs
      <4> HIDE DEF z
      <4>2. n \in Readers /\ n.dir = d /\ n.offset = 0 /\ n.told = z
        BY <3>1, <3>2, <4>1, NoListingIs DEF Readers
      <4> QED
        BY <4>2 DEF z
    <3> HIDE DEF n
    <3>4. Charted(fs, n)
      BY <1>2, <1>3, <3>3, UnreadIs
    <3> QED
      BY <2>1, <3>3, <3>4 DEF n
  <2>2. CASE ~again
    BY <1>1, <1>2, <2>2
  <2> QED
    BY <2>1, <2>2
<1> HIDE DEF d, l
<1>7. CASE reply = {}
  <2>1. After(fs, d, l.offset) = {} /\ l.offset \in Nat
    <3>1. l.offset \in Nat
      BY <1>6 DEF Readers
    <3> QED
      BY <1>2, <1>3, <1>7, <3>1, AnswerIs
  <2>2. \A x \in Contents(fs, d) : fs.entry[x] \in Known(l)
    <3> SUFFICES ASSUME NEW x \in Contents(fs, d) PROVE fs.entry[x] \in Known(l)
      OBVIOUS
    <3>1. ~(fs.cookie[x] > l.offset)
      BY <2>1 DEF After
    <3>2. fs.cookie[x] \in Int
      BY <1>2, <1>3 DEF CookieSound, Contents
    <3>3. fs.cookie[x] <= l.offset
      BY <2>1, <3>1, <3>2
    <3> QED
      BY <1>6, <3>3 DEF Charted
  <2>3. InodesOf(fs, d) \ Known(l) = {}
    BY <2>2 DEF InodesOf
  <2>4. listing' = NoListing
    <3>1. listing' = [NoListing EXCEPT !.missed = {}]
      BY <1>1, <1>7, <2>3
    <3> QED
      BY <3>1, NoListingIs DEF Readers
  <2>5. NoListing \in Readers /\ Charted(fs, NoListing)
    BY <1>2, NoListingIs, UnreadIs
  <2>6. listing' \in Readers /\ CookieSound(fs') /\ Charted(fs', listing')
    BY <1>2, <1>4, <2>4, <2>5
  <2> QED
    BY <1>5, <2>6 DEF ListingKept
<1>8. CASE reply # {}
  <2>1. reply = Answer(fs, After(fs, l.dir, l.offset), count)
    BY <1>6
  <2> DEFINE m == [read EXCEPT !.strayed = Strayed(fs, read)]
  <2> HIDE DEF reply
  <2>2. m \in Readers /\ Charted(fs, m)
    <3>1. read = [l EXCEPT !.told = Counted(fs, l, reply), !.offset = Greatest(fs, reply)]
      BY DEF Counted, Times, Greatest
    <3> HIDE DEF read
    <3>2. reply \in SUBSET Contents(fs, l.dir) /\ l.dir \in DOMAIN fs.inode
      BY <1>3, <1>6, <2>1 DEF Answer, After
    <3>3. /\ read \in Readers /\ read.told = Counted(fs, l, reply) /\ read.offset = Greatest(fs, reply)
          /\ read.dir = l.dir /\ read.strayed = l.strayed
      <4>1. Greatest(fs, reply) \in Nat /\ Counted(fs, l, reply) \in [Inodes -> Nat]
        BY <1>2, <1>6, <1>8, <3>2, AnswerType
      <4> QED
        BY <1>6, <3>1, <4>1 DEF Readers
    <3> HIDE DEF read
    <3> QED
      BY <1>2, <1>6, <1>8, <2>1, <3>2, <3>3, AnswerCharted
  <2>3. listing' = m
    BY <1>1, <1>8
  <2> HIDE DEF m, read
  <2>4. listing' \in Readers /\ CookieSound(fs') /\ Charted(fs', listing')
    BY <1>2, <1>4, <2>2, <2>3
  <2> QED
    BY <1>5, <2>4 DEF ListingKept
<1> QED
  BY <1>7, <1>8

\* The listener's steps leave the tree as it is.
LEMMA ListenerLeaves ==
  ASSUME Sound(fs), Subscribe \/ Unsubscribe \/ Deliver
  PROVE  fs'.entry = fs.entry /\ fs'.cookie = fs.cookie /\ fs'.inode = fs.inode
<1>1. IsTree(fs)
  BY DEF Sound, Ground
<1>2. CASE Deliver
  BY <1>2 DEF Deliver
<1>3. CASE Subscribe
  <2>1. fs' = [SetChangeTracking(fs, TRUE) EXCEPT !.changes = <<>>]
    BY <1>3 DEF Subscribe
  <2> QED
    BY <1>1, <2>1 DEF SetChangeTracking, Emit, IsTree, Trees
<1>4. CASE Unsubscribe
  <2>1. fs' = SetChangeTracking(fs, FALSE)
    BY <1>4 DEF Unsubscribe
  <2> QED
    BY <1>1, <2>1 DEF SetChangeTracking, Emit, IsTree, Trees
<1> QED
  BY <1>2, <1>3, <1>4

LEMMA ListingStep ==
  ASSUME SessionsSound, SessionsSound', Proceeds(fs, fs'), MirrorKept, ListingKept, [Next]_vars
  PROVE  ListingKept'
<1>1. Sound(fs) /\ Sound(fs') /\ Compact(fs)
  BY DEF SessionsSound, Settled, MirrorKept
<1>2. CASE ReaderNext
  <2>1. PICK s \in workload.sessions, f \in workload.fids, count \in 1 .. 2, again \in BOOLEAN :
          Readdir(s, f, count, again)
    BY <1>2 DEF ReaderNext
  <2>2. s \in Sessions
    BY WorkloadIs
  <2> QED
    BY <2>1, <2>2, ReaddirKeeps
<1>3. CASE UNCHANGED vars
  BY <1>3 DEF vars, ListingKept, Uses, Charted, CookieSound
<1>4. CASE Meanwhile
  <2>1. listing \in Readers
    BY DEF ListingKept
  <2>2. listing' = [listing EXCEPT !.strayed = Strayed(fs', listing)]
    BY <1>4 DEF Meanwhile
  <2>3. listing' \in Readers /\ Known(listing') = Known(listing)
    BY <2>1, <2>2, RestrayedIs
  <2>4. workload' = workload /\ (Uses("readdir") => Lists(fs, fs'))
    <3>1. CASE Advances
      <4>1. PICK t : Seen(fs, t) /\ Carries(t)
        BY <3>1 DEF Advances
      <4>2. workload' = workload
        BY <3>1 DEF Advances
      <4>3. Uses("readdir") => Lists(fs, fs')
        <5> SUFFICES ASSUME Uses("readdir") PROVE Lists(fs, fs')
          OBVIOUS
        <5>1. fs'.entry = t.entry /\ fs'.cookie = t.cookie /\ fs'.inode = t.inode
          BY <4>1 DEF Carries
        <5> QED
          BY <4>1, <5>1, ListsSame DEF Seen
      <4> QED
        BY <4>2, <4>3
    <3>2. CASE Subscribe \/ Unsubscribe \/ Deliver
      <4>1. workload' = workload
        BY <3>2 DEF Subscribe, Unsubscribe, Deliver
      <4>2. fs'.entry = fs.entry /\ fs'.cookie = fs.cookie /\ fs'.inode = fs.inode
        BY <1>1, <3>2, ListenerLeaves
      <4> QED
        BY <1>1, <4>1, <4>2, SameSeen, ListsSame DEF Seen
    <3> QED
      BY <1>1, <3>1, <3>2, NextAdvances
  <2>5. CASE ~Uses("readdir")
    <3>1. Known(listing) = {} /\ ~Uses("readdir")'
      BY <2>4, <2>5 DEF ListingKept, Uses
    <3> QED
      BY <2>3, <3>1 DEF ListingKept
  <2>6. CASE Uses("readdir")
    <3>1. CookieSound(fs) /\ Charted(fs, listing) /\ Uses("readdir")' /\ Lists(fs, fs')
      BY <2>4, <2>6 DEF ListingKept, Uses
    <3>2. fs.next <= fs'.next /\ fs.next \in Nat /\ fs'.next \in Nat
          /\ DOMAIN fs'.inode \ DOMAIN fs.inode \subseteq fs.next .. fs'.next - 1
      <4>1. fs.next \in Nat /\ fs'.next \in Nat
        BY <1>1, TreeParts DEF Sound, Ground
      <4> QED
        BY <1>1, <4>1, FreshStep
    <3>3. listing.dir \notin DOMAIN fs.inode => listing.dir \notin DOMAIN fs'.inode
      <4>1. listing.dir < fs.next /\ listing.dir \in Nat
        BY <2>1, <3>1 DEF Charted, Readers
      <4> QED
        BY <3>2, <4>1
    <3>4. Charted(fs', listing')
      BY <1>1, <2>1, <2>2, <3>1, <3>2, <3>3, ChartedFurther
    <3>5. CookieSound(fs')
      BY <3>1 DEF Lists
    <3> QED
      BY <2>3, <3>1, <3>4, <3>5 DEF ListingKept
  <2> QED
    BY <2>5, <2>6
<1> QED
  BY <1>2, <1>3, <1>4 DEF Next

LEMMA ListingHolds ==
  ASSUME SessionsSound, ListingKept
  PROVE  ListingExact
<1>1. listing.missed = {} /\ \A i \in Inodes : listing.told[i] \in Nat
  BY DEF ListingKept, Readers
<1>2. ASSUME NEW i \in Inodes, listing.told[i] > 1 PROVE i \in listing.strayed
  <2>1. i \in Known(listing)
    BY <1>1, <1>2 DEF Known
  <2>2. Charted(fs, listing)
    BY <2>1 DEF ListingKept
  <2> QED
    BY <1>2, <2>1, <2>2 DEF Charted
<1> QED
  BY <1>1, <1>2 DEF ListingExact

LEMMA InitViews ==
  ASSUME Init
  PROVE  MirrorKept /\ ListingKept
<1> DEFINE u == Fresh(1, 1, FALSE)
<1>1. /\ u.tracking = FALSE /\ u.changes = <<>> /\ u.entry = <<>> /\ u.cookie = <<>>
      /\ u.inode = [i \in {1} |-> NewInode("directory", None, 0)]
  BY DEF Fresh
<1>2. /\ fs = u /\ subscribed = FALSE /\ microtasks = <<>> /\ mirror = {} /\ listing = NoListing
  BY DEF Init
<1>3. SessionsSound
  BY InitSound
<1>4. Sound(u)
  BY <1>2, <1>3 DEF SessionsSound, Settled
<1> HIDE DEF u
<1>5. Compact(u) /\ Queued(u)
  <2>1. DOMAIN u.inode = {1} /\ Cardinality({1}) = 1
    BY <1>1, FS_Singleton
  <2>2. Compact(u)
    BY <2>1, NamespaceAssumption DEF Compact
  <2>3. <<>> \in Seq(Notes) /\ Len(<<>>) = 0
    OBVIOUS
  <2>4. Queued(u)
    BY <1>1, <2>3 DEF Queued, Invalidated
  <2> QED
    BY <2>2, <2>4
<1>6. CookieSound(u)
  <2>1. DOMAIN u.entry = {} /\ DOMAIN u.cookie = {}
    BY <1>1
  <2>2. u.inode[1].next_cookie = 1 /\ DOMAIN u.inode = {1}
    BY <1>1 DEF NewInode
  <2> QED
    BY <2>1, <2>2 DEF CookieSound
<1>7. NoListing \in Readers /\ Charted(u, NoListing)
  BY <1>4, <1>6, NoListingIs, UnreadIs
<1>8. Known(NoListing) = {}
  BY DEF Known, NoListing
<1>9. ListingKept
  BY <1>2, <1>6, <1>7, <1>8 DEF ListingKept
<1>10. MirrorKept
  <2>1. microtasks \in Seq(Notes) /\ mirror \subseteq Steps \X Inodes
    BY <1>2
  <2> QED
    BY <1>1, <1>2, <1>5, <2>1 DEF MirrorKept
<1> QED
  BY <1>9, <1>10

\* The inductive invariant of the two views.
ViewsKept == SessionsSound /\ MirrorKept /\ ListingKept

\* A listener that follows the notifications has the exact tree whenever none is on its
\* way, although they overflow into a rescan and are delivered after the tree has gone on
\* (Emit, filesystemChanged, poll); and a directory read in pieces while it changes is
\* read whole, and nothing in it twice that kept one name (readdir, insert, rename_at).
THEOREM ViewsExactAlways == Spec => []ViewsExact
<1>1. Init => ViewsKept
  BY InitSound, InitViews DEF ViewsKept
<1>2. ViewsKept /\ [Next]_vars => ViewsKept'
  <2> SUFFICES ASSUME ViewsKept, [Next]_vars PROVE ViewsKept'
    OBVIOUS
  <2>1. SessionsSound /\ MirrorKept /\ ListingKept
    BY DEF ViewsKept
  <2>2. SessionsSound' /\ Proceeds(fs, fs')
    BY <2>1, NextSound
  <2>3. MirrorKept'
    BY <2>1, <2>2, MirrorStep
  <2>4. ListingKept'
    BY <2>1, <2>2, ListingStep
  <2> QED
    BY <2>2, <2>3, <2>4 DEF ViewsKept
<1>3. ViewsKept => ViewsExact
  BY MirrorHolds, ListingHolds DEF ViewsKept, ViewsExact
<1> QED
  BY <1>1, <1>2, <1>3, PTL DEF Spec

=============================================================================
