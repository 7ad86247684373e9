----------------------------- MODULE StoreProofs -----------------------------
(***************************************************************************)
(* What Store promises, for every set of VMs and words, every program and  *)
(* logs, graphs and texts of every size: an inclusion proof is accepted    *)
(* for its own leaf and path alone, a bundle that opens was sealed, signed *)
(* and logged as it says, and graphs merge as sets and read back from      *)
(* their snapshots.                                                        *)
(*                                                                         *)
(* The tree of the log, its paths and folds, the parsing of a snapshot and *)
(* queries are recursive functions; what they compute follows by induction *)
(* on numbers, stated with a set for the predicate.                        *)
(***************************************************************************)
EXTENDS Store, Names, SequenceTheorems, FiniteSetTheorems, WellFoundedInduction, TLAPS

-----------------------------------------------------------------------------
(* Induction, with a set for the predicate.                                *)
LEMMA LeastElement ==
  ASSUME NEW T \in SUBSET Nat, T # {}
  PROVE  \E x \in T : \A y \in T : ~(y < x)
<1>1. IsWellFoundedOn(OpToRel(<, Nat), Nat)
  BY NatLessThanWellFounded
<1>2. PICK x \in T : \A y \in T : ~(<<y, x>> \in OpToRel(<, Nat))
  BY <1>1, WFMin
<1>3. OpToRel(<, Nat) = {z \in Nat \X Nat : z[1] < z[2]}
  BY DEF OpToRel
<1>. QED
  BY <1>2, <1>3

LEMMA Induction ==
  ASSUME NEW P, 0 \in P, \A n \in Nat : n \in P => n + 1 \in P
  PROVE  Nat \subseteq P
<1> SUFFICES ASSUME Nat \ P # {} PROVE FALSE
  OBVIOUS
<1>1. PICK x \in Nat \ P : \A y \in Nat \ P : ~(y < x)
  BY LeastElement
<1>2. x # 0 /\ x \in Nat /\ x - 1 \in Nat /\ x - 1 < x /\ (x - 1) + 1 = x
  BY <1>1
<1>3. x - 1 \in P
  BY <1>1, <1>2
<1>. QED
  BY <1>1, <1>2, <1>3

LEMMA StrongInduction ==
  ASSUME NEW P, \A n \in Nat : (\A m \in Nat : m < n => m \in P) => n \in P
  PROVE  Nat \subseteq P
<1> SUFFICES ASSUME Nat \ P # {} PROVE FALSE
  OBVIOUS
<1>1. PICK x \in Nat \ P : \A y \in Nat \ P : ~(y < x)
  BY LeastElement
<1>2. \A m \in Nat : m < x => m \in P
  BY <1>1
<1>. QED
  BY <1>1, <1>2

-----------------------------------------------------------------------------
(* k_below: the point where a tree over n leaves is split.                 *)
LEMMA DoubledExists ==
  ASSUME NEW n \in Nat \ {0}
  PROVE  \E d : d = [k \in 1..n |-> IF 2 * k < n THEN d[2 * k] ELSE k]
<1> DEFINE Fits(c, d) == d = [k \in c..n |-> IF 2 * k < n THEN d[2 * k] ELSE k]
           P == {m \in Nat : m <= n => \E d : Fits(n - m + 1, d)}
<1>1. 0 \in P
  <2>1. Fits(n - 0 + 1, [k \in n - 0 + 1..n |-> k])
    <3>1. \A k : k \notin n - 0 + 1..n
      OBVIOUS
    <3>. QED
      BY <3>1
  <2>. QED
    BY <2>1
<1>2. ASSUME NEW m \in Nat, m \in P PROVE m + 1 \in P
  <2> SUFFICES ASSUME m + 1 <= n PROVE \E d : Fits(n - (m + 1) + 1, d)
    OBVIOUS
  <2>1. PICK c \in 1..n : c = n - (m + 1) + 1 /\ c + 1 = n - m + 1 /\ m <= n
    <3>1. n - (m + 1) + 1 \in 1..n /\ (n - (m + 1) + 1) + 1 = n - m + 1 /\ m <= n
      OBVIOUS
    <3>. QED
      BY <3>1
  <2>2. PICK d : Fits(c + 1, d)
    BY <1>2, <2>1
  <2> DEFINE here == IF 2 * c < n THEN d[2 * c] ELSE c
             e == [k \in c..n |-> IF k = c THEN here ELSE d[k]]
  <2>3. \A k \in c..n : k = c \/ k \in c + 1..n
    OBVIOUS
  <2>4. \A k \in c..n : 2 * k < n => 2 * k \in c + 1..n /\ 2 * k \in c..n /\ 2 * k # c
    <3> SUFFICES ASSUME NEW k \in c..n, 2 * k < n
                 PROVE  2 * k \in c + 1..n /\ 2 * k \in c..n /\ 2 * k # c
      OBVIOUS
    <3>. QED
      OBVIOUS
  <2>5. \A k \in c + 1..n : d[k] = IF 2 * k < n THEN d[2 * k] ELSE k
    BY <2>2
  <2>6. \A k \in c..n : e[k] = IF k = c THEN here ELSE d[k]
    OBVIOUS
  <2> HIDE DEF here, e
  <2>7. \A k \in c..n : e[k] = IF 2 * k < n THEN e[2 * k] ELSE k
    <3> SUFFICES ASSUME NEW k \in c..n PROVE e[k] = IF 2 * k < n THEN e[2 * k] ELSE k
      OBVIOUS
    <3>1. 2 * k < n => e[2 * k] = d[2 * k]
      BY <2>4, <2>6
    <3>2. CASE k = c
      BY <2>6, <3>1, <3>2 DEF here
    <3>3. CASE k # c
      BY <2>3, <2>5, <2>6, <3>1, <3>3
    <3>. QED
      BY <3>2, <3>3
  <2>8. Fits(c, e)
    BY <2>7 DEF e
  <2>. QED
    BY <2>1, <2>8
<1>3. n \in P
  <2> HIDE DEF P
  <2>. QED
    BY <1>1, <1>2, Induction
<1>4. n <= n /\ n - n + 1 = 1
  OBVIOUS
<1>5. PICK d : Fits(1, d)
  BY <1>3, <1>4
<1>. QED
  BY <1>5

(* The split leaves leaves on both sides. *)
LEMMA SplitIsInside ==
  ASSUME NEW n \in Nat, n >= 2
  PROVE  k_below(n) \in 1..n - 1 /\ n - k_below(n) \in 1..n - 1
<1> DEFINE Doubled(d) == d = [k \in 1..n |-> IF 2 * k < n THEN d[2 * k] ELSE k]
           chosen == CHOOSE d : Doubled(d)
<1>1. n \in Nat \ {0}
  OBVIOUS
<1>2. Doubled(chosen)
  BY <1>1, DoubledExists
<1>3. k_below(n) = chosen[1]
  BY DEF k_below
<1>4. \A k \in 1..n : chosen[k] = IF 2 * k < n THEN chosen[2 * k] ELSE k
  BY <1>2
<1> HIDE DEF chosen
<1> DEFINE P == {m \in Nat : m \in 1..n - 1 => chosen[n - m] \in 1..n - 1}
<1>5. ASSUME NEW m \in Nat, \A j \in Nat : j < m => j \in P PROVE m \in P
  <2> SUFFICES ASSUME m \in 1..n - 1 PROVE chosen[n - m] \in 1..n - 1
    OBVIOUS
  <2>1. PICK k \in 1..n - 1 : k = n - m
    <3>1. n - m \in 1..n - 1
      OBVIOUS
    <3>. QED
      BY <3>1
  <2>2. k \in 1..n
    OBVIOUS
  <2>3. CASE 2 * k < n
    <3>1. PICK j \in 1..n - 1 : j = n - 2 * k /\ j < m /\ n - j = 2 * k
      <4>1. n - 2 * k \in 1..n - 1 /\ n - 2 * k < m /\ n - (n - 2 * k) = 2 * k
        BY <2>1, <2>3
      <4>. QED
        BY <4>1
    <3>2. j \in P /\ j \in Nat
      BY <1>5, <3>1
    <3>3. chosen[2 * k] \in 1..n - 1
      BY <3>1, <3>2
    <3>. QED
      BY <1>4, <2>1, <2>2, <2>3, <3>3
  <2>4. CASE ~(2 * k < n)
    BY <1>4, <2>1, <2>2, <2>4
  <2>. QED
    BY <2>3, <2>4
<1>6. Nat \subseteq P
  <2> HIDE DEF P
  <2>. QED
    BY <1>5, StrongInduction
<1>7. n - 1 \in P /\ n - 1 \in 1..n - 1 /\ n - (n - 1) = 1
  BY <1>6
<1>8. chosen[1] \in 1..n - 1
  BY <1>7
<1>. QED
  BY <1>3, <1>8

-----------------------------------------------------------------------------
(* The roots over n leaves, from those over fewer.                          *)
RootLevel(root, leaves, n) ==
  [lo \in 0..Len(leaves) - n |->
     IF n = 1 THEN leaf_hash(leaves[lo + 1])
     ELSE LET k == k_below(n) IN node_hash(root[k][lo], root[n - k][lo + k])]

LEMMA RootLevelSame ==
  ASSUME NEW leaves, NEW n \in Nat \ {0}, NEW r, NEW e, \A j \in 1..n - 1 : e[j] = r[j]
  PROVE  RootLevel(e, leaves, n) = RootLevel(r, leaves, n)
<1>1. CASE n = 1
  BY <1>1 DEF RootLevel
<1>2. CASE n # 1
  <2>1. k_below(n) \in 1..n - 1 /\ n - k_below(n) \in 1..n - 1
    BY <1>2, SplitIsInside
  <2>2. e[k_below(n)] = r[k_below(n)] /\ e[n - k_below(n)] = r[n - k_below(n)]
    BY <2>1
  <2>. QED
    BY <1>2, <2>2, Zenon DEF RootLevel
<1>. QED
  BY <1>1, <1>2

LEMMA RootLevelsExist ==
  ASSUME NEW leaves, NEW top \in Nat \ {0}
  PROVE  \E r : r = [n \in 1..top |-> RootLevel(r, leaves, n)]
<1> DEFINE UpTo(m, r) == r = [n \in 1..m |-> RootLevel(r, leaves, n)]
           P == {m \in Nat : \E r : UpTo(m, r)}
<1>1. 0 \in P
  <2>1. UpTo(0, [n \in 1..0 |-> n])
    <3>1. \A n : n \notin 1..0
      OBVIOUS
    <3>. QED
      BY <3>1
  <2>. QED
    BY <2>1
<1>2. ASSUME NEW m \in Nat, m \in P PROVE m + 1 \in P
  <2>1. PICK r : UpTo(m, r)
    BY <1>2
  <2>2. \A n \in 1..m : r[n] = RootLevel(r, leaves, n)
    BY <2>1
  <2>3. PICK next \in Nat \ {0} : next = m + 1
    OBVIOUS
  <2> DEFINE last == RootLevel(r, leaves, next)
             e == [n \in 1..next |-> IF n = next THEN last ELSE r[n]]
  <2>4. \A n \in 1..next : e[n] = IF n = next THEN last ELSE r[n]
    OBVIOUS
  <2> HIDE DEF last, e
  <2>5. \A n \in 1..next : e[n] = RootLevel(e, leaves, n)
    <3> SUFFICES ASSUME NEW n \in 1..next PROVE e[n] = RootLevel(e, leaves, n)
      OBVIOUS
    <3>1. n \in Nat \ {0} /\ \A j \in 1..n - 1 : j \in 1..next /\ j # next
      BY <2>3
    <3>2. RootLevel(e, leaves, n) = RootLevel(r, leaves, n)
      <4>1. \A j \in 1..n - 1 : e[j] = r[j]
        BY <2>4, <3>1
      <4>. QED
        BY <3>1, <4>1, RootLevelSame
    <3>3. CASE n = next
      BY <2>4, <3>2, <3>3 DEF last
    <3>4. CASE n # next
      <4>1. n \in 1..m
        BY <2>3, <3>4
      <4>. QED
        BY <2>2, <2>4, <3>2, <3>4, <4>1
    <3>. QED
      BY <3>3, <3>4
  <2>6. UpTo(next, e)
    BY <2>5 DEF e
  <2>. QED
    BY <2>3, <2>6
<1>3. top \in P
  <2> HIDE DEF P
  <2>. QED
    BY <1>1, <1>2, Induction
<1>. QED
  BY <1>3

(* The audit paths in trees over n leaves, from those in smaller ones.      *)
PathLevel(path, leaves, index, n) ==
  [lo \in 0..Len(leaves) - n |->
     LET k == k_below(n)
     IN  IF n = 1 THEN <<>>
         ELSE IF index < lo + k
              THEN Append(path[k][lo], Roots(leaves)[n - k][lo + k])
              ELSE Append(path[n - k][lo + k], Roots(leaves)[k][lo])]

LEMMA PathLevelSame ==
  ASSUME NEW leaves, NEW index, NEW n \in Nat \ {0}, NEW r, NEW e, \A j \in 1..n - 1 : e[j] = r[j]
  PROVE  PathLevel(e, leaves, index, n) = PathLevel(r, leaves, index, n)
<1>1. CASE n = 1
  BY <1>1 DEF PathLevel
<1>2. CASE n # 1
  <2>1. k_below(n) \in 1..n - 1 /\ n - k_below(n) \in 1..n - 1
    BY <1>2, SplitIsInside
  <2>2. e[k_below(n)] = r[k_below(n)] /\ e[n - k_below(n)] = r[n - k_below(n)]
    BY <2>1
  <2>. QED
    BY <1>2, <2>2, Zenon DEF PathLevel
<1>. QED
  BY <1>1, <1>2

LEMMA PathLevelsExist ==
  ASSUME NEW leaves, NEW index, NEW top \in Nat \ {0}
  PROVE  \E r : r = [n \in 1..top |-> PathLevel(r, leaves, index, n)]
<1> DEFINE UpTo(m, r) == r = [n \in 1..m |-> PathLevel(r, leaves, index, n)]
           P == {m \in Nat : \E r : UpTo(m, r)}
<1>1. 0 \in P
  <2>1. UpTo(0, [n \in 1..0 |-> n])
    <3>1. \A n : n \notin 1..0
      OBVIOUS
    <3>. QED
      BY <3>1
  <2>. QED
    BY <2>1
<1>2. ASSUME NEW m \in Nat, m \in P PROVE m + 1 \in P
  <2>1. PICK r : UpTo(m, r)
    BY <1>2
  <2>2. \A n \in 1..m : r[n] = PathLevel(r, leaves, index, n)
    BY <2>1
  <2>3. PICK next \in Nat \ {0} : next = m + 1
    OBVIOUS
  <2> DEFINE last == PathLevel(r, leaves, index, next)
             e == [n \in 1..next |-> IF n = next THEN last ELSE r[n]]
  <2>4. \A n \in 1..next : e[n] = IF n = next THEN last ELSE r[n]
    OBVIOUS
  <2> HIDE DEF last, e
  <2>5. \A n \in 1..next : e[n] = PathLevel(e, leaves, index, n)
    <3> SUFFICES ASSUME NEW n \in 1..next PROVE e[n] = PathLevel(e, leaves, index, n)
      OBVIOUS
    <3>1. n \in Nat \ {0} /\ \A j \in 1..n - 1 : j \in 1..next /\ j # next
      BY <2>3
    <3>2. PathLevel(e, leaves, index, n) = PathLevel(r, leaves, index, n)
      <4>1. \A j \in 1..n - 1 : e[j] = r[j]
        BY <2>4, <3>1
      <4>. QED
        BY <3>1, <4>1, PathLevelSame
    <3>3. CASE n = next
      BY <2>4, <3>2, <3>3 DEF last
    <3>4. CASE n # next
      <4>1. n \in 1..m
        BY <2>3, <3>4
      <4>. QED
        BY <2>2, <2>4, <3>2, <3>4, <4>1
    <3>. QED
      BY <3>3, <3>4
  <2>6. UpTo(next, e)
    BY <2>5 DEF e
  <2>. QED
    BY <2>3, <2>6
<1>3. top \in P
  <2> HIDE DEF P
  <2>. QED
    BY <1>1, <1>2, Induction
<1>. QED
  BY <1>3

(* The folds through trees over n leaves, from those through smaller ones.  *)
FoldLevel(folded, digest, path, n) ==
  [i \in 0..n - 1 |->
     LET k == k_below(n)
     IN  IF n = 1 THEN [hash |-> leaf_hash(digest), used |-> 0]
         ELSE IF i < k THEN FoldStep(folded[k][i], TRUE, path)
              ELSE FoldStep(folded[n - k][i - k], FALSE, path)]

LEMMA FoldLevelSame ==
  ASSUME NEW digest, NEW path, NEW n \in Nat \ {0}, NEW r, NEW e, \A j \in 1..n - 1 : e[j] = r[j]
  PROVE  FoldLevel(e, digest, path, n) = FoldLevel(r, digest, path, n)
<1>1. CASE n = 1
  BY <1>1 DEF FoldLevel
<1>2. CASE n # 1
  <2>1. k_below(n) \in 1..n - 1 /\ n - k_below(n) \in 1..n - 1
    BY <1>2, SplitIsInside
  <2>2. e[k_below(n)] = r[k_below(n)] /\ e[n - k_below(n)] = r[n - k_below(n)]
    BY <2>1
  <2>. QED
    BY <1>2, <2>2, Zenon DEF FoldLevel
<1>. QED
  BY <1>1, <1>2

LEMMA FoldLevelsExist ==
  ASSUME NEW digest, NEW path, NEW top \in Nat \ {0}
  PROVE  \E r : r = [n \in 1..top |-> FoldLevel(r, digest, path, n)]
<1> DEFINE UpTo(m, r) == r = [n \in 1..m |-> FoldLevel(r, digest, path, n)]
           P == {m \in Nat : \E r : UpTo(m, r)}
<1>1. 0 \in P
  <2>1. UpTo(0, [n \in 1..0 |-> n])
    <3>1. \A n : n \notin 1..0
      OBVIOUS
    <3>. QED
      BY <3>1
  <2>. QED
    BY <2>1
<1>2. ASSUME NEW m \in Nat, m \in P PROVE m + 1 \in P
  <2>1. PICK r : UpTo(m, r)
    BY <1>2
  <2>2. \A n \in 1..m : r[n] = FoldLevel(r, digest, path, n)
    BY <2>1
  <2>3. PICK next \in Nat \ {0} : next = m + 1
    OBVIOUS
  <2> DEFINE last == FoldLevel(r, digest, path, next)
             e == [n \in 1..next |-> IF n = next THEN last ELSE r[n]]
  <2>4. \A n \in 1..next : e[n] = IF n = next THEN last ELSE r[n]
    OBVIOUS
  <2> HIDE DEF last, e
  <2>5. \A n \in 1..next : e[n] = FoldLevel(e, digest, path, n)
    <3> SUFFICES ASSUME NEW n \in 1..next PROVE e[n] = FoldLevel(e, digest, path, n)
      OBVIOUS
    <3>1. n \in Nat \ {0} /\ \A j \in 1..n - 1 : j \in 1..next /\ j # next
      BY <2>3
    <3>2. FoldLevel(e, digest, path, n) = FoldLevel(r, digest, path, n)
      <4>1. \A j \in 1..n - 1 : e[j] = r[j]
        BY <2>4, <3>1
      <4>. QED
        BY <3>1, <4>1, FoldLevelSame
    <3>3. CASE n = next
      BY <2>4, <3>2, <3>3 DEF last
    <3>4. CASE n # next
      <4>1. n \in 1..m
        BY <2>3, <3>4
      <4>. QED
        BY <2>2, <2>4, <3>2, <3>4, <4>1
    <3>. QED
      BY <3>3, <3>4
  <2>6. UpTo(next, e)
    BY <2>5 DEF e
  <2>. QED
    BY <2>3, <2>6
<1>3. top \in P
  <2> HIDE DEF P
  <2>. QED
    BY <1>1, <1>2, Induction
<1>. QED
  BY <1>3

LEMMA RootsAre ==
  ASSUME NEW leaves, Len(leaves) \in Nat \ {0}
  PROVE  \A n \in 1..Len(leaves) : Roots(leaves)[n] = RootLevel(Roots(leaves), leaves, n)
<1> DEFINE Fits(r) == r = [n \in 1..Len(leaves) |-> RootLevel(r, leaves, n)]
           chosen == CHOOSE r : Fits(r)
<1>1. Fits(chosen)
  BY RootLevelsExist
<1>2. Roots(leaves) = chosen
  BY DEF Roots, RootLevel
<1> HIDE DEF chosen
<1>3. Fits(Roots(leaves))
  BY <1>1, <1>2
<1>. QED
  BY <1>3

LEMMA PathsAre ==
  ASSUME NEW leaves, NEW index, Len(leaves) \in Nat \ {0}
  PROVE  \E path : /\ audit_path(leaves, index) = path[Len(leaves)][0]
                   /\ \A n \in 1..Len(leaves) : path[n] = PathLevel(path, leaves, index, n)
<1> DEFINE Fits(r) == r = [n \in 1..Len(leaves) |-> PathLevel(r, leaves, index, n)]
           chosen == CHOOSE r : Fits(r)
<1>1. Fits(chosen)
  BY PathLevelsExist
<1>2. audit_path(leaves, index) = chosen[Len(leaves)][0]
  BY DEF audit_path, PathLevel
<1> HIDE DEF chosen
<1>. QED
  BY <1>1, <1>2

LEMMA FoldsAre ==
  ASSUME NEW digest, NEW index, NEW size \in Nat \ {0}, NEW path
  PROVE  \E f : /\ fold(digest, index, size, path) = f[size][index]
                /\ \A n \in 1..size : f[n] = FoldLevel(f, digest, path, n)
<1> DEFINE Fits(r) == r = [n \in 1..size |-> FoldLevel(r, digest, path, n)]
           chosen == CHOOSE r : Fits(r)
<1>1. Fits(chosen)
  BY FoldLevelsExist
<1>2. fold(digest, index, size, path) = chosen[size][index]
  BY DEF fold, FoldLevel
<1> HIDE DEF chosen
<1>. QED
  BY <1>1, <1>2

-----------------------------------------------------------------------------
(* A fold along the path a, when the digest is the right leaf or not.      *)
Agree(path, a) == \A j \in 1..Len(a) : path[j] = a[j]
Follows(f, path, a, right, root) ==
  IF Len(a) <= Len(path)
  THEN /\ f.used = Len(a) /\ f.hash # <<"none">>
       /\ f.hash = root <=> (right /\ Agree(path, a))
  ELSE f = TooShort

LEMMA HashesDiffer ==
  ASSUME NEW a, NEW b, NEW c, NEW d
  PROVE  /\ leaf_hash(a) # <<"none">> /\ node_hash(a, b) # <<"none">>
         /\ leaf_hash(a) = leaf_hash(b) <=> a = b
         /\ node_hash(a, b) = node_hash(c, d) <=> (a = c /\ b = d)
BY DEF leaf_hash, node_hash

LEMMA StepFollows ==
  ASSUME NEW S, NEW T, NEW path \in Seq(S), NEW a \in Seq(T), NEW s \in T, NEW f, NEW right,
         NEW root, Follows(f, path, a, right, root), NEW onLeft \in BOOLEAN, right \in BOOLEAN
  PROVE  Follows(FoldStep(f, onLeft, path), path, Append(a, s), right,
                 IF onLeft THEN node_hash(root, s) ELSE node_hash(s, root))
<1>1. PICK m \in Nat : m = Len(a)
  OBVIOUS
<1>2. PICK p \in Nat : p = Len(path)
  OBVIOUS
<1>3. PICK b : b = Append(a, s)
  OBVIOUS
<1>4. Len(b) = m + 1 /\ b[m + 1] = s /\ \A j \in 1..m : b[j] = a[j]
  BY <1>1, <1>3
<1>5. PICK up : up = IF onLeft THEN node_hash(root, s) ELSE node_hash(s, root)
  OBVIOUS
<1>6. PICK g : g = FoldStep(f, onLeft, path)
  OBVIOUS
<1>7. CASE m + 1 <= p
  <2>1. f.used = m /\ f.hash # <<"none">> /\ (f.hash = root <=> (right /\ Agree(path, a)))
    BY <1>1, <1>2, <1>7 DEF Follows
  <2>2. f # TooShort /\ ~(f.used >= Len(path))
    BY <1>2, <1>7, <2>1 DEF TooShort
  <2>3. g = [hash |-> IF onLeft THEN node_hash(f.hash, path[m + 1])
                      ELSE node_hash(path[m + 1], f.hash), used |-> m + 1]
    BY <1>6, <2>1, <2>2 DEF FoldStep
  <2>4. g.used = m + 1 /\ g.hash = IF onLeft THEN node_hash(f.hash, path[m + 1])
                                   ELSE node_hash(path[m + 1], f.hash)
    BY <2>3
  <2>5. g.hash # <<"none">> /\ (g.hash = up <=> f.hash = root /\ path[m + 1] = s)
    <3>1. PICK sib : sib = path[m + 1]
      OBVIOUS
    <3>2. CASE onLeft
      <4>1. g.hash = node_hash(f.hash, sib) /\ up = node_hash(root, s)
        BY <1>5, <2>4, <3>1, <3>2
      <4>. QED
        BY <3>1, <4>1, HashesDiffer
    <3>3. CASE ~onLeft
      <4>1. g.hash = node_hash(sib, f.hash) /\ up = node_hash(s, root)
        BY <1>5, <2>4, <3>1, <3>3
      <4>. QED
        BY <3>1, <4>1, HashesDiffer
    <3>. QED
      BY <3>2, <3>3
  <2>6. Agree(path, b) <=> Agree(path, a) /\ path[m + 1] = s
    <3>1. \A j \in 1..m + 1 : j \in 1..m \/ j = m + 1
      OBVIOUS
    <3>2. m + 1 \in 1..m + 1 /\ \A j \in 1..m : j \in 1..m + 1
      OBVIOUS
    <3>. QED
      BY <1>1, <1>4, <3>1, <3>2 DEF Agree
  <2>. QED
    BY <1>2, <1>3, <1>4, <1>5, <1>6, <1>7, <2>1, <2>4, <2>5, <2>6 DEF Follows
<1>8. CASE ~(m + 1 <= p)
  <2>1. f = TooShort \/ f.used >= Len(path)
    <3>1. CASE m <= p
      <4>1. f.used = m
        BY <1>1, <1>2, <3>1 DEF Follows
      <4>. QED
        BY <1>2, <1>8, <4>1
    <3>2. CASE ~(m <= p)
      BY <1>1, <1>2, <3>2 DEF Follows
    <3>. QED
      BY <3>1, <3>2
  <2>2. g = TooShort
    BY <1>6, <2>1 DEF FoldStep
  <2>. QED
    BY <1>2, <1>3, <1>4, <1>6, <1>8, <2>2 DEF Follows
<1>. QED
  BY <1>7, <1>8

(* Every root over some of the leaves. *)
RootSet(leaves) == UNION {{Roots(leaves)[n][lo] : n \in 1..Len(leaves)} : lo \in 0..Len(leaves)}

LEMMA InRootSet ==
  ASSUME NEW leaves, NEW n \in 1..Len(leaves), NEW lo \in 0..Len(leaves)
  PROVE  Roots(leaves)[n][lo] \in RootSet(leaves)
BY DEF RootSet

(* The tables from which the path of a leaf and a fold to it are read.     *)
Tables(ps, fs, leaves, index, digest, path) ==
  /\ \A n \in 1..Len(leaves) : ps[n] = PathLevel(ps, leaves, index, n)
  /\ \A n \in 1..Len(leaves) : fs[n] = FoldLevel(fs, digest, path, n)
TreeHolds(ps, fs, leaves, index, digest, path, n, lo) ==
  /\ ps[n][lo] \in Seq(RootSet(leaves))
  /\ Follows(fs[n][index - lo], path, ps[n][lo], digest = leaves[index + 1],
             Roots(leaves)[n][lo])

(* What a fold says of a leaf, in every tree that holds it.                *)
LEMMA TreeFollows ==
  ASSUME NEW leaves, NEW N \in Nat \ {0}, N = Len(leaves), NEW index \in 0..N - 1, NEW digest,
         NEW S, NEW path \in Seq(S), NEW ps, NEW fs,
         Tables(ps, fs, leaves, index, digest, path),
         NEW n \in 1..N, NEW lo \in 0..N - n, index \in lo..lo + n - 1
  PROVE  TreeHolds(ps, fs, leaves, index, digest, path, n, lo)
<1> DEFINE right == digest = leaves[index + 1]
           Holds(size, from) ==
             /\ ps[size][from] \in Seq(RootSet(leaves))
             /\ Follows(fs[size][index - from], path, ps[size][from], right,
                        Roots(leaves)[size][from])
           P == {size \in Nat : \A from \in 0..N - size :
                   size \in 1..N /\ index \in from..from + size - 1 => Holds(size, from)}
<1>1. \A size \in 1..N : Roots(leaves)[size] = RootLevel(Roots(leaves), leaves, size)
  BY RootsAre
<1>2. ASSUME NEW size \in Nat, \A m \in Nat : m < size => m \in P
      PROVE  size \in P
  <2> SUFFICES ASSUME NEW from \in 0..N - size, size \in 1..N, index \in from..from + size - 1
               PROVE  Holds(size, from)
    OBVIOUS
  <2> HIDE DEF right
  <2>1. PICK i \in 0..size - 1 : i = index - from
    <3>1. index - from \in 0..size - 1
      OBVIOUS
    <3>. QED
      BY <3>1
  <2>2. PICK k : k = k_below(size)
    OBVIOUS
  <2>3. /\ Roots(leaves)[size][from] = IF size = 1 THEN leaf_hash(leaves[from + 1])
             ELSE node_hash(Roots(leaves)[k][from], Roots(leaves)[size - k][from + k])
        /\ ps[size][from] = IF size = 1 THEN <<>>
             ELSE IF index < from + k
                  THEN Append(ps[k][from], Roots(leaves)[size - k][from + k])
                  ELSE Append(ps[size - k][from + k], Roots(leaves)[k][from])
        /\ fs[size][i] = IF size = 1 THEN [hash |-> leaf_hash(digest), used |-> 0]
             ELSE IF i < k THEN FoldStep(fs[k][i], TRUE, path)
                  ELSE FoldStep(fs[size - k][i - k], FALSE, path)
    <3>1. Roots(leaves)[size][from] = RootLevel(Roots(leaves), leaves, size)[from]
      BY <1>1
    <3>2. ps[size][from] = PathLevel(ps, leaves, index, size)[from]
      BY DEF Tables
    <3>3. fs[size][i] = FoldLevel(fs, digest, path, size)[i]
      BY DEF Tables
    <3>4. from \in 0..Len(leaves) - size
      OBVIOUS
    <3>5. Roots(leaves)[size][from] = IF size = 1 THEN leaf_hash(leaves[from + 1])
             ELSE node_hash(Roots(leaves)[k][from], Roots(leaves)[size - k][from + k])
      BY <2>2, <3>1, <3>4, Zenon DEF RootLevel
    <3>6. ps[size][from] = IF size = 1 THEN <<>>
             ELSE IF index < from + k
                  THEN Append(ps[k][from], Roots(leaves)[size - k][from + k])
                  ELSE Append(ps[size - k][from + k], Roots(leaves)[k][from])
      BY <2>2, <3>2, <3>4, Zenon DEF PathLevel
    <3>7. fs[size][i] = IF size = 1 THEN [hash |-> leaf_hash(digest), used |-> 0]
             ELSE IF i < k THEN FoldStep(fs[k][i], TRUE, path)
                  ELSE FoldStep(fs[size - k][i - k], FALSE, path)
      BY <2>2, <3>3, Zenon DEF FoldLevel
    <3>. QED
      BY <3>5, <3>6, <3>7
  <2>4. CASE size = 1
    <3>1. from = index /\ i = 0
      BY <2>1, <2>4
    <3>2. /\ ps[size][from] = <<>> /\ Roots(leaves)[size][from] = leaf_hash(leaves[index + 1])
          /\ fs[size][index - from] = [hash |-> leaf_hash(digest), used |-> 0]
      BY <2>1, <2>3, <2>4, <3>1
    <3>3. PICK f : f = fs[size][index - from]
      OBVIOUS
    <3>4. f.used = 0 /\ f.hash = leaf_hash(digest)
      BY <3>2, <3>3
    <3>5. f.hash # <<"none">> /\ (f.hash = leaf_hash(leaves[index + 1]) <=> right)
      BY <3>4, HashesDiffer DEF right
    <3>6. Len(<<>>) = 0 /\ 0 <= Len(path) /\ Agree(path, <<>>) /\ <<>> \in Seq(RootSet(leaves))
      BY DEF Agree
    <3>7. Follows(f, path, <<>>, right, leaf_hash(leaves[index + 1]))
      BY <3>4, <3>5, <3>6 DEF Follows
    <3>. QED
      BY <3>2, <3>3, <3>6, <3>7
  <2>5. CASE size # 1
    <3>1. k \in 1..size - 1 /\ size - k \in 1..size - 1
      <4>1. size >= 2
        BY <2>5
      <4>. QED
        BY <2>2, <4>1, SplitIsInside
    <3>2. PICK rest \in 1..size - 1 : rest = size - k
      BY <3>1
    <3>3. PICK split \in 1..N : split = from + k
      <4>1. from + k \in 1..N
        BY <3>1
      <4>. QED
        BY <4>1
    <3>4. /\ from \in 0..N - k /\ from \in 0..N /\ split \in 0..N - rest /\ split \in 0..N
          /\ k \in 1..N /\ rest \in 1..N /\ k \in Nat /\ k < size /\ rest \in Nat /\ rest < size
      BY <3>1, <3>2, <3>3
    <3>5. /\ Roots(leaves)[k][from] \in RootSet(leaves)
          /\ Roots(leaves)[rest][split] \in RootSet(leaves)
      <4>1. /\ k \in 1..Len(leaves) /\ rest \in 1..Len(leaves)
            /\ from \in 0..Len(leaves) /\ split \in 0..Len(leaves)
        BY <3>4
      <4>. QED
        BY <4>1, InRootSet
    <3>6. k \in P /\ rest \in P
      BY <1>2, <3>4
    <3>7. Roots(leaves)[size][from]
            = node_hash(Roots(leaves)[k][from], Roots(leaves)[rest][split])
      BY <2>3, <2>5, <3>2, <3>3
    <3>8. right \in BOOLEAN
      BY DEF right
    <3>9. CASE index < split
      <4>1. index \in from..from + k - 1 /\ i < k
        BY <2>1, <3>1, <3>3, <3>9
      <4>2. Holds(k, from)
        BY <3>4, <3>6, <4>1
      <4>3. ps[size][from] = Append(ps[k][from], Roots(leaves)[rest][split])
        BY <2>3, <2>5, <3>2, <3>3, <3>9
      <4>4. fs[size][i] = FoldStep(fs[k][i], TRUE, path)
        BY <2>3, <2>5, <4>1
      <4>5. Follows(FoldStep(fs[k][i], TRUE, path), path,
                    Append(ps[k][from], Roots(leaves)[rest][split]), right,
                    IF TRUE THEN node_hash(Roots(leaves)[k][from], Roots(leaves)[rest][split])
                    ELSE node_hash(Roots(leaves)[rest][split], Roots(leaves)[k][from]))
        BY <2>1, <3>5, <3>8, <4>2, StepFollows
      <4>6. ps[size][from] \in Seq(RootSet(leaves))
        BY <3>5, <4>2, <4>3
      <4>. QED
        BY <2>1, <3>7, <4>3, <4>4, <4>5, <4>6
    <3>10. CASE ~(index < split)
      <4>1. index \in split..split + rest - 1 /\ ~(i < k) /\ i - k = index - split
        BY <2>1, <3>1, <3>2, <3>3, <3>10
      <4>2. Holds(rest, split)
        BY <3>4, <3>6, <4>1
      <4>3. ps[size][from] = Append(ps[rest][split], Roots(leaves)[k][from])
        BY <2>3, <2>5, <3>2, <3>3, <3>10
      <4>4. fs[size][i] = FoldStep(fs[rest][index - split], FALSE, path)
        BY <2>3, <2>5, <3>2, <4>1
      <4>5. Follows(FoldStep(fs[rest][index - split], FALSE, path), path,
                    Append(ps[rest][split], Roots(leaves)[k][from]), right,
                    IF FALSE THEN node_hash(Roots(leaves)[rest][split], Roots(leaves)[k][from])
                    ELSE node_hash(Roots(leaves)[k][from], Roots(leaves)[rest][split]))
        BY <3>5, <3>8, <4>2, StepFollows
      <4>6. ps[size][from] \in Seq(RootSet(leaves))
        BY <3>5, <4>2, <4>3
      <4>. QED
        BY <2>1, <3>7, <4>3, <4>4, <4>5, <4>6
    <3>. QED
      BY <3>9, <3>10
  <2>. QED
    BY <2>4, <2>5
<1>3. n \in P
  <2>1. Nat \subseteq P
    <3> HIDE DEF P
    <3>. QED
      BY <1>2, StrongInduction
  <2>. QED
    BY <2>1
<1>. QED
  BY <1>3 DEF TreeHolds

(* An inclusion proof is accepted for the leaf at that index with its path *)
(* and for nothing else, whatever the digest and the path are.             *)
THEOREM AuditTheorem ==
  ASSUME NEW leaves, Len(leaves) \in Nat \ {0}, NEW index \in 0..Len(leaves) - 1, NEW digest,
         NEW S, NEW path \in Seq(S)
  PROVE  proof_ok(digest, index, Len(leaves), path, mth(leaves))
           <=> (path = audit_path(leaves, index) /\ digest = leaves[index + 1])
<1>1. PICK N \in Nat \ {0} : N = Len(leaves)
  OBVIOUS
<1>2. PICK ps : /\ audit_path(leaves, index) = ps[N][0]
                /\ \A n \in 1..N : ps[n] = PathLevel(ps, leaves, index, n)
  BY <1>1, PathsAre
<1>3. PICK fs : /\ fold(digest, index, N, path) = fs[N][index]
                /\ \A n \in 1..N : fs[n] = FoldLevel(fs, digest, path, n)
  BY FoldsAre
<1>4. PICK a : a = ps[N][0]
  OBVIOUS
<1>5. PICK f : f = fs[N][index]
  OBVIOUS
<1>6. PICK right \in BOOLEAN : right = (digest = leaves[index + 1])
  OBVIOUS
<1>7. a \in Seq(RootSet(leaves)) /\ Follows(f, path, a, right, mth(leaves))
  <2>1. N \in 1..N /\ 0 \in 0..N - N /\ index \in 0..0 + N - 1 /\ index - 0 = index
        /\ index \in 0..N - 1
    BY <1>1
  <2>2. /\ ps[N][0] \in Seq(RootSet(leaves))
        /\ Follows(fs[N][index - 0], path, ps[N][0], digest = leaves[index + 1],
                   Roots(leaves)[N][0])
    <3>1. Tables(ps, fs, leaves, index, digest, path)
      BY <1>1, <1>2, <1>3 DEF Tables
    <3>2. TreeHolds(ps, fs, leaves, index, digest, path, N, 0)
      BY <1>1, <2>1, <3>1, TreeFollows
    <3>. QED
      BY <3>2 DEF TreeHolds
  <2>3. mth(leaves) = Roots(leaves)[N][0]
    BY <1>1 DEF mth
  <2>. QED
    BY <1>4, <1>5, <1>6, <2>1, <2>2, <2>3
<1>8. PICK p \in Nat : p = Len(path)
  OBVIOUS
<1>9. PICK m \in Nat : m = Len(a)
  BY <1>7
<1>10. proof_ok(digest, index, N, path, mth(leaves))
         <=> f # TooShort /\ f.used = p /\ f.hash = mth(leaves)
  <2>1. N > 0 /\ index < N
    BY <1>1
  <2>. QED
    BY <1>3, <1>5, <1>8, <2>1 DEF proof_ok
<1>11. path = a <=> p = m /\ Agree(path, a)
  <2>1. ASSUME p = m, Agree(path, a) PROVE path = a
    <3>1. \A j \in 1..m : path[j] = a[j]
      BY <1>9, <2>1 DEF Agree
    <3>2. path = [j \in 1..p |-> path[j]] /\ a = [j \in 1..m |-> a[j]]
      BY <1>7, <1>8, <1>9
    <3>. QED
      BY <2>1, <3>1, <3>2
  <2>2. ASSUME path = a PROVE p = m /\ Agree(path, a)
    BY <1>8, <1>9, <2>2 DEF Agree
  <2>. QED
    BY <2>1, <2>2
<1>12. CASE m <= p
  <2>1. f.used = m /\ f.hash # <<"none">> /\ (f.hash = mth(leaves) <=> right /\ Agree(path, a))
    BY <1>7, <1>8, <1>9, <1>12 DEF Follows
  <2>2. f # TooShort
    BY <2>1 DEF TooShort
  <2>. QED
    BY <1>1, <1>2, <1>4, <1>6, <1>10, <1>11, <2>1, <2>2
<1>13. CASE ~(m <= p)
  <2>1. f = TooShort /\ p # m
    BY <1>7, <1>8, <1>9, <1>13 DEF Follows
  <2>. QED
    BY <1>1, <1>2, <1>4, <1>10, <1>11, <2>1
<1>. QED
  BY <1>12, <1>13

-----------------------------------------------------------------------------
(* Sequences without duplicates.                                           *)
Elems(s) == {s[i] : i \in 1..Len(s)}
Distinct(s) == \A i, j \in 1..Len(s) : s[i] = s[j] => i = j
Grown(s, x, r) ==
  /\ Elems(r) = Elems(s) \cup {x}
  /\ Distinct(s) => Distinct(r)

LEMMA RangeIsElems ==
  ASSUME NEW S, NEW s \in Seq(S)
  PROVE  Range(s) = Elems(s) /\ (IsInjective(s) <=> Distinct(s))
         /\ \A x : Contains(s, x) <=> x \in Elems(s)
<1>1. DOMAIN s = 1..Len(s)
  OBVIOUS
<1>. QED
  BY <1>1 DEF Range, Elems, IsInjective, Distinct, Contains

LEMMA AppendElems ==
  ASSUME NEW S, NEW s \in Seq(S), NEW x \in S
  PROVE  /\ Append(s, x) \in Seq(S) /\ Elems(Append(s, x)) = Elems(s) \cup {x}
         /\ x \notin Elems(s) /\ Distinct(s) => Distinct(Append(s, x))
<1>1. PICK n \in Nat : n = Len(s)
  OBVIOUS
<1>2. PICK r : r = Append(s, x)
  OBVIOUS
<1>3. r \in Seq(S) /\ Len(r) = n + 1 /\ r[n + 1] = x /\ \A i \in 1..n : r[i] = s[i]
  BY <1>1, <1>2
<1>4. \A i \in 1..n + 1 : i = n + 1 \/ i \in 1..n
  OBVIOUS
<1>5. n + 1 \in 1..n + 1 /\ \A i \in 1..n : i \in 1..n + 1
  OBVIOUS
<1>6. Elems(r) = {r[i] : i \in 1..n + 1} /\ Elems(s) = {s[i] : i \in 1..n}
  BY <1>1, <1>3 DEF Elems
<1>7. Elems(r) = Elems(s) \cup {x}
  BY <1>3, <1>4, <1>5, <1>6
<1>8. ASSUME x \notin Elems(s), Distinct(s) PROVE Distinct(r)
  <2> SUFFICES ASSUME NEW i \in 1..n + 1, NEW j \in 1..n + 1, r[i] = r[j] PROVE i = j
    BY <1>3 DEF Distinct
  <2>1. \A k \in 1..n : s[k] # x
    BY <1>6, <1>8
  <2>2. CASE i = n + 1 \/ j = n + 1
    BY <1>3, <1>4, <2>1, <2>2
  <2>3. CASE i # n + 1 /\ j # n + 1
    <3>1. i \in 1..Len(s) /\ j \in 1..Len(s) /\ s[i] = s[j]
      BY <1>1, <1>3, <1>4, <2>3
    <3>. QED
      BY <1>8, <3>1 DEF Distinct
  <2>. QED
    BY <2>2, <2>3
<1>. QED
  BY <1>2, <1>3, <1>7, <1>8

LEMMA EnsuredElems ==
  ASSUME NEW S, NEW s \in Seq(S), NEW x \in S
  PROVE  /\ Ensured(s, x) \in Seq(S) /\ Elems(Ensured(s, x)) = Elems(s) \cup {x}
         /\ Distinct(s) => Distinct(Ensured(s, x))
<1>1. CASE x \in Elems(s)
  <2>1. Ensured(s, x) = s
    BY <1>1, RangeIsElems DEF Ensured
  <2>. QED
    BY <1>1, <2>1
<1>2. CASE x \notin Elems(s)
  <2>1. Ensured(s, x) = Append(s, x)
    BY <1>2, RangeIsElems DEF Ensured
  <2>. QED
    BY <1>2, <2>1, AppendElems
<1>. QED
  BY <1>1, <1>2

LEMMA EmptyElems == Elems(<<>>) = {} /\ Distinct(<<>>)
BY DEF Elems, Distinct

-----------------------------------------------------------------------------
(* Graphs in order: no vertex and no edge twice, and every edge between    *)
(* two of the vertices.                                                    *)
Edge == Words \X Words \X Words
Formed(g) ==
  /\ g \in [verts : Seq(Words), edges : Seq(Edge)]
  /\ Distinct(g.verts) /\ Distinct(g.edges)
  /\ \A e \in Elems(g.edges) : e[1] \in Elems(g.verts) /\ e[3] \in Elems(g.verts)

LEMMA EmptyFormed == Formed(EmptyGraph)
<1>1. EmptyGraph = [verts |-> <<>>, edges |-> <<>>] /\ <<>> \in Seq(Words) /\ <<>> \in Seq(Edge)
  BY DEF EmptyGraph
<1>2. EmptyGraph.verts = <<>> /\ EmptyGraph.edges = <<>>
  BY <1>1
<1>. QED
  BY <1>1, <1>2, EmptyElems DEF Formed

LEMMA AddVertFormed ==
  ASSUME NEW g, Formed(g), NEW n \in Words
  PROVE  Formed(add_vert(g, n)) /\ n \in Elems(add_vert(g, n).verts)
         /\ Elems(g.verts) \subseteq Elems(add_vert(g, n).verts)
<1>1. PICK vs : vs = Ensured(g.verts, n)
  OBVIOUS
<1>2. g \in [verts : Seq(Words), edges : Seq(Edge)] /\ Distinct(g.verts) /\ Distinct(g.edges)
  BY DEF Formed
<1>3. vs \in Seq(Words) /\ Elems(vs) = Elems(g.verts) \cup {n} /\ Distinct(vs)
  BY <1>1, <1>2, EnsuredElems
<1>4. PICK h : h = add_vert(g, n)
  OBVIOUS
<1>5. h = [verts |-> vs, edges |-> g.edges]
  BY <1>1, <1>2, <1>4 DEF add_vert
<1>6. h.verts = vs /\ h.edges = g.edges /\ h \in [verts : Seq(Words), edges : Seq(Edge)]
  BY <1>2, <1>3, <1>5
<1>7. \A e \in Elems(g.edges) : e[1] \in Elems(vs) /\ e[3] \in Elems(vs)
  BY <1>3 DEF Formed
<1>. QED
  BY <1>2, <1>3, <1>4, <1>6, <1>7 DEF Formed

LEMMA AddEdgeFormed ==
  ASSUME NEW g, Formed(g), NEW e \in Edge
  PROVE  Formed(add_edge(g, e))
<1>1. e[1] \in Words /\ e[3] \in Words
  BY DEF Edge
<1>2. PICK h : h = add_vert(g, e[1])
  OBVIOUS
<1>3. Formed(h) /\ e[1] \in Elems(h.verts)
  BY <1>1, <1>2, AddVertFormed
<1>4. PICK k : k = add_vert(h, e[3])
  OBVIOUS
<1>5. Formed(k) /\ e[1] \in Elems(k.verts) /\ e[3] \in Elems(k.verts)
  BY <1>1, <1>3, <1>4, AddVertFormed
<1>6. PICK es : es = Ensured(k.edges, e)
  OBVIOUS
<1>7. k \in [verts : Seq(Words), edges : Seq(Edge)] /\ Distinct(k.verts) /\ Distinct(k.edges)
  BY <1>5 DEF Formed
<1>8. es \in Seq(Edge) /\ Elems(es) = Elems(k.edges) \cup {e} /\ Distinct(es)
  BY <1>6, <1>7, EnsuredElems
<1>9. PICK m : m = add_edge(g, e)
  OBVIOUS
<1>10. m = [verts |-> k.verts, edges |-> es]
  BY <1>2, <1>4, <1>6, <1>7, <1>9 DEF add_edge
<1>11. m.verts = k.verts /\ m.edges = es /\ m \in [verts : Seq(Words), edges : Seq(Edge)]
  BY <1>7, <1>8, <1>10
<1>12. \A f \in Elems(es) : f[1] \in Elems(k.verts) /\ f[3] \in Elems(k.verts)
  BY <1>5, <1>8 DEF Formed
<1>. QED
  BY <1>7, <1>8, <1>9, <1>11, <1>12 DEF Formed

-----------------------------------------------------------------------------
(* Snapshots.                                                              *)
Builds(t, b) ==
  \A n \in 0..Len(t) : b[n] = IF n = 0 THEN EmptyGraph ELSE AddLine(b[n - 1], t[n])

LEMMA BuiltExists ==
  ASSUME NEW t, NEW top \in Nat
  PROVE  \E b : b = [n \in 0..top |-> IF n = 0 THEN EmptyGraph ELSE AddLine(b[n - 1], t[n])]
<1> DEFINE UpTo(m, b) == b = [n \in 0..m |-> IF n = 0 THEN EmptyGraph ELSE AddLine(b[n - 1], t[n])]
           P == {m \in Nat : \E b : UpTo(m, b)}
<1>1. 0 \in P
  <2>1. UpTo(0, [n \in 0..0 |-> EmptyGraph])
    <3>1. \A n \in 0..0 : n = 0
      OBVIOUS
    <3>. QED
      BY <3>1
  <2>. QED
    BY <2>1
<1>2. ASSUME NEW m \in Nat, m \in P PROVE m + 1 \in P
  <2>1. PICK b : UpTo(m, b)
    BY <1>2
  <2>2. \A n \in 0..m : b[n] = IF n = 0 THEN EmptyGraph ELSE AddLine(b[n - 1], t[n])
    BY <2>1
  <2>3. PICK next \in Nat \ {0} : next = m + 1 /\ next - 1 = m
    <3>1. m + 1 \in Nat \ {0} /\ (m + 1) - 1 = m
      OBVIOUS
    <3>. QED
      BY <3>1
  <2> DEFINE last == AddLine(b[m], t[next])
             e == [n \in 0..next |-> IF n = next THEN last ELSE b[n]]
  <2>4. \A n \in 0..next : e[n] = IF n = next THEN last ELSE b[n]
    OBVIOUS
  <2> HIDE DEF last, e
  <2>5. \A n \in 0..next : e[n] = IF n = 0 THEN EmptyGraph ELSE AddLine(e[n - 1], t[n])
    <3> SUFFICES ASSUME NEW n \in 0..next
                 PROVE  e[n] = IF n = 0 THEN EmptyGraph ELSE AddLine(e[n - 1], t[n])
      OBVIOUS
    <3>1. n # 0 => n - 1 \in 0..next /\ n - 1 # next
      OBVIOUS
    <3>2. n # 0 => e[n - 1] = b[n - 1]
      BY <2>4, <3>1
    <3>3. CASE n = next
      BY <2>3, <2>4, <3>2, <3>3 DEF last
    <3>4. CASE n # next
      <4>1. n \in 0..m
        BY <2>3, <3>4
      <4>. QED
        BY <2>2, <2>4, <3>2, <3>4, <4>1
    <3>. QED
      BY <3>3, <3>4
  <2>6. UpTo(next, e)
    BY <2>5 DEF e
  <2>. QED
    BY <2>3, <2>6
<1>3. top \in P
  <2> HIDE DEF P
  <2>. QED
    BY <1>1, <1>2, Induction
<1>. QED
  BY <1>3

LEMMA ParseIs ==
  ASSUME NEW t, Len(t) \in Nat
  PROVE  \E b : Builds(t, b) /\ parse_snapshot(t) = b[Len(t)]
<1> DEFINE Fits(b) == b = [n \in 0..Len(t) |-> IF n = 0 THEN EmptyGraph ELSE AddLine(b[n - 1], t[n])]
           chosen == CHOOSE b : Fits(b)
<1>1. Fits(chosen)
  BY BuiltExists
<1>2. parse_snapshot(t) = chosen[Len(t)]
  BY DEF parse_snapshot
<1> HIDE DEF chosen
<1>3. Builds(t, chosen)
  BY <1>1 DEF Builds
<1>. QED
  BY <1>2, <1>3

(* A line of an edge names three things. *)
Three(l) == l[1] = "e" => l[2] = <<l[2][1], l[2][2], l[2][3]>>

LEMMA LineIsEdge ==
  ASSUME NEW l, Three(l), LineOk(l), l[1] # "v"
  PROVE  l[2] \in Edge
<1>1. l[1] = "e" /\ \A i \in 1..3 : word_ok(l[2][i])
  BY DEF LineOk
<1>2. 1 \in 1..3 /\ 2 \in 1..3 /\ 3 \in 1..3
  OBVIOUS
<1>3. l[2][1] \in Words /\ l[2][2] \in Words /\ l[2][3] \in Words
  BY <1>1, <1>2 DEF word_ok
<1>4. l[2] = <<l[2][1], l[2][2], l[2][3]>>
  BY <1>1 DEF Three
<1>5. <<l[2][1], l[2][2], l[2][3]>> \in Edge
  BY <1>3 DEF Edge
<1>. QED
  BY <1>4, <1>5

LEMMA ParseFormed ==
  ASSUME NEW t, Len(t) \in Nat, Readable(t), \A i \in 1..Len(t) : Three(t[i])
  PROVE  Formed(parse_snapshot(t))
<1>1. PICK N \in Nat : N = Len(t)
  OBVIOUS
<1>2. PICK b : Builds(t, b) /\ parse_snapshot(t) = b[Len(t)]
  BY ParseIs
<1>3. \A n \in 0..N : b[n] = IF n = 0 THEN EmptyGraph ELSE AddLine(b[n - 1], t[n])
  BY <1>1, <1>2 DEF Builds
<1> DEFINE P == {n \in Nat : n <= N => Formed(b[n])}
<1>4. 0 \in P
  <2>1. 0 \in 0..N
    OBVIOUS
  <2>2. b[0] = EmptyGraph
    BY <1>3, <2>1
  <2>. QED
    BY <2>2, EmptyFormed
<1>5. ASSUME NEW n \in Nat, n \in P PROVE n + 1 \in P
  <2> SUFFICES ASSUME n + 1 <= N PROVE Formed(b[n + 1])
    OBVIOUS
  <2>1. PICK m \in 1..N : m = n + 1 /\ m - 1 = n /\ m # 0 /\ m \in 0..N /\ n <= N
    <3>1. n + 1 \in 1..N /\ (n + 1) - 1 = n /\ n + 1 # 0 /\ n + 1 \in 0..N /\ n <= N
      OBVIOUS
    <3>. QED
      BY <3>1
  <2>2. Formed(b[n])
    BY <1>5, <2>1
  <2>3. b[m] = AddLine(b[n], t[m])
    BY <1>3, <2>1
  <2>4. Three(t[m]) /\ LineOk(t[m])
    BY <1>1, <2>1 DEF Readable
  <2>5. CASE t[m][1] = "v"
    <3>1. t[m][2] \in Words
      BY <2>4, <2>5 DEF LineOk, word_ok
    <3>. QED
      BY <2>1, <2>2, <2>3, <2>5, <3>1, AddVertFormed DEF AddLine
  <2>6. CASE t[m][1] # "v"
    <3>1. t[m][2] \in Edge
      BY <2>4, <2>6, LineIsEdge
    <3>. QED
      BY <2>1, <2>2, <2>3, <2>6, <3>1, AddEdgeFormed DEF AddLine
  <2>. QED
    BY <2>5, <2>6
<1>6. N \in P
  <2> HIDE DEF P
  <2>. QED
    BY <1>4, <1>5, Induction
<1>. QED
  BY <1>1, <1>2, <1>6

Joined(S, p, q, r, a, b) ==
  /\ r \in Seq(S) /\ Len(r) = a + b
  /\ \A i \in 1..a : r[i] = p[i]
  /\ \A i \in 1..b : r[a + i] = q[i]

LEMMA ConcatIs ==
  ASSUME NEW S, NEW p \in Seq(S), NEW q \in Seq(S), NEW a \in Nat, NEW b \in Nat,
         Len(p) = a, Len(q) = b
  PROVE  Joined(S, p, q, p \o q, a, b)
BY DEF Joined

(* The lines of a snapshot: the vertices, then the edges.                  *)
LEMMA SnapshotLines ==
  ASSUME NEW g, Formed(g), NEW V \in Nat, V = Len(g.verts), NEW E \in Nat, E = Len(g.edges)
  PROVE  /\ Len(snapshot(g)) = V + E /\ \E S : snapshot(g) \in Seq(S)
         /\ \A i \in 1..V : snapshot(g)[i] = <<"v", g.verts[i]>> /\ g.verts[i] \in Words
         /\ \A i \in 1..E : snapshot(g)[V + i] = <<"e", g.edges[i]>> /\ g.edges[i] \in Edge
<1>1. g.verts \in Seq(Words) /\ g.edges \in Seq(Edge)
  BY DEF Formed
<1> DEFINE S == {<<"v", n>> : n \in Words} \cup {<<"e", e>> : e \in Edge}
           vs == [i \in 1..V |-> <<"v", g.verts[i]>>]
           es == [i \in 1..E |-> <<"e", g.edges[i]>>]
<1>2. /\ \A i \in 1..V : g.verts[i] \in Words /\ <<"v", g.verts[i]>> \in S
      /\ \A i \in 1..E : g.edges[i] \in Edge /\ <<"e", g.edges[i]>> \in S
  BY <1>1
<1> HIDE DEF S
<1>3. vs \in Seq(S) /\ Len(vs) = V /\ es \in Seq(S) /\ Len(es) = E
  BY <1>2
<1>4. /\ \A i \in 1..V : vs[i] = <<"v", g.verts[i]>>
      /\ \A i \in 1..E : es[i] = <<"e", g.edges[i]>>
  OBVIOUS
<1>5. snapshot(g) = vs \o es
  BY DEF snapshot
<1> HIDE DEF vs, es
<1>6. Joined(S, vs, es, snapshot(g), V, E)
  BY <1>3, <1>5, ConcatIs
<1>. QED
  BY <1>2, <1>4, <1>6 DEF Joined

(* The first n members of a sequence, added one after the other.           *)
UpTo(s, n) == [i \in 1..n |-> s[i]]

LEMMA UpToEnds ==
  ASSUME NEW S, NEW s \in Seq(S)
  PROVE  UpTo(s, 0) = <<>> /\ UpTo(s, Len(s)) = s
BY DEF UpTo

LEMMA UpToGrows ==
  ASSUME NEW S, NEW s \in Seq(S), Distinct(s), NEW n \in Nat, n + 1 \in 1..Len(s)
  PROVE  UpTo(s, n) \in Seq(S) /\ Ensured(UpTo(s, n), s[n + 1]) = UpTo(s, n + 1)
<1>1. PICK p : p = UpTo(s, n)
  OBVIOUS
<1>2. \A i \in 1..n : i \in 1..Len(s) /\ i # n + 1 /\ s[i] \in S
  OBVIOUS
<1>3. p = [i \in 1..n |-> s[i]] /\ p \in Seq(S) /\ Len(p) = n
  BY <1>1, <1>2 DEF UpTo
<1>4. s[n + 1] \notin Elems(p)
  <2>1. \A i \in 1..n : s[i] # s[n + 1]
    BY <1>2 DEF Distinct
  <2>. QED
    BY <1>3, <2>1 DEF Elems
<1>5. Ensured(p, s[n + 1]) = Append(p, s[n + 1])
  BY <1>3, <1>4, RangeIsElems DEF Ensured
<1>6. PICK x \in S : x = s[n + 1]
  OBVIOUS
<1>7. Append(p, x) = [i \in 1..n + 1 |-> IF i \in 1..n THEN p[i] ELSE x]
  BY <1>3
<1>8. \A i \in 1..n + 1 : (IF i \in 1..n THEN p[i] ELSE x) = s[i]
  <2>1. \A i \in 1..n + 1 : i \in 1..n \/ i = n + 1
    OBVIOUS
  <2>. QED
    BY <1>3, <1>6, <2>1
<1>9. Append(p, x) = [i \in 1..n + 1 |-> s[i]]
  BY <1>7, <1>8
<1>. QED
  BY <1>1, <1>3, <1>5, <1>6, <1>9 DEF UpTo

(* A vertex, or an edge between known vertices, as the next of its kind.   *)
LEMMA NextVert ==
  ASSUME NEW g, Formed(g), NEW n \in Nat, n + 1 \in 1..Len(g.verts)
  PROVE  add_vert([verts |-> UpTo(g.verts, n), edges |-> <<>>], g.verts[n + 1])
           = [verts |-> UpTo(g.verts, n + 1), edges |-> <<>>]
<1>1. Ensured(UpTo(g.verts, n), g.verts[n + 1]) = UpTo(g.verts, n + 1)
  BY UpToGrows DEF Formed
<1>2. PICK h : h = [verts |-> UpTo(g.verts, n), edges |-> <<>>]
  OBVIOUS
<1>3. h.verts = UpTo(g.verts, n)
  BY <1>2
<1>4. [h EXCEPT !.verts = UpTo(g.verts, n + 1)] = [verts |-> UpTo(g.verts, n + 1), edges |-> <<>>]
  BY <1>2
<1>. QED
  BY <1>1, <1>2, <1>3, <1>4 DEF add_vert

LEMMA NextEdge ==
  ASSUME NEW g, Formed(g), NEW n \in Nat, n + 1 \in 1..Len(g.edges)
  PROVE  add_edge([verts |-> g.verts, edges |-> UpTo(g.edges, n)], g.edges[n + 1])
           = [verts |-> g.verts, edges |-> UpTo(g.edges, n + 1)]
<1>1. PICK e : e = g.edges[n + 1]
  OBVIOUS
<1>2. Ensured(UpTo(g.edges, n), e) = UpTo(g.edges, n + 1)
  BY <1>1, UpToGrows DEF Formed
<1>3. e \in Elems(g.edges)
  BY <1>1 DEF Elems
<1>4. e[1] \in Elems(g.verts) /\ e[3] \in Elems(g.verts) /\ g.verts \in Seq(Words)
  BY <1>3 DEF Formed
<1>5. Ensured(g.verts, e[1]) = g.verts /\ Ensured(g.verts, e[3]) = g.verts
  BY <1>4, RangeIsElems DEF Ensured
<1>6. PICK h : h = [verts |-> g.verts, edges |-> UpTo(g.edges, n)]
  OBVIOUS
<1>7. h.verts = g.verts /\ h.edges = UpTo(g.edges, n)
  BY <1>6
<1>8. add_vert(h, e[1]) = h /\ add_vert(h, e[3]) = h
  <2>1. [h EXCEPT !.verts = g.verts] = h
    BY <1>6
  <2>. QED
    BY <1>5, <1>7, <2>1 DEF add_vert
<1>9. [h EXCEPT !.edges = UpTo(g.edges, n + 1)] = [verts |-> g.verts, edges |-> UpTo(g.edges, n + 1)]
  BY <1>6
<1>. QED
  BY <1>1, <1>2, <1>6, <1>7, <1>8, <1>9 DEF add_edge

(* A graph reads back from its snapshot, order included. *)
LEMMA SnapshotReadsBack ==
  ASSUME NEW g, Formed(g)
  PROVE  Readable(snapshot(g)) /\ parse_snapshot(snapshot(g)) = g
<1>1. g \in [verts : Seq(Words), edges : Seq(Edge)]
  BY DEF Formed
<1>2. PICK V \in Nat : V = Len(g.verts)
  BY <1>1
<1>3. PICK E \in Nat : E = Len(g.edges)
  BY <1>1
<1>4. PICK t : t = snapshot(g)
  OBVIOUS
<1>5. /\ Len(t) = V + E
      /\ \A i \in 1..V : t[i] = <<"v", g.verts[i]>> /\ g.verts[i] \in Words
      /\ \A i \in 1..E : t[V + i] = <<"e", g.edges[i]>> /\ g.edges[i] \in Edge
  BY <1>2, <1>3, <1>4, SnapshotLines
<1>6. Readable(t)
  <2> SUFFICES ASSUME NEW i \in 1..V + E PROVE LineOk(t[i])
    BY <1>5 DEF Readable
  <2>1. CASE i \in 1..V
    <3>1. t[i][1] = "v" /\ t[i][2] \in Words
      BY <1>5, <2>1
    <3>. QED
      BY <3>1 DEF LineOk, word_ok
  <2>2. CASE i \notin 1..V
    <3>1. PICK j \in 1..E : i = V + j
      <4>1. i - V \in 1..E /\ i = V + (i - V)
        BY <2>2
      <4>. QED
        BY <4>1
    <3>2. t[i][1] = "e" /\ t[i][2] \in Edge
      <4>1. PICK e \in Edge : t[i] = <<"e", e>>
        BY <1>5, <3>1
      <4>. QED
        BY <4>1
    <3>3. \A k \in 1..3 : t[i][2][k] \in Words
      <4>1. \A k \in 1..3 : k = 1 \/ k = 2 \/ k = 3
        OBVIOUS
      <4>2. t[i][2][1] \in Words /\ t[i][2][2] \in Words /\ t[i][2][3] \in Words
        BY <3>2 DEF Edge
      <4>. QED
        BY <4>1, <4>2
    <3>. QED
      BY <3>2, <3>3 DEF LineOk, word_ok
  <2>. QED
    BY <2>1, <2>2
<1>7. V + E \in Nat
  OBVIOUS
<1>8. PICK b : Builds(t, b) /\ parse_snapshot(t) = b[V + E]
  BY <1>5, <1>7, ParseIs
<1>9. \A n \in 0..V + E : b[n] = IF n = 0 THEN EmptyGraph ELSE AddLine(b[n - 1], t[n])
  BY <1>5, <1>8 DEF Builds
<1> DEFINE P == {n \in Nat : n <= V => b[n] = [verts |-> UpTo(g.verts, n), edges |-> <<>>]}
           Q == {n \in Nat : n <= E => b[V + n] = [verts |-> g.verts, edges |-> UpTo(g.edges, n)]}
<1>10. 0 \in P
  <2>1. 0 \in 0..V + E
    OBVIOUS
  <2>2. b[0] = EmptyGraph
    BY <1>9, <2>1
  <2>. QED
    BY <1>1, <2>2, UpToEnds DEF EmptyGraph
<1>11. ASSUME NEW n \in Nat, n \in P PROVE n + 1 \in P
  <2> SUFFICES ASSUME n + 1 <= V
               PROVE  b[n + 1] = [verts |-> UpTo(g.verts, n + 1), edges |-> <<>>]
    OBVIOUS
  <2>1. PICK m \in 1..V : m = n + 1 /\ m - 1 = n /\ m # 0 /\ m \in 0..V + E /\ n <= V
    <3>1. n + 1 \in 1..V /\ (n + 1) - 1 = n /\ n + 1 # 0 /\ n + 1 \in 0..V + E /\ n <= V
      OBVIOUS
    <3>. QED
      BY <3>1
  <2>2. b[n] = [verts |-> UpTo(g.verts, n), edges |-> <<>>]
    BY <1>11, <2>1
  <2>3. b[m] = AddLine(b[n], t[m])
    BY <1>9, <2>1
  <2>4. AddLine(b[n], t[m]) = add_vert(b[n], g.verts[m])
    BY <1>5, <2>1 DEF AddLine
  <2>5. n + 1 \in 1..Len(g.verts)
    BY <1>2, <2>1
  <2>. QED
    BY <2>1, <2>2, <2>3, <2>4, <2>5, NextVert
<1>12. V \in P
  <2> HIDE DEF P
  <2>. QED
    BY <1>10, <1>11, Induction
<1>13. 0 \in Q
  <2>1. V <= V /\ V + 0 = V
    OBVIOUS
  <2>2. b[V] = [verts |-> g.verts, edges |-> <<>>]
    BY <1>1, <1>2, <1>12, <2>1, UpToEnds
  <2>. QED
    BY <1>1, <2>1, <2>2, UpToEnds
<1>14. ASSUME NEW n \in Nat, n \in Q PROVE n + 1 \in Q
  <2> SUFFICES ASSUME n + 1 <= E
               PROVE  b[V + (n + 1)] = [verts |-> g.verts, edges |-> UpTo(g.edges, n + 1)]
    OBVIOUS
  <2>1. PICK m \in 1..E : m = n + 1 /\ n <= E
    <3>1. n + 1 \in 1..E /\ n <= E
      OBVIOUS
    <3>. QED
      BY <3>1
  <2>2. b[V + n] = [verts |-> g.verts, edges |-> UpTo(g.edges, n)]
    BY <1>14, <2>1
  <2>3. PICK k \in 0..V + E : k = V + m /\ k # 0 /\ k - 1 = V + n
    <3>1. V + m \in 0..V + E /\ V + m # 0 /\ (V + m) - 1 = V + n
      BY <2>1
    <3>. QED
      BY <3>1
  <2>4. b[k] = AddLine(b[V + n], t[k])
    BY <1>9, <2>3
  <2>5. t[k][1] # "v" /\ t[k][2] = g.edges[m]
    BY <1>5, <2>3
  <2>6. AddLine(b[V + n], t[k]) = add_edge(b[V + n], g.edges[m])
    BY <2>5 DEF AddLine
  <2>7. n + 1 \in 1..Len(g.edges)
    BY <1>3, <2>1
  <2>. QED
    BY <2>1, <2>2, <2>3, <2>4, <2>6, <2>7, NextEdge
<1>15. E \in Q
  <2> HIDE DEF Q
  <2>. QED
    BY <1>13, <1>14, Induction
<1>16. b[V + E] = [verts |-> g.verts, edges |-> g.edges]
  <2>1. E <= E
    OBVIOUS
  <2>. QED
    BY <1>1, <1>3, <1>15, <2>1, UpToEnds
<1>17. g = [verts |-> g.verts, edges |-> g.edges]
  BY <1>1
<1>. QED
  BY <1>4, <1>6, <1>8, <1>16, <1>17

-----------------------------------------------------------------------------
(* Sorting: the members of a finite set with a strict total order, each    *)
(* where the number of smaller ones puts it.                               *)
StrictOrder(S, R) ==
  /\ \A x \in S : <<x, x>> \notin R
  /\ \A x, y, z \in S : <<x, y>> \in R /\ <<y, z>> \in R => <<x, z>> \in R
  /\ \A x, y \in S : x = y \/ <<x, y>> \in R \/ <<y, x>> \in R
Below(S, R, x) == {y \in S : <<y, x>> \in R}
Ranking(S, rank) ==
  /\ rank \in [S -> 0..Cardinality(S) - 1]
  /\ \A x, y \in S : rank[x] = rank[y] => x = y
  /\ \A i \in 0..Cardinality(S) - 1 : \E x \in S : rank[x] = i

LEMMA BelowGrows ==
  ASSUME NEW S, IsFiniteSet(S), NEW R, StrictOrder(S, R), NEW x \in S, NEW y \in S, <<x, y>> \in R
  PROVE  Cardinality(Below(S, R, x)) < Cardinality(Below(S, R, y))
<1> DEFINE A == Below(S, R, x)
           B == Below(S, R, y)
<1>1. A \subseteq B /\ x \in B /\ x \notin A /\ B \in SUBSET S
  BY DEF Below, StrictOrder
<1> HIDE DEF A, B
<1>2. IsFiniteSet(B)
  BY <1>1, FS_Subset
<1>3. IsFiniteSet(A) /\ Cardinality(A) <= Cardinality(B) /\ (Cardinality(B) = Cardinality(A) => B = A)
  BY <1>1, <1>2, FS_Subset
<1>4. Cardinality(A) \in Nat /\ Cardinality(B) \in Nat /\ A # B
  BY <1>1, <1>2, <1>3, FS_CardinalityType
<1>. QED
  BY <1>3, <1>4 DEF A, B

LEMMA RanksAreRanking ==
  ASSUME NEW S, IsFiniteSet(S), NEW R, StrictOrder(S, R), NEW rank,
         rank = [x \in S |-> Cardinality(Below(S, R, x))]
  PROVE  Ranking(S, rank)
<1>1. PICK n \in Nat : n = Cardinality(S)
  BY FS_CardinalityType
<1>2. ASSUME NEW x \in S PROVE rank[x] \in 0..n - 1
  <2>1. Below(S, R, x) \in SUBSET S /\ x \notin Below(S, R, x)
    BY DEF Below, StrictOrder
  <2>2. /\ IsFiniteSet(Below(S, R, x)) /\ Cardinality(Below(S, R, x)) <= n
        /\ (n = Cardinality(Below(S, R, x)) => S = Below(S, R, x))
    BY <1>1, <2>1, FS_Subset
  <2>3. Cardinality(Below(S, R, x)) \in Nat /\ n # Cardinality(Below(S, R, x))
    BY <2>1, <2>2, FS_CardinalityType
  <2>. QED
    BY <2>2, <2>3
<1>3. ASSUME NEW x \in S, NEW y \in S, rank[x] = rank[y] PROVE x = y
  <2>1. ASSUME NEW a \in S, NEW b \in S, <<a, b>> \in R PROVE rank[a] # rank[b]
    <3>1. Cardinality(Below(S, R, a)) < Cardinality(Below(S, R, b))
      BY <2>1, BelowGrows
    <3>2. rank[a] = Cardinality(Below(S, R, a)) /\ rank[b] = Cardinality(Below(S, R, b))
      OBVIOUS
    <3>3. rank[a] \in Nat /\ rank[b] \in Nat /\ rank[a] < rank[b]
      BY <1>2, <3>1, <3>2
    <3>. QED
      BY <3>3
  <2>. QED
    BY <1>3, <2>1 DEF StrictOrder
<1>4. rank \in Injection(S, 0..n - 1)
  <2>1. rank \in [S -> 0..n - 1]
    BY <1>2
  <2>2. DOMAIN rank = S
    OBVIOUS
  <2>. QED
    BY <1>3, <2>1, <2>2 DEF Injection, IsInjective
<1>5. IsFiniteSet(0..n - 1) /\ Cardinality(0..n - 1) = n
  <2>1. IsFiniteSet(0..n - 1) /\ Cardinality(0..n - 1) = IF 0 > n - 1 THEN 0 ELSE (n - 1) - 0 + 1
    BY FS_Interval
  <2>. QED
    BY <2>1
<1>6. rank \in Surjection(S, 0..n - 1)
  BY <1>1, <1>4, <1>5, FS_Injection
<1>. QED
  BY <1>1, <1>2, <1>3, <1>6 DEF Ranking, Surjection

SortedBy(S, R, n, res) ==
  /\ IsFiniteSet(S) /\ StrictOrder(S, R) /\ n = Cardinality(S) /\ res = [i \in 1..n |-> res[i]]
  /\ \A i \in 1..n : (\E x \in S : Cardinality(Below(S, R, x)) = i - 1)
                        => res[i] \in S /\ Cardinality(Below(S, R, res[i])) = i - 1
Lists(res, S) == res \in Seq(S) /\ Elems(res) = S /\ Distinct(res)

LEMMA RankedSeq ==
  ASSUME NEW S, NEW R, NEW n, NEW res, SortedBy(S, R, n, res)
  PROVE  Lists(res, S)
<1>1. /\ IsFiniteSet(S) /\ StrictOrder(S, R) /\ n = Cardinality(S) /\ res = [i \in 1..n |-> res[i]]
       /\ \A i \in 1..n : (\E x \in S : Cardinality(Below(S, R, x)) = i - 1)
                             => res[i] \in S /\ Cardinality(Below(S, R, res[i])) = i - 1
  BY DEF SortedBy
<1> DEFINE rank == [x \in S |-> Cardinality(Below(S, R, x))]
<1>2. Ranking(S, rank)
  BY <1>1, RanksAreRanking
<1>3. \A x \in S : rank[x] = Cardinality(Below(S, R, x))
  OBVIOUS
<1> HIDE DEF rank
<1>4. n \in Nat
  BY <1>1, FS_CardinalityType
<1>5. ASSUME NEW i \in 1..n PROVE res[i] \in S /\ rank[res[i]] = i - 1
  <2>1. i - 1 \in 0..n - 1
    BY <1>4
  <2>2. \E x \in S : rank[x] = i - 1
    BY <1>2, <1>1, <2>1 DEF Ranking
  <2>. QED
    BY <1>3, <1>1, <2>2
<1>6. \A i \in 1..n : res[i] \in S
  BY <1>5
<1>7. res \in Seq(S) /\ Len(res) = n
  <2>1. [i \in 1..n |-> res[i]] \in Seq(S) /\ Len([i \in 1..n |-> res[i]]) = n
    BY <1>4, <1>6
  <2>. QED
    BY <1>1, <2>1
<1>8. ASSUME NEW x \in S PROVE x \in Elems(res)
  <2>1. PICK i \in 1..n : rank[x] = i - 1
    <3>1. rank[x] \in 0..n - 1
      BY <1>2, <1>1 DEF Ranking
    <3>2. rank[x] + 1 \in 1..n /\ rank[x] = (rank[x] + 1) - 1
      BY <1>4, <3>1
    <3>. QED
      BY <3>2
  <2>2. x = res[i]
    BY <1>2, <1>5, <2>1 DEF Ranking
  <2>. QED
    BY <1>7, <2>2 DEF Elems
<1>9. Elems(res) \subseteq S
  BY <1>7, <1>6 DEF Elems
<1>10. Distinct(res)
  <2> SUFFICES ASSUME NEW i \in 1..n, NEW j \in 1..n, res[i] = res[j] PROVE i = j
    BY <1>7 DEF Distinct
  <2>1. i - 1 = j - 1
    BY <1>5
  <2>. QED
    BY <1>4, <2>1
<1>. QED
  BY <1>7, <1>8, <1>9, <1>10 DEF Lists

LEMMA ElemsFinite ==
  ASSUME NEW S, NEW s \in Seq(S)
  PROVE  IsFiniteSet(Elems(s)) /\ Elems(s) \subseteq S
<1>1. PICK n \in Nat : n = Len(s)
  OBVIOUS
<1>2. IsFiniteSet(1..n)
  BY FS_Interval
<1> DEFINE f == [i \in 1..n |-> s[i]]
<1>3. f \in Surjection(1..n, Elems(s))
  BY <1>1 DEF Surjection, Elems
<1>4. IsFiniteSet(Elems(s))
  BY <1>2, <1>3, FS_Surjection
<1>5. \A i \in 1..n : s[i] \in S
  BY <1>1
<1>. QED
  BY <1>1, <1>4, <1>5 DEF Elems

LEMMA SortedWords ==
  ASSUME NEW S, IsFiniteSet(S), S \subseteq Words
  PROVE  Lists(Sorted(S, WordLess), S)
<1> DEFINE R == {z \in S \X S : WordLess(z[1], z[2])}
<1>1. \A x, y \in S : <<x, y>> \in R <=> WordLess(x, y)
  OBVIOUS
<1> HIDE DEF R
<1>2. StrictOrder(S, R)
  BY <1>1, OrderAssumption DEF StrictOrder
<1>3. \A x \in S : Below(S, R, x) = {y \in S : WordLess(y, x)}
  BY <1>1 DEF Below
<1>4. PICK n : n = Cardinality(S)
  OBVIOUS
<1>5. PICK res : res = Sorted(S, WordLess)
  OBVIOUS
<1> DEFINE At(i) == CHOOSE x \in S : Cardinality({y \in S : WordLess(y, x)}) = i - 1
<1>6. res = [i \in 1..n |-> At(i)]
  BY <1>4, <1>5 DEF Sorted
<1> HIDE DEF At
<1>7. ASSUME NEW i \in 1..n, \E x \in S : Cardinality(Below(S, R, x)) = i - 1
      PROVE  res[i] \in S /\ Cardinality(Below(S, R, res[i])) = i - 1
  <2>1. res[i] = CHOOSE x \in S : Cardinality({y \in S : WordLess(y, x)}) = i - 1
    BY <1>6 DEF At
  <2>2. \E x \in S : Cardinality({y \in S : WordLess(y, x)}) = i - 1
    BY <1>3, <1>7
  <2>3. res[i] \in S /\ Cardinality({y \in S : WordLess(y, res[i])}) = i - 1
    BY <2>1, <2>2
  <2>. QED
    BY <1>3, <2>3
<1>8. res = [i \in 1..n |-> res[i]]
  BY <1>6
<1>9. SortedBy(S, R, n, res)
  BY <1>2, <1>4, <1>7, <1>8 DEF SortedBy
<1>. QED
  BY <1>5, <1>9, RankedSeq

(* Edges are ordered as the three words they are made of. *)
LEMMA EdgeOrder ==
  /\ \A x \in Edge : ~EdgeLess(x, x)
  /\ \A x, y, z \in Edge : EdgeLess(x, y) /\ EdgeLess(y, z) => EdgeLess(x, z)
  /\ \A x, y \in Edge : x = y \/ EdgeLess(x, y) \/ EdgeLess(y, x)
<1>1. ASSUME NEW x \in Edge, NEW y \in Edge
      PROVE  EdgeLess(x, y) <=> \/ WordLess(x[1], y[1])
                                \/ x[1] = y[1] /\ WordLess(x[2], y[2])
                                \/ x[1] = y[1] /\ x[2] = y[2] /\ WordLess(x[3], y[3])
  <2>1. \A i \in 1..3 : i = 1 \/ i = 2 \/ i = 3
    OBVIOUS
  <2>2. 1 \in 1..3 /\ 2 \in 1..3 /\ 3 \in 1..3
    OBVIOUS
  <2>3. \A j \in 1..1 - 1 : FALSE
    OBVIOUS
  <2>4. \A j \in 1..2 - 1 : j = 1
    OBVIOUS
  <2>5. 1 \in 1..2 - 1 /\ 1 \in 1..3 - 1 /\ 2 \in 1..3 - 1
    OBVIOUS
  <2>6. \A j \in 1..3 - 1 : j = 1 \/ j = 2
    OBVIOUS
  <2> DEFINE At(i) == WordLess(x[i], y[i]) /\ \A j \in 1..i - 1 : x[j] = y[j]
  <2>7. At(1) <=> WordLess(x[1], y[1])
    BY <2>3
  <2>8. At(2) <=> x[1] = y[1] /\ WordLess(x[2], y[2])
    BY <2>4, <2>5
  <2>9. At(3) <=> x[1] = y[1] /\ x[2] = y[2] /\ WordLess(x[3], y[3])
    BY <2>5, <2>6
  <2>10. EdgeLess(x, y) <=> \E i \in 1..3 : At(i)
    BY DEF EdgeLess
  <2> HIDE DEF At
  <2>11. EdgeLess(x, y) <=> At(1) \/ At(2) \/ At(3)
    BY <2>1, <2>2, <2>10
  <2>. QED
    BY <2>7, <2>8, <2>9, <2>11
<1>2. \A x \in Edge : x[1] \in Words /\ x[2] \in Words /\ x[3] \in Words
  BY DEF Edge
<1>3. \A x, y \in Edge : x[1] = y[1] /\ x[2] = y[2] /\ x[3] = y[3] => x = y
  BY DEF Edge
<1>4. \A x \in Edge : ~EdgeLess(x, x)
  BY <1>1, <1>2, OrderAssumption
<1>5. ASSUME NEW x \in Edge, NEW y \in Edge, NEW z \in Edge, EdgeLess(x, y), EdgeLess(y, z)
      PROVE  EdgeLess(x, z)
  <2>1. PICK a \in Words, b \in Words, c \in Words : a = x[1] /\ b = x[2] /\ c = x[3]
    BY <1>2
  <2>2. PICK d \in Words, e \in Words, f \in Words : d = y[1] /\ e = y[2] /\ f = y[3]
    BY <1>2
  <2>3. PICK g \in Words, h \in Words, k \in Words : g = z[1] /\ h = z[2] /\ k = z[3]
    BY <1>2
  <2>4. WordLess(a, d) \/ (a = d /\ WordLess(b, e)) \/ (a = d /\ b = e /\ WordLess(c, f))
    BY <1>1, <1>5, <2>1, <2>2
  <2>5. WordLess(d, g) \/ (d = g /\ WordLess(e, h)) \/ (d = g /\ e = h /\ WordLess(f, k))
    BY <1>1, <1>5, <2>2, <2>3
  <2>6. /\ WordLess(a, d) /\ WordLess(d, g) => WordLess(a, g)
        /\ WordLess(b, e) /\ WordLess(e, h) => WordLess(b, h)
        /\ WordLess(c, f) /\ WordLess(f, k) => WordLess(c, k)
    BY OrderAssumption
  <2>7. WordLess(a, g) \/ (a = g /\ WordLess(b, h)) \/ (a = g /\ b = h /\ WordLess(c, k))
    BY <2>4, <2>5, <2>6
  <2>. QED
    BY <1>1, <2>1, <2>3, <2>7
<1>6. ASSUME NEW x \in Edge, NEW y \in Edge
      PROVE  x = y \/ EdgeLess(x, y) \/ EdgeLess(y, x)
  <2>1. \A a, b \in Words : a = b \/ WordLess(a, b) \/ WordLess(b, a)
    BY OrderAssumption
  <2>. QED
    BY <1>1, <1>2, <1>3, <2>1
<1>. QED
  BY <1>4, <1>5, <1>6

LEMMA SortedEdges ==
  ASSUME NEW S, IsFiniteSet(S), S \subseteq Edge
  PROVE  Lists(Sorted(S, EdgeLess), S)
<1> DEFINE R == {z \in S \X S : EdgeLess(z[1], z[2])}
<1>1. \A x, y \in S : <<x, y>> \in R <=> EdgeLess(x, y)
  OBVIOUS
<1> HIDE DEF R
<1>2. StrictOrder(S, R)
  BY <1>1, EdgeOrder DEF StrictOrder
<1>3. \A x \in S : Below(S, R, x) = {y \in S : EdgeLess(y, x)}
  BY <1>1 DEF Below
<1>4. PICK n : n = Cardinality(S)
  OBVIOUS
<1>5. PICK res : res = Sorted(S, EdgeLess)
  OBVIOUS
<1> DEFINE At(i) == CHOOSE x \in S : Cardinality({y \in S : EdgeLess(y, x)}) = i - 1
<1>6. res = [i \in 1..n |-> At(i)]
  BY <1>4, <1>5 DEF Sorted
<1> HIDE DEF At
<1>7. ASSUME NEW i \in 1..n, \E x \in S : Cardinality(Below(S, R, x)) = i - 1
      PROVE  res[i] \in S /\ Cardinality(Below(S, R, res[i])) = i - 1
  <2>1. res[i] = CHOOSE x \in S : Cardinality({y \in S : EdgeLess(y, x)}) = i - 1
    BY <1>6 DEF At
  <2>2. \E x \in S : Cardinality({y \in S : EdgeLess(y, x)}) = i - 1
    BY <1>3, <1>7
  <2>3. res[i] \in S /\ Cardinality({y \in S : EdgeLess(y, res[i])}) = i - 1
    BY <2>1, <2>2
  <2>. QED
    BY <1>3, <2>3
<1>8. res = [i \in 1..n |-> res[i]]
  BY <1>6
<1>9. SortedBy(S, R, n, res)
  BY <1>2, <1>4, <1>7, <1>8 DEF SortedBy
<1>. QED
  BY <1>5, <1>9, RankedSeq


(* The union of two graphs, whoever is first and however often. *)
LEMMA MergedIs ==
  ASSUME NEW g, Formed(g), NEW h, Formed(h)
  PROVE  /\ Formed(merged(g, h)) /\ merged(g, h) = merged(h, g)
         /\ Elems(merged(g, h).verts) = Elems(g.verts) \cup Elems(h.verts)
         /\ Elems(merged(g, h).edges) = Elems(g.edges) \cup Elems(h.edges)
         /\ merged(merged(g, h), h) = merged(g, h)
<1>1. /\ g.verts \in Seq(Words) /\ g.edges \in Seq(Edge)
      /\ h.verts \in Seq(Words) /\ h.edges \in Seq(Edge)
  BY DEF Formed
<1> DEFINE V == Elems(g.verts) \cup Elems(h.verts)
           E == Elems(g.edges) \cup Elems(h.edges)
<1>2. IsFiniteSet(V) /\ V \subseteq Words /\ IsFiniteSet(E) /\ E \subseteq Edge
  <2>1. IsFiniteSet(Elems(g.verts)) /\ IsFiniteSet(Elems(h.verts))
    BY <1>1, ElemsFinite
  <2>2. IsFiniteSet(Elems(g.edges)) /\ IsFiniteSet(Elems(h.edges))
    BY <1>1, ElemsFinite
  <2>3. V \subseteq Words /\ E \subseteq Edge
    BY <1>1, ElemsFinite
  <2>. QED
    BY <2>1, <2>2, <2>3, FS_Union
<1>3. /\ \A i \in Elems(g.edges) : i[1] \in V /\ i[3] \in V
      /\ \A i \in Elems(h.edges) : i[1] \in V /\ i[3] \in V
  BY DEF Formed
<1>4. /\ Range(g.verts) \cup Range(h.verts) = V /\ Range(h.verts) \cup Range(g.verts) = V
      /\ Range(g.edges) \cup Range(h.edges) = E /\ Range(h.edges) \cup Range(g.edges) = E
  BY <1>1, RangeIsElems
<1>5. Elems(h.verts) \subseteq V /\ Elems(h.edges) \subseteq E
  OBVIOUS
<1>6. \A i \in E : i[1] \in V /\ i[3] \in V
  BY <1>3
<1>7. PICK vs : vs = Sorted(V, WordLess)
  OBVIOUS
<1>8. PICK es : es = Sorted(E, EdgeLess)
  OBVIOUS
<1>9. Lists(vs, V) /\ Lists(es, E)
  BY <1>2, <1>7, <1>8, SortedWords, SortedEdges
<1> HIDE DEF V, E
<1>10. merged(g, h) = [verts |-> vs, edges |-> es] /\ merged(h, g) = [verts |-> vs, edges |-> es]
  BY <1>4, <1>7, <1>8 DEF merged
<1>11. PICK m : m = merged(g, h)
  OBVIOUS
<1>12. m.verts = vs /\ m.edges = es /\ m = [verts |-> vs, edges |-> es]
  BY <1>10, <1>11
<1>13. vs \in Seq(V) /\ Elems(vs) = V /\ es \in Seq(E) /\ Elems(es) = E /\ Distinct(vs) /\ Distinct(es)
  BY <1>9 DEF Lists
<1>14. vs \in Seq(Words) /\ es \in Seq(Edge)
  BY <1>2, <1>13
<1>15. Formed(m)
  BY <1>6, <1>12, <1>13, <1>14 DEF Formed
<1>16. Range(m.verts) \cup Range(h.verts) = V /\ Range(m.edges) \cup Range(h.edges) = E
  <2>1. Range(m.verts) = V /\ Range(m.edges) = E
    BY <1>12, <1>13, RangeIsElems
  <2>2. Range(h.verts) = Elems(h.verts) /\ Range(h.edges) = Elems(h.edges)
    BY <1>1, RangeIsElems
  <2>. QED
    BY <1>5, <2>1, <2>2
<1>17. merged(m, h) = m
  BY <1>7, <1>8, <1>12, <1>16 DEF merged
<1>. QED
  BY <1>10, <1>11, <1>12, <1>13, <1>15, <1>17 DEF V, E

-----------------------------------------------------------------------------
(* Queries.                                                                *)
Finds(g, name, label, out, f) ==
  \A i \in 0..Len(g.edges) :
    f[i] = IF i = 0 THEN out
           ELSE IF g.edges[i][1] = name /\ g.edges[i][2] = label
                THEN Ensured(f[i - 1], g.edges[i][3])
                ELSE f[i - 1]

LEMMA FollowFromIs ==
  ASSUME NEW g, Len(g.edges) \in Nat, NEW name, NEW label, NEW out
  PROVE  \E f : Finds(g, name, label, out, f) /\ FollowFrom(g, name, label, out) = f[Len(g.edges)]
<1> DEFINE St(i, prev) == IF g.edges[i][1] = name /\ g.edges[i][2] = label
                            THEN Ensured(prev, g.edges[i][3]) ELSE prev
           Upto(m, f) == f = [i \in 0..m |-> IF i = 0 THEN out ELSE St(i, f[i - 1])]
           P == {m \in Nat : \E f : Upto(m, f)}
<1>1. 0 \in P
  <2>1. Upto(0, [i \in 0..0 |-> out])
    <3>1. \A i \in 0..0 : i = 0
      OBVIOUS
    <3> HIDE DEF St
    <3>. QED
      BY <3>1
  <2>. QED
    BY <2>1
<1>2. ASSUME NEW m \in Nat, m \in P PROVE m + 1 \in P
  <2>1. PICK f : Upto(m, f)
    BY <1>2
  <2> HIDE DEF St
  <2>2. \A i \in 0..m : f[i] = IF i = 0 THEN out ELSE St(i, f[i - 1])
    BY <2>1
  <2>3. PICK next \in Nat \ {0} : next = m + 1 /\ next - 1 = m
    <3>1. m + 1 \in Nat \ {0} /\ (m + 1) - 1 = m
      OBVIOUS
    <3>. QED
      BY <3>1
  <2> DEFINE last == St(next, f[m])
             e == [i \in 0..next |-> IF i = next THEN last ELSE f[i]]
  <2>4. \A i \in 0..next : e[i] = IF i = next THEN last ELSE f[i]
    OBVIOUS
  <2> HIDE DEF last, e
  <2>5. \A i \in 0..next : e[i] = IF i = 0 THEN out ELSE St(i, e[i - 1])
    <3> SUFFICES ASSUME NEW i \in 0..next PROVE e[i] = IF i = 0 THEN out ELSE St(i, e[i - 1])
      OBVIOUS
    <3>1. i # 0 => i - 1 \in 0..next /\ i - 1 # next
      OBVIOUS
    <3>2. i # 0 => e[i - 1] = f[i - 1]
      BY <2>4, <3>1
    <3>3. CASE i = next
      BY <2>3, <2>4, <3>2, <3>3 DEF last
    <3>4. CASE i # next
      <4>1. i \in 0..m
        BY <2>3, <3>4
      <4>. QED
        BY <2>2, <2>4, <3>2, <3>4, <4>1
    <3>. QED
      BY <3>3, <3>4
  <2>6. Upto(next, e)
    BY <2>5 DEF e
  <2>. QED
    BY <2>3, <2>6
<1>3. Len(g.edges) \in P
  <2> HIDE DEF P
  <2>. QED
    BY <1>1, <1>2, Induction
<1> DEFINE Fits(f) == f = [i \in 0..Len(g.edges) |-> IF i = 0 THEN out ELSE St(i, f[i - 1])]
           chosen == CHOOSE f : Fits(f)
<1>4. Fits(chosen)
  <2> HIDE DEF St
  <2>. QED
    BY <1>3
<1>5. FollowFrom(g, name, label, out) = chosen[Len(g.edges)]
  BY DEF FollowFrom
<1> HIDE DEF chosen
<1>6. \A i \in 0..Len(g.edges) : chosen[i] = IF i = 0 THEN out ELSE St(i, chosen[i - 1])
  <2> HIDE DEF St
  <2>. QED
    BY <1>4
<1>7. Finds(g, name, label, out, chosen)
  BY <1>6 DEF Finds
<1>. QED
  BY <1>5, <1>7

(* What one name adds to the answer of a query. *)
LEMMA FollowFromElems ==
  ASSUME NEW g, Formed(g), NEW name, NEW label, NEW out \in Seq(Words), Distinct(out)
  PROVE  /\ FollowFrom(g, name, label, out) \in Seq(Words)
         /\ Distinct(FollowFrom(g, name, label, out))
         /\ \A e \in Elems(g.edges) :
              e[1] = name /\ e[2] = label => e[3] \in Elems(FollowFrom(g, name, label, out))
<1>1. g.edges \in Seq(Edge)
  BY DEF Formed
<1>2. PICK N \in Nat : N = Len(g.edges)
  BY <1>1
<1>3. PICK f : Finds(g, name, label, out, f) /\ FollowFrom(g, name, label, out) = f[N]
  BY <1>2, FollowFromIs
<1>4. \A i \in 0..N : f[i] = IF i = 0 THEN out
                             ELSE IF g.edges[i][1] = name /\ g.edges[i][2] = label
                                  THEN Ensured(f[i - 1], g.edges[i][3])
                                  ELSE f[i - 1]
  BY <1>2, <1>3 DEF Finds
<1>5. \A i \in 1..N : g.edges[i] \in Edge /\ g.edges[i][3] \in Words
  <2>1. \A i \in 1..N : g.edges[i] \in Edge
    BY <1>1, <1>2
  <2>2. \A e \in Edge : e[3] \in Words
    BY DEF Edge
  <2>. QED
    BY <2>1, <2>2
<1> DEFINE Good(n) == /\ f[n] \in Seq(Words) /\ Distinct(f[n])
                      /\ \A i \in 1..n : g.edges[i][1] = name /\ g.edges[i][2] = label
                                           => g.edges[i][3] \in Elems(f[n])
           P == {n \in Nat : n <= N => Good(n)}
<1>6. 0 \in P
  <2>1. 0 \in 0..N /\ 1..0 = {}
    OBVIOUS
  <2>2. f[0] = out
    BY <1>4, <2>1
  <2>. QED
    BY <2>1, <2>2
<1>7. ASSUME NEW n \in Nat, n \in P PROVE n + 1 \in P
  <2> SUFFICES ASSUME n + 1 <= N PROVE Good(n + 1)
    OBVIOUS
  <2>1. PICK m \in 1..N : m = n + 1 /\ m - 1 = n /\ m # 0 /\ m \in 0..N /\ n <= N
    <3>1. n + 1 \in 1..N /\ (n + 1) - 1 = n /\ n + 1 # 0 /\ n + 1 \in 0..N /\ n <= N
      OBVIOUS
    <3>. QED
      BY <3>1
  <2>2. Good(n)
    BY <1>7, <2>1
  <2>3. \A i \in 1..m : i \in 1..n \/ i = m
    BY <2>1
  <2>4. PICK e \in Edge : e = g.edges[m] /\ e[3] \in Words
    BY <1>5
  <2>5. CASE e[1] = name /\ e[2] = label
    <3>1. f[m] = Ensured(f[n], e[3])
      BY <1>4, <2>1, <2>4, <2>5
    <3>2. f[m] \in Seq(Words) /\ Elems(f[m]) = Elems(f[n]) \cup {e[3]} /\ Distinct(f[m])
      BY <2>2, <2>4, <3>1, EnsuredElems
    <3>3. Good(m)
      BY <2>2, <2>3, <2>4, <3>2
    <3>. QED
      BY <2>1, <3>3
  <2>6. CASE ~(e[1] = name /\ e[2] = label)
    <3>1. f[m] = f[n]
      BY <1>4, <2>1, <2>4, <2>6
    <3>2. Good(m)
      BY <2>2, <2>3, <2>4, <2>6, <3>1
    <3>. QED
      BY <2>1, <3>2
  <2>. QED
    BY <2>5, <2>6
<1>8. N \in P
  <2> HIDE DEF P
  <2>. QED
    BY <1>6, <1>7, Induction
<1>9. Good(N)
  BY <1>8
<1>. QED
  BY <1>2, <1>3, <1>9, SMTT(30) DEF Elems

Chains(g, names, label, f) ==
  \A i \in 0..Len(names) :
    f[i] = IF i = 0 THEN <<>> ELSE FollowFrom(g, names[i], label, f[i - 1])

LEMMA FollowIs ==
  ASSUME NEW g, NEW names, Len(names) \in Nat, NEW label
  PROVE  \E f : Chains(g, names, label, f) /\ follow(g, names, label) = f[Len(names)]
<1> DEFINE Upto(m, f) == f = [i \in 0..m |-> IF i = 0 THEN <<>>
                                              ELSE FollowFrom(g, names[i], label, f[i - 1])]
           P == {m \in Nat : \E f : Upto(m, f)}
<1>1. 0 \in P
  <2>1. Upto(0, [i \in 0..0 |-> <<>>])
    <3>1. \A i \in 0..0 : i = 0
      OBVIOUS
    <3>. QED
      BY <3>1
  <2>. QED
    BY <2>1
<1>2. ASSUME NEW m \in Nat, m \in P PROVE m + 1 \in P
  <2>1. PICK f : Upto(m, f)
    BY <1>2
  <2>2. \A i \in 0..m : f[i] = IF i = 0 THEN <<>> ELSE FollowFrom(g, names[i], label, f[i - 1])
    BY <2>1
  <2>3. PICK next \in Nat \ {0} : next = m + 1 /\ next - 1 = m
    <3>1. m + 1 \in Nat \ {0} /\ (m + 1) - 1 = m
      OBVIOUS
    <3>. QED
      BY <3>1
  <2> DEFINE last == FollowFrom(g, names[next], label, f[m])
             e == [i \in 0..next |-> IF i = next THEN last ELSE f[i]]
  <2>4. \A i \in 0..next : e[i] = IF i = next THEN last ELSE f[i]
    OBVIOUS
  <2> HIDE DEF last, e
  <2>5. \A i \in 0..next : e[i] = IF i = 0 THEN <<>> ELSE FollowFrom(g, names[i], label, e[i - 1])
    <3> SUFFICES ASSUME NEW i \in 0..next
                 PROVE  e[i] = IF i = 0 THEN <<>> ELSE FollowFrom(g, names[i], label, e[i - 1])
      OBVIOUS
    <3>1. i # 0 => i - 1 \in 0..next /\ i - 1 # next
      OBVIOUS
    <3>2. i # 0 => e[i - 1] = f[i - 1]
      BY <2>4, <3>1
    <3>3. CASE i = next
      BY <2>3, <2>4, <3>2, <3>3 DEF last
    <3>4. CASE i # next
      <4>1. i \in 0..m
        BY <2>3, <3>4
      <4>. QED
        BY <2>2, <2>4, <3>2, <3>4, <4>1
    <3>. QED
      BY <3>3, <3>4
  <2>6. Upto(next, e)
    BY <2>5 DEF e
  <2>. QED
    BY <2>3, <2>6
<1>3. Len(names) \in P
  <2> HIDE DEF P
  <2>. QED
    BY <1>1, <1>2, Induction
<1> DEFINE Fits(f) == f = [i \in 0..Len(names) |-> IF i = 0 THEN <<>>
                                                    ELSE FollowFrom(g, names[i], label, f[i - 1])]
           chosen == CHOOSE f : Fits(f)
<1>4. Fits(chosen)
  BY <1>3
<1>5. follow(g, names, label) = chosen[Len(names)]
  BY DEF follow
<1> HIDE DEF chosen
<1>6. Chains(g, names, label, chosen)
  BY <1>4 DEF Chains
<1>. QED
  BY <1>5, <1>6

(* A query names nothing twice, and finds the far end of an edge from its  *)
(* near end.                                                               *)
LEMMA FollowElems ==
  ASSUME NEW g, Formed(g), NEW names, Len(names) \in Nat, NEW label
  PROVE  follow(g, names, label) \in Seq(Words) /\ Distinct(follow(g, names, label))
<1>1. PICK N \in Nat : N = Len(names)
  OBVIOUS
<1>2. PICK f : Chains(g, names, label, f) /\ follow(g, names, label) = f[N]
  BY <1>1, FollowIs
<1>3. \A i \in 0..N : f[i] = IF i = 0 THEN <<>> ELSE FollowFrom(g, names[i], label, f[i - 1])
  BY <1>1, <1>2 DEF Chains
<1> DEFINE P == {n \in Nat : n <= N => f[n] \in Seq(Words) /\ Distinct(f[n])}
<1>4. 0 \in P
  <2>1. 0 \in 0..N
    OBVIOUS
  <2>2. f[0] = <<>> /\ <<>> \in Seq(Words)
    BY <1>3, <2>1
  <2>. QED
    BY <2>2, EmptyElems
<1>5. ASSUME NEW n \in Nat, n \in P PROVE n + 1 \in P
  <2> SUFFICES ASSUME n + 1 <= N PROVE f[n + 1] \in Seq(Words) /\ Distinct(f[n + 1])
    OBVIOUS
  <2>1. PICK m \in 1..N : m = n + 1 /\ m - 1 = n /\ m # 0 /\ m \in 0..N /\ n <= N
    <3>1. n + 1 \in 1..N /\ (n + 1) - 1 = n /\ n + 1 # 0 /\ n + 1 \in 0..N /\ n <= N
      OBVIOUS
    <3>. QED
      BY <3>1
  <2>2. f[m] = FollowFrom(g, names[m], label, f[n])
    BY <1>3, <2>1
  <2>3. f[m] \in Seq(Words) /\ Distinct(f[m])
    BY <1>5, <2>1, <2>2, FollowFromElems
  <2>. QED
    BY <2>1, <2>3
<1>6. N \in P
  <2> HIDE DEF P
  <2>. QED
    BY <1>4, <1>5, Induction
<1>. QED
  BY <1>2, <1>6

LEMMA EdgeIsFollowed ==
  ASSUME NEW g, Formed(g), NEW e \in Elems(g.edges)
  PROVE  Contains(follow(g, <<e[1]>>, e[2]), e[3])
<1>1. PICK a : a = e[1]
  OBVIOUS
<1>2. PICK names : names = <<a>>
  OBVIOUS
<1>3. Len(names) = 1 /\ names[1] = a /\ Len(names) \in Nat
  BY <1>2
<1>4. PICK b : b = e[2]
  OBVIOUS
<1>5. \E f : Chains(g, names, b, f) /\ follow(g, names, b) = f[Len(names)]
  BY <1>3, FollowIs
<1>6. PICK f : Chains(g, names, e[2], f) /\ follow(g, names, e[2]) = f[1]
  BY <1>3, <1>4, <1>5
<1>7. 0 \in 0..1 /\ 1 \in 0..1 /\ 1 # 0 /\ 1 - 1 = 0
  OBVIOUS
<1>8. f[0] = <<>> /\ f[1] = FollowFrom(g, a, e[2], f[0])
  BY <1>3, <1>6, <1>7 DEF Chains
<1>9. <<>> \in Seq(Words)
  OBVIOUS
<1>10. f[1] \in Seq(Words) /\ e[3] \in Elems(f[1])
  BY <1>1, <1>8, <1>9, FollowFromElems, EmptyElems
<1>. QED
  BY <1>1, <1>2, <1>6, <1>10, RangeIsElems

-----------------------------------------------------------------------------
(* The path of a leaf is made of roots over some of the leaves.            *)
LEMMA AuditPathType ==
  ASSUME NEW leaves, Len(leaves) \in Nat \ {0}, NEW index \in 0..Len(leaves) - 1
  PROVE  audit_path(leaves, index) \in Seq(RootSet(leaves))
<1>1. PICK N \in Nat \ {0} : N = Len(leaves)
  OBVIOUS
<1>2. PICK ps : /\ audit_path(leaves, index) = ps[N][0]
                /\ \A n \in 1..N : ps[n] = PathLevel(ps, leaves, index, n)
  BY <1>1, PathsAre
<1>3. PICK none : none = <<>>
  OBVIOUS
<1>4. none \in Seq(RootSet(leaves))
  BY <1>3
<1>5. PICK fs : \A n \in 1..N : fs[n] = FoldLevel(fs, "digest", none, n)
  BY <1>1, FoldsAre
<1>6. Tables(ps, fs, leaves, index, "digest", none)
  BY <1>1, <1>2, <1>5 DEF Tables
<1>7. N \in 1..N /\ 0 \in 0..N - N /\ index \in 0..0 + N - 1 /\ index \in 0..N - 1
  BY <1>1
<1>8. TreeHolds(ps, fs, leaves, index, "digest", none, N, 0)
  BY <1>1, <1>6, <1>7, <1>4, TreeFollows
<1>. QED
  BY <1>2, <1>8 DEF TreeHolds

-----------------------------------------------------------------------------
(* Texts. A line that seals or signs the body of a bundle was written by   *)
(* sb or sl, for a graph that is in s.                                     *)
Graphs == {g \in [verts : Seq(Words), edges : Seq(Edge)] : Formed(g)}
Vouched(l, s) ==
  /\ l[1] = "blake3" =>
       \A b : l[2] = Hash(b) /\ b # <<>> /\ b[1] = HEADER =>
                \E g \in Graphs : b = bundle_body(g) /\ <<g, NoWord>> \in s
  /\ l[1] = "ed25519" =>
       \A b : l[3] = Sig(l[2], b) /\ b # <<>> /\ b[1] = HEADER =>
                \E g \in Graphs : b = bundle_body(g) /\ <<g, l[2]>> \in s
GoodLine(l, s) == Line(l) /\ Vouched(l, s)
GoodText(t, s) ==
  /\ \E S : t \in Seq(S)
  /\ \A i \in 1..Len(t) : GoodLine(t[i], s)

LEMMA GoodTextGrows ==
  ASSUME NEW t, NEW s, GoodText(t, s), NEW u, s \subseteq u
  PROVE  GoodText(t, u)
<1>1. \A l : Vouched(l, s) => Vouched(l, u)
  BY DEF Vouched
<1>. QED
  BY <1>1 DEF GoodText, GoodLine

(* The line l, by its kind. *)
LEMMA PlainLine ==
  ASSUME NEW l, NEW s, l[1] \notin {"e", "include", "blake3", "ed25519"}
  PROVE  GoodLine(l, s)
BY DEF GoodLine, Line, Vouched

LEMMA AppendGood ==
  ASSUME NEW t, NEW s, GoodText(t, s), NEW l, GoodLine(l, s)
  PROVE  GoodText(Append(t, l), s)
<1>1. PICK S : t \in Seq(S)
  BY DEF GoodText
<1>2. PICK n \in Nat : n = Len(t)
  BY <1>1
<1>3. t \in Seq(S \cup {l})
  BY <1>1
<1>4. PICK r : r = Append(t, l)
  OBVIOUS
<1>5. r \in Seq(S \cup {l}) /\ Len(r) = n + 1 /\ r[n + 1] = l /\ \A i \in 1..n : r[i] = t[i]
  BY <1>2, <1>3, <1>4
<1>6. \A i \in 1..n : GoodLine(t[i], s)
  BY <1>2 DEF GoodText
<1>7. \A i \in 1..n + 1 : i \in 1..n \/ i = n + 1
  OBVIOUS
<1>8. \A i \in 1..n + 1 : GoodLine(r[i], s)
  BY <1>5, <1>6, <1>7
<1>. QED
  BY <1>4, <1>5, <1>8 DEF GoodText

LEMMA ConcatGood ==
  ASSUME NEW t, NEW u, NEW s, GoodText(t, s), GoodText(u, s)
  PROVE  GoodText(t \o u, s)
<1>1. PICK S : t \in Seq(S)
  BY DEF GoodText
<1>2. PICK T : u \in Seq(T)
  BY DEF GoodText
<1>3. PICK a \in Nat : a = Len(t)
  BY <1>1
<1>4. PICK b \in Nat : b = Len(u)
  BY <1>2
<1>5. t \in Seq(S \cup T) /\ u \in Seq(S \cup T)
  BY <1>1, <1>2
<1>6. PICK r : r = t \o u
  OBVIOUS
<1>7. Joined(S \cup T, t, u, r, a, b)
  BY <1>3, <1>4, <1>5, <1>6, ConcatIs
<1>8. /\ r \in Seq(S \cup T) /\ Len(r) = a + b
      /\ \A i \in 1..a : r[i] = t[i]
      /\ \A i \in 1..b : r[a + i] = u[i]
  BY <1>7 DEF Joined
<1>9. /\ \A i \in 1..a : GoodLine(t[i], s)
      /\ \A i \in 1..b : GoodLine(u[i], s)
  BY <1>3, <1>4 DEF GoodText
<1>10. ASSUME NEW i \in 1..a + b PROVE GoodLine(r[i], s)
  <2>1. CASE i <= a
    BY <1>8, <1>9, <2>1
  <2>2. CASE ~(i <= a)
    <3>1. PICK j \in 1..b : i = a + j
      <4>1. i - a \in 1..b /\ i = a + (i - a)
        BY <2>2
      <4>. QED
        BY <4>1
    <3>. QED
      BY <1>8, <1>9, <3>1
  <2>. QED
    BY <2>1, <2>2
<1>. QED
  BY <1>6, <1>8, <1>10 DEF GoodText

(* A stretch of a sequence. *)
Stretch(S, t, m, n, r) ==
  /\ r \in Seq(S) /\ Len(r) = n - m + 1
  /\ \A i \in 1..n - m + 1 : r[i] = t[m + i - 1]

LEMMA SubSeqIs ==
  ASSUME NEW S, NEW t \in Seq(S), NEW m \in 1..Len(t) + 1, NEW n \in m - 1..Len(t)
  PROVE  Stretch(S, t, m, n, SubSeq(t, m, n))
BY SubSeqProperties DEF Stretch

LEMMA FrontGood ==
  ASSUME NEW t, NEW s, GoodText(t, s), t # <<>>
  PROVE  GoodText(Front(t), s)
<1>1. PICK S : t \in Seq(S)
  BY DEF GoodText
<1>2. PICK n \in Nat \ {0} : n = Len(t)
  BY <1>1
<1>3. PICK r : r = SubSeq(t, 1, n - 1)
  OBVIOUS
<1>4. Front(t) = r
  BY <1>2, <1>3 DEF Front
<1>5. 1 \in 1..Len(t) + 1 /\ n - 1 \in 1 - 1..Len(t) /\ n - 1 - 1 + 1 = n - 1
  BY <1>2
<1>6. Stretch(S, t, 1, n - 1, r)
  BY <1>1, <1>3, <1>5, SubSeqIs
<1>7. r \in Seq(S) /\ Len(r) = n - 1 /\ \A i \in 1..n - 1 : r[i] = t[1 + i - 1]
  BY <1>5, <1>6 DEF Stretch
<1>8. \A i \in 1..n - 1 : 1 + i - 1 = i /\ i \in 1..n
  OBVIOUS
<1>9. \A i \in 1..n : GoodLine(t[i], s)
  BY <1>2 DEF GoodText
<1>10. \A i \in 1..n - 1 : GoodLine(r[i], s)
  BY <1>7, <1>8, <1>9
<1>. QED
  BY <1>4, <1>7, <1>10 DEF GoodText

LEMMA ConsIs ==
  ASSUME NEW T, NEW t \in Seq(T), NEW x \in T
  PROVE  Tail(<<x>> \o t) = t /\ <<x>> \o t # <<>> /\ (<<x>> \o t)[1] = x
<1>1. PICK n \in Nat : n = Len(t)
  OBVIOUS
<1>2. PICK h : h = <<x>>
  OBVIOUS
<1>3. h \in Seq(T) /\ Len(h) = 1 /\ h[1] = x
  BY <1>2
<1>4. PICK r : r = h \o t
  OBVIOUS
<1>5. Joined(T, h, t, r, 1, n)
  BY <1>1, <1>3, <1>4, ConcatIs
<1>6. r \in Seq(T) /\ Len(r) = 1 + n /\ r[1] = x /\ \A i \in 1..n : r[1 + i] = t[i]
  <2>1. 1 \in 1..1
    OBVIOUS
  <2>. QED
    BY <1>3, <1>5, <2>1 DEF Joined
<1>7. r # <<>>
  BY <1>6
<1>8. PICK u : u = Tail(r)
  OBVIOUS
<1>9. u \in Seq(T) /\ Len(u) = n /\ \A i \in 1..n : u[i] = r[i + 1]
  <2>1. Tail(r) \in Seq(T) /\ Len(Tail(r)) = Len(r) - 1
        /\ \A i \in 1..Len(Tail(r)) : Tail(r)[i] = r[i + 1]
    BY <1>6, <1>7, HeadTailProperties
  <2>2. Len(u) = n
    BY <1>6, <1>8, <2>1
  <2>. QED
    BY <1>8, <2>1, <2>2
<1>10. \A i \in 1..n : u[i] = t[i]
  <2>1. \A i \in 1..n : i + 1 = 1 + i
    OBVIOUS
  <2>. QED
    BY <1>6, <1>9, <2>1
<1>11. u = [i \in 1..n |-> u[i]] /\ t = [i \in 1..n |-> t[i]]
  BY <1>1, <1>9
<1>12. u = t
  BY <1>10, <1>11
<1>. QED
  BY <1>2, <1>4, <1>6, <1>7, <1>8, <1>12

(* A snapshot, and the body of a bundle. *)
LEMMA SnapshotGood ==
  ASSUME NEW g \in Graphs, NEW s
  PROVE  GoodText(snapshot(g), s)
<1>1. Formed(g) /\ g.verts \in Seq(Words) /\ g.edges \in Seq(Edge)
  BY DEF Graphs
<1>2. PICK V \in Nat : V = Len(g.verts)
  BY <1>1
<1>3. PICK E \in Nat : E = Len(g.edges)
  BY <1>1
<1>4. PICK t : t = snapshot(g)
  OBVIOUS
<1>5. /\ Len(t) = V + E /\ \E S : t \in Seq(S)
      /\ \A i \in 1..V : t[i] = <<"v", g.verts[i]>> /\ g.verts[i] \in Words
      /\ \A i \in 1..E : t[V + i] = <<"e", g.edges[i]>> /\ g.edges[i] \in Edge
  BY <1>1, <1>2, <1>3, <1>4, SnapshotLines, ZenonT(30)
<1>6. ASSUME NEW i \in 1..V + E PROVE GoodLine(t[i], s)
  <2>1. CASE i <= V
    <3>1. t[i][1] = "v"
      BY <1>5, <2>1
    <3>. QED
      BY <3>1, PlainLine
  <2>2. CASE ~(i <= V)
    <3>1. PICK j \in 1..E : i = V + j
      <4>1. i - V \in 1..E /\ i = V + (i - V)
        BY <2>2
      <4>. QED
        BY <4>1
    <3>2. PICK e \in Edge : t[i] = <<"e", e>>
      BY <1>5, <3>1
    <3>3. e = <<e[1], e[2], e[3]>> /\ t[i][1] = "e" /\ t[i][2] = e
      BY <3>2 DEF Edge
    <3>. QED
      BY <3>3 DEF GoodLine, Line, Vouched
  <2>. QED
    BY <2>1, <2>2
<1>. QED
  BY <1>4, <1>5, <1>6 DEF GoodText

LEMMA BodyGood ==
  ASSUME NEW g \in Graphs, NEW s
  PROVE  /\ GoodText(bundle_body(g), s) /\ Tail(bundle_body(g)) = snapshot(g)
         /\ bundle_body(g) # <<>> /\ bundle_body(g)[1] = HEADER
<1>1. GoodText(snapshot(g), s)
  BY SnapshotGood
<1>2. PICK S : snapshot(g) \in Seq(S)
  BY <1>1 DEF GoodText
<1>3. PICK t : t = snapshot(g)
  OBVIOUS
<1>4. PICK h : h = <<HEADER>>
  OBVIOUS
<1>5. GoodLine(HEADER, s)
  BY PlainLine DEF HEADER
<1>6. GoodText(h, s)
  <2>1. h \in Seq({HEADER}) /\ Len(h) = 1 /\ h[1] = HEADER
    BY <1>4
  <2>2. \A i \in 1..1 : i = 1
    OBVIOUS
  <2>. QED
    BY <1>5, <2>1, <2>2 DEF GoodText
<1>7. GoodText(h \o t, s)
  BY <1>1, <1>3, <1>6, ConcatGood
<1>8. PICK T : t \in Seq(T) /\ HEADER \in T
  <2>1. snapshot(g) \in Seq(S \cup {HEADER})
    BY <1>2
  <2>. QED
    BY <1>3, <2>1
<1>9. Tail(h \o t) = t /\ h \o t # <<>> /\ (h \o t)[1] = HEADER
  BY <1>4, <1>8, ConsIs
<1>. QED
  BY <1>3, <1>4, <1>7, <1>9 DEF bundle_body

-----------------------------------------------------------------------------
(* so. The last line of a set of lines.                                    *)
LEMMA LastOne ==
  ASSUME NEW n \in Nat, NEW T \in SUBSET (1..n), T # {}
  PROVE  \E i \in T : \A j \in T : j <= i
<1> DEFINE D == {n - i : i \in T}
<1>1. D \in SUBSET Nat /\ D # {}
  <2>1. \A i \in T : i \in 1..n
    OBVIOUS
  <2>2. \A i \in 1..n : n - i \in Nat
    OBVIOUS
  <2>3. \A i \in T : n - i \in Nat
    BY <2>1, <2>2
  <2>. QED
    BY <2>3
<1>2. PICK d \in D : \A e \in D : ~(e < d)
  BY <1>1, LeastElement
<1>3. PICK i \in T : d = n - i
  OBVIOUS
<1>4. \A j \in T : n - j \in D /\ j \in 1..n
  OBVIOUS
<1>5. \A j \in T : ~(n - j < n - i)
  BY <1>2, <1>3, <1>4
<1>6. \A j \in T : j <= i
  BY <1>3, <1>4, <1>5
<1>. QED
  BY <1>6

(* What may follow the seal: a signature, then a proof. *)
LEMMA TrailersAre ==
  ASSUME NEW S, NEW rest \in Seq(S), NEW signed \in BOOLEAN, NEW after, NEW included \in BOOLEAN,
         NEW left,
         signed => rest # <<>> /\ rest[1][1] = "ed25519",
         after = IF signed THEN Tail(rest) ELSE rest,
         included => after # <<>> /\ after[1][1] = "include",
         left = IF included THEN Tail(after) ELSE after,
         left = <<>>
  PROVE  \A j \in 1..Len(rest) : \/ j = 1 /\ signed /\ rest[j][1] = "ed25519"
                                 \/ included /\ rest[j] = after[1] /\ rest[j][1] = "include"
<1>1. PICK m \in Nat : m = Len(rest)
  OBVIOUS
<1>2. after \in Seq(S)
  <2>1. rest # <<>> => Tail(rest) \in Seq(S)
    BY HeadTailProperties
  <2>. QED
    BY <2>1
<1>3. PICK k \in Nat : k = Len(after)
  BY <1>2
<1>4. IF included THEN k = 1 ELSE k = 0
  <2>1. CASE included
    <3>1. Len(Tail(after)) = k - 1 /\ Tail(after) = <<>>
      BY <1>2, <1>3, <2>1, HeadTailProperties
    <3>2. Len(<<>>) = 0
      OBVIOUS
    <3>3. k - 1 = 0
      BY <3>1, <3>2
    <3>. QED
      BY <2>1, <3>3
  <2>2. CASE ~included
    <3>1. after = <<>> /\ Len(<<>>) = 0
      BY <2>2
    <3>. QED
      BY <1>3, <2>2, <3>1
  <2>. QED
    BY <2>1, <2>2
<1>5. CASE signed
  <2>1. rest # <<>>
    BY <1>5
  <2>2. /\ after = Tail(rest) /\ k = m - 1
        /\ \A i \in 1..k : after[i] = rest[i + 1]
    <3>1. Len(Tail(rest)) = m - 1 /\ \A i \in 1..Len(Tail(rest)) : Tail(rest)[i] = rest[i + 1]
      BY <1>1, <2>1, HeadTailProperties
    <3>. QED
      BY <1>3, <1>5, <3>1
  <2>3. ASSUME NEW j \in 1..m
        PROVE  \/ j = 1 /\ signed /\ rest[j][1] = "ed25519"
               \/ included /\ rest[j] = after[1] /\ rest[j][1] = "include"
    <3>1. CASE j = 1
      BY <1>5, <3>1
    <3>2. CASE j # 1
      <4>1. included /\ k = 1 /\ j = 2 /\ 1 \in 1..k /\ 1 + 1 = 2
        BY <1>4, <2>2, <3>2
      <4>2. after[1] = rest[2]
        BY <2>2, <4>1
      <4>. QED
        BY <4>1, <4>2
    <3>. QED
      BY <3>1, <3>2
  <2>. QED
    BY <1>1, <2>3
<1>6. CASE ~signed
  <2>1. after = rest /\ k = m
    BY <1>1, <1>3, <1>6
  <2>2. ASSUME NEW j \in 1..m
        PROVE  included /\ rest[j] = after[1] /\ rest[j][1] = "include"
    <3>1. included /\ j = 1
      BY <1>4, <2>1
    <3>. QED
      BY <2>1, <3>1
  <2>. QED
    BY <1>1, <2>2
<1>. QED
  BY <1>5, <1>6

(* What a text that opens is: a body, its seal at idx, and trailers that   *)
(* hold for that body.                                                     *)
Opens(lg, t, r, idx, body) ==
  /\ idx \in 1..Len(t) /\ t[idx][1] = "blake3" /\ t[idx][2] = Hash(body)
  /\ body = SubSeq(t, 1, idx - 1) /\ body # <<>> /\ Head(body) = HEADER
  /\ Readable(Tail(body)) /\ r = parse_snapshot(Tail(body))
  /\ \A i \in idx + 1..Len(t) :
       \/ t[i][1] = "ed25519" /\ check_sig(body, t[i])
       \/ t[i][1] = "include" /\ ~(t[i][2] >= t[i][3]) /\ check_proof(lg, Hash(body), t[i])

LEMMA OpenedIs ==
  ASSUME NEW lg, NEW S, NEW t \in Seq(S), open_bundle(lg, t)[1] = "ok"
  PROVE  \E idx, body : Opens(lg, t, open_bundle(lg, t)[2], idx, body)
<1> DEFINE seals == {i \in 1..Len(t) : t[i][1] = "blake3"}
           idx == CHOOSE i \in seals : \A j \in seals : j <= i
           body == SubSeq(t, 1, idx - 1)
           rest == SubSeq(t, idx + 1, Len(t))
           signed == rest # <<>> /\ rest[1][1] = "ed25519"
           after == IF signed THEN Tail(rest) ELSE rest
           included == after # <<>> /\ after[1][1] = "include"
           left == IF included THEN Tail(after) ELSE after
<1>1. open_bundle(lg, t) =
        IF Torn(t) \/ seals = {} THEN Fault("TYPE_MISMATCH")
        ELSE IF t[idx][2] # Hash(body) THEN Fault("INTEGRITY_FAIL")
        ELSE IF body = <<>> \/ Head(body) # HEADER \/ left # <<>> THEN Fault("TYPE_MISMATCH")
        ELSE IF signed /\ ~check_sig(body, rest[1]) THEN Fault("SIG_INVALID")
        ELSE IF included /\ after[1][2] >= after[1][3] THEN Fault("TYPE_MISMATCH")
        ELSE IF included /\ ~check_proof(lg, Hash(body), after[1]) THEN Fault("INTEGRITY_FAIL")
        ELSE IF ~Readable(Tail(body)) THEN Fault("TYPE_MISMATCH")
        ELSE Ok(parse_snapshot(Tail(body)))
  BY Zenon DEF open_bundle
<1>2. \A c : Fault(c)[1] # "ok" /\ Ok(c)[2] = c
  BY DEF Fault, Ok
<1>3. signed \in BOOLEAN /\ included \in BOOLEAN
  OBVIOUS
<1>4. seals # {} => idx \in seals
  <2>1. Len(t) \in Nat /\ seals \in SUBSET (1..Len(t))
    OBVIOUS
  <2> HIDE DEF seals
  <2>2. seals # {} => \E i \in seals : \A j \in seals : j <= i
    BY <2>1, LastOne
  <2>. QED
    BY <2>2
<1>5. /\ signed => rest # <<>> /\ rest[1][1] = "ed25519"
      /\ after = IF signed THEN Tail(rest) ELSE rest
      /\ included => after # <<>> /\ after[1][1] = "include"
      /\ left = IF included THEN Tail(after) ELSE after
  OBVIOUS
<1>6. /\ seals = {i \in 1..Len(t) : t[i][1] = "blake3"}
      /\ body = SubSeq(t, 1, idx - 1) /\ rest = SubSeq(t, idx + 1, Len(t))
  OBVIOUS
<1> HIDE DEF seals, idx, body, rest, signed, after, included, left
<1>7. /\ seals # {} /\ t[idx][2] = Hash(body) /\ body # <<>> /\ Head(body) = HEADER /\ left = <<>>
      /\ signed => check_sig(body, rest[1])
      /\ included => ~(after[1][2] >= after[1][3]) /\ check_proof(lg, Hash(body), after[1])
      /\ Readable(Tail(body)) /\ open_bundle(lg, t) = Ok(parse_snapshot(Tail(body)))
  BY <1>1, <1>2
<1>8. idx \in 1..Len(t) /\ t[idx][1] = "blake3"
  BY <1>4, <1>6, <1>7
<1>9. PICK n \in Nat : n = Len(t)
  OBVIOUS
<1>10. PICK m \in Nat : m = n - idx
  <2>1. n - idx \in Nat
    BY <1>8, <1>9
  <2>. QED
    BY <2>1
<1>11. rest \in Seq(S) /\ Len(rest) = m /\ \A j \in 1..m : rest[j] = t[idx + j]
  <2>1. idx + 1 \in 1..Len(t) + 1 /\ n \in (idx + 1) - 1..Len(t) /\ n - (idx + 1) + 1 = m
    BY <1>8, <1>9, <1>10
  <2>2. Stretch(S, t, idx + 1, n, rest)
    BY <1>6, <1>9, <2>1, SubSeqIs
  <2>3. \A j \in 1..m : idx + 1 + j - 1 = idx + j
    BY <1>8
  <2>. QED
    BY <2>1, <2>2, <2>3 DEF Stretch
<1>12. \A j \in 1..m : \/ j = 1 /\ signed /\ rest[j][1] = "ed25519"
                       \/ included /\ rest[j] = after[1] /\ rest[j][1] = "include"
  BY <1>3, <1>5, <1>7, <1>11, TrailersAre
<1>13. ASSUME NEW i \in idx + 1..n
       PROVE  \/ t[i][1] = "ed25519" /\ check_sig(body, t[i])
              \/ t[i][1] = "include" /\ ~(t[i][2] >= t[i][3]) /\ check_proof(lg, Hash(body), t[i])
  <2>1. PICK j \in 1..m : i = idx + j
    <3>1. i - idx \in 1..m /\ i = idx + (i - idx)
      BY <1>8, <1>10
    <3>. QED
      BY <3>1
  <2>2. t[i] = rest[j]
    BY <1>11, <2>1
  <2>3. CASE j = 1 /\ signed /\ rest[j][1] = "ed25519"
    BY <1>7, <2>2, <2>3
  <2>4. CASE included /\ rest[j] = after[1] /\ rest[j][1] = "include"
    BY <1>7, <2>2, <2>4
  <2>. QED
    BY <1>12, <2>3, <2>4
<1>14. PICK r : r = open_bundle(lg, t)[2]
  OBVIOUS
<1>15. r = parse_snapshot(Tail(body))
  BY <1>2, <1>7, <1>14
<1>16. Opens(lg, t, r, idx, body)
  BY <1>6, <1>7, <1>8, <1>9, <1>13, <1>15 DEF Opens
<1>. QED
  BY <1>14, <1>16

(* The graph of a text that opens, as its lines vouch for it. *)
BodyOf(t, idx, body) ==
  /\ body[1] = HEADER /\ Len(Tail(body)) \in Nat
  /\ \A i \in 1..Len(Tail(body)) : Three(Tail(body)[i])
  /\ \A i \in 1..idx - 1 : t[i] = HEADER \/ LineOk(t[i])

LEMMA BodyLines ==
  ASSUME NEW lg, NEW t, NEW s, GoodText(t, s), NEW r, NEW idx, NEW body, Opens(lg, t, r, idx, body)
  PROVE  BodyOf(t, idx, body)
<1>1. PICK S : t \in Seq(S)
  BY DEF GoodText
<1>2. PICK n \in Nat : n = Len(t)
  BY <1>1
<1>3. idx \in 1..n /\ body = SubSeq(t, 1, idx - 1) /\ body # <<>> /\ Head(body) = HEADER
      /\ Readable(Tail(body))
  BY <1>2 DEF Opens
<1>4. 1 \in 1..Len(t) + 1 /\ idx - 1 \in 1 - 1..Len(t) /\ idx - 1 - 1 + 1 = idx - 1
  BY <1>2, <1>3
<1>5. Stretch(S, t, 1, idx - 1, body)
  BY <1>1, <1>3, <1>4, SubSeqIs
<1>6. PICK m \in Nat : m = idx - 1
  BY <1>3
<1>7. body \in Seq(S) /\ Len(body) = m /\ \A i \in 1..m : body[i] = t[i]
  <2>1. \A i \in 1..m : 1 + i - 1 = i
    OBVIOUS
  <2>. QED
    BY <1>4, <1>5, <1>6, <2>1 DEF Stretch
<1>8. body[1] = HEADER
  BY <1>3, <1>7
<1>9. PICK u : u = Tail(body)
  OBVIOUS
<1>10. u \in Seq(S) /\ Len(u) = m - 1 /\ \A i \in 1..m - 1 : u[i] = body[i + 1]
  <2>1. Tail(body) \in Seq(S) /\ Len(Tail(body)) = Len(body) - 1
        /\ \A i \in 1..Len(Tail(body)) : Tail(body)[i] = body[i + 1]
    BY <1>3, <1>7, HeadTailProperties
  <2>. QED
    BY <1>7, <1>9, <2>1
<1>11. ASSUME NEW i \in 1..m - 1 PROVE i + 1 \in 1..m /\ u[i] = t[i + 1]
  <2>1. i + 1 \in 1..m
    OBVIOUS
  <2>. QED
    BY <1>7, <1>10, <2>1
<1>12. ASSUME NEW i \in 1..m - 1 PROVE Three(u[i])
  <2>1. i + 1 \in 1..Len(t)
    BY <1>2, <1>3, <1>6
  <2>2. GoodLine(t[i + 1], s)
    BY <2>1 DEF GoodText
  <2>3. Three(t[i + 1])
    BY <2>2 DEF GoodLine, Line, Three
  <2>. QED
    BY <1>11, <2>3
<1>13. ASSUME NEW i \in 1..m PROVE t[i] = HEADER \/ LineOk(t[i])
  <2>1. CASE i = 1
    BY <1>7, <1>8, <2>1
  <2>2. CASE i # 1
    <3>1. PICK j \in 1..m - 1 : i = j + 1
      <4>1. i - 1 \in 1..m - 1 /\ i = (i - 1) + 1
        BY <2>2
      <4>. QED
        BY <4>1
    <3>2. LineOk(u[j])
      BY <1>3, <1>9, <1>10 DEF Readable
    <3>. QED
      BY <1>11, <3>1, <3>2
  <2>. QED
    BY <2>1, <2>2
<1>14. Len(u) \in Nat
  BY <1>10
<1>. QED
  BY <1>6, <1>8, <1>9, <1>10, <1>12, <1>13, <1>14 DEF BodyOf

LEMMA OpensFormed ==
  ASSUME NEW lg, NEW t, NEW s, GoodText(t, s), open_bundle(lg, t)[1] = "ok"
  PROVE  open_bundle(lg, t)[2] \in Graphs
<1>1. PICK S : t \in Seq(S)
  BY DEF GoodText
<1>2. PICK r : r = open_bundle(lg, t)[2]
  OBVIOUS
<1>3. PICK idx, body : Opens(lg, t, r, idx, body)
  BY <1>1, <1>2, OpenedIs
<1>4. /\ Len(Tail(body)) \in Nat /\ \A i \in 1..Len(Tail(body)) : Three(Tail(body)[i])
      /\ Readable(Tail(body)) /\ r = parse_snapshot(Tail(body))
  <2>1. BodyOf(t, idx, body)
    BY <1>3, BodyLines
  <2>. QED
    BY <1>3, <2>1 DEF BodyOf, Opens
<1>5. Formed(r)
  BY <1>4, ParseFormed
<1>. QED
  BY <1>2, <1>5 DEF Graphs, Formed

(* A text whose lines are vouched for opens as a graph of s, signed in s   *)
(* when it carries a signature, and in the log when it carries a proof.    *)
LEMMA OpensSealed ==
  ASSUME NEW R, NEW lg \in Seq(R), NEW t, NEW s, GoodText(t, s),
         NEW r, NEW idx, NEW body, Opens(lg, t, r, idx, body)
  PROVE  /\ <<r, NoWord>> \in s
         /\ \A i \in 1..Len(t) :
              /\ t[i][1] = "ed25519" => <<r, t[i][2]>> \in s
              /\ t[i][1] = "include" => Contains(lg, Hash(bundle_body(r)))
<1>1. PICK S : t \in Seq(S)
  BY DEF GoodText
<1>2. PICK n \in Nat : n = Len(t)
  BY <1>1
<1>3. \A i \in 1..n : Line(t[i]) /\ Vouched(t[i], s)
  BY <1>2 DEF GoodText, GoodLine
<1>4. /\ idx \in 1..n /\ t[idx][1] = "blake3" /\ t[idx][2] = Hash(body) /\ body # <<>>
      /\ r = parse_snapshot(Tail(body))
      /\ \A i \in idx + 1..n :
           \/ t[i][1] = "ed25519" /\ check_sig(body, t[i])
           \/ t[i][1] = "include" /\ ~(t[i][2] >= t[i][3]) /\ check_proof(lg, Hash(body), t[i])
  BY <1>2 DEF Opens
<1>5. body[1] = HEADER /\ \A i \in 1..idx - 1 : t[i] = HEADER \/ LineOk(t[i])
  <2>1. BodyOf(t, idx, body)
    BY BodyLines
  <2>. QED
    BY <2>1 DEF BodyOf
<1>6. ASSUME NEW g \in Graphs, body = bundle_body(g) PROVE r = g
  <2>1. Tail(body) = snapshot(g) /\ Formed(g)
    BY <1>6, BodyGood DEF Graphs
  <2>. QED
    BY <1>4, <2>1, SnapshotReadsBack
<1>7. PICK g \in Graphs : body = bundle_body(g) /\ <<g, NoWord>> \in s
  BY <1>3, <1>4, <1>5 DEF Vouched
<1>8. r = g
  BY <1>6, <1>7
<1>9. ASSUME NEW i \in 1..n, t[i][1] = "ed25519" \/ t[i][1] = "include" PROVE i \in idx + 1..n
  <2>1. i # idx
    BY <1>4, <1>9
  <2>2. i \notin 1..idx - 1
    <3>1. SUFFICES ASSUME i \in 1..idx - 1 PROVE FALSE
      OBVIOUS
    <3>2. HEADER[1] = "zown-sync"
      BY DEF HEADER
    <3>3. LineOk(t[i]) => t[i][1] = "v" \/ t[i][1] = "e"
      BY DEF LineOk
    <3>. QED
      BY <1>5, <1>9, <3>1, <3>2, <3>3
  <2>. QED
    BY <1>4, <2>1, <2>2
<1>10. ASSUME NEW i \in 1..n, t[i][1] = "ed25519" PROVE <<r, t[i][2]>> \in s
  <2>1. check_sig(body, t[i])
    BY <1>4, <1>9, <1>10
  <2>2. PICK h \in Graphs : body = bundle_body(h) /\ <<h, t[i][2]>> \in s
    BY <1>3, <1>4, <1>5, <1>10, <2>1 DEF Vouched, check_sig
  <2>. QED
    BY <1>6, <2>2
<1>11. ASSUME NEW i \in 1..n, t[i][1] = "include" PROVE Contains(lg, Hash(bundle_body(r)))
  <2>1. PICK l : l = t[i]
    OBVIOUS
  <2>2. ~(l[2] >= l[3]) /\ check_proof(lg, Hash(body), l)
    BY <1>4, <1>9, <1>11, <2>1
  <2>3. l[2] \in Nat /\ l[3] \in Nat /\ l[4] \in Seq(Range(l[4]))
    BY <1>3, <1>11, <2>1 DEF Line
  <2>4. PICK N \in Nat : N = Len(lg)
    OBVIOUS
  <2>5. PICK x \in 0..N - 1 : x = l[2] /\ N \in Nat \ {0}
    <3>1. l[3] = N
      BY <2>2, <2>4 DEF check_proof
    <3>2. l[2] \in 0..N - 1 /\ N \in Nat \ {0}
      BY <2>2, <2>3, <3>1
    <3>. QED
      BY <3>2
  <2>6. proof_ok(Hash(body), x, Len(lg), l[4], mth(lg))
    BY <2>2, <2>5 DEF check_proof
  <2>7. Hash(body) = lg[x + 1]
    BY <2>3, <2>4, <2>5, <2>6, AuditTheorem
  <2>8. x + 1 \in 1..Len(lg)
    BY <2>4, <2>5
  <2>9. Hash(body) \in Elems(lg)
    BY <2>7, <2>8 DEF Elems
  <2>. QED
    BY <1>7, <1>8, <2>9, RangeIsElems
<1>. QED
  BY <1>2, <1>7, <1>8, <1>10, <1>11

-----------------------------------------------------------------------------
(* The inductive invariant.                                                *)
Digests == {Hash(bundle_body(g)) : g \in Graphs}
Names == {s \in Seq(Words) : Distinct(s)}
GraphsFormed == graph \in [VMs -> Graphs]
DigestsLogged == log \in [VMs -> Seq(Digests)]
PublishedHeld == bundles \in [VMs -> SUBSET texts]
CursorsDistinct == cursor \in [VMs -> {NoCursor} \cup {Cur(s) : s \in Names}]
TextsGood == \A t \in texts : GoodText(t, sealed)
IInv ==
  /\ program \in Programs
  /\ GraphsFormed /\ DigestsLogged /\ PublishedHeld /\ CursorsDistinct /\ TextsGood

(* A program's own strings: whatever body they could seal, it has no       *)
(* header.                                                                 *)
LEMMA StringsGood ==
  ASSUME NEW s \in Programs, NEW t \in s.strings
  PROVE  GoodText(t, {})
<1>1. t \in Seq(Range(t)) /\ \A l \in Range(t) : Line(l)
  BY ProgramsAssumption
<1>2. ASSUME NEW i \in 1..Len(t) PROVE t[i] \in Range(t)
  BY <1>1 DEF Range
<1>3. ASSUME NEW l \in Range(t) PROVE Vouched(l, {})
  <2>1. /\ l[1] = "blake3" => l[2][2] = <<>> \/ l[2][2][1] # HEADER
        /\ l[1] = "ed25519" => l[3][3] = <<>> \/ l[3][3][1] # HEADER
    BY <1>3, SealsAssumption
  <2>2. \A b : Hash(b)[2] = b /\ Sig(l[2], b)[3] = b
    BY DEF Hash, Sig
  <2>. QED
    BY <2>1, <2>2 DEF Vouched
<1>. QED
  BY <1>1, <1>2, <1>3 DEF GoodText, GoodLine

LEMMA InitGood == Init => IInv
<1> SUFFICES ASSUME Init PROVE IInv
  OBVIOUS
<1>1. EmptyGraph \in Graphs
  BY EmptyFormed DEF Graphs, Formed
<1>2. GraphsFormed
  BY <1>1 DEF Init, GraphsFormed
<1>3. DigestsLogged
  <2>1. <<>> \in Seq(Digests)
    OBVIOUS
  <2>. QED
    BY <2>1 DEF Init, DigestsLogged
<1>4. PublishedHeld
  BY DEF Init, PublishedHeld
<1>5. CursorsDistinct
  BY DEF Init, CursorsDistinct
<1>6. TextsGood
  BY StringsGood DEF Init, TextsGood
<1>. QED
  BY <1>2, <1>3, <1>4, <1>5, <1>6 DEF Init, IInv

(* The steps that change a graph, nothing, a cursor, or the texts.         *)
LEMMA SetGraphKeeps ==
  ASSUME IInv, NEW p \in VMs, NEW g \in Graphs, SetGraph(p, g), UNCHANGED program
  PROVE  IInv'
<1>1. graph' \in [VMs -> Graphs]
  BY DEF IInv, GraphsFormed, SetGraph
<1>. QED
  BY <1>1 DEF IInv, GraphsFormed, DigestsLogged, PublishedHeld, CursorsDistinct, TextsGood, SetGraph

LEMMA RefusedKeeps ==
  ASSUME IInv, NEW code, Refused(code), UNCHANGED program
  PROVE  IInv'
BY DEF IInv, GraphsFormed, DigestsLogged, PublishedHeld, CursorsDistinct, TextsGood, Refused

LEMMA SetCursorKeeps ==
  ASSUME IInv, NEW p \in VMs, NEW c \in {NoCursor} \cup {Cur(s) : s \in Names}, SetCursor(p, c),
         UNCHANGED program
  PROVE  IInv'
<1>1. cursor' \in [VMs -> {NoCursor} \cup {Cur(s) : s \in Names}]
  BY DEF IInv, CursorsDistinct, SetCursor
<1>. QED
  BY <1>1 DEF IInv, GraphsFormed, DigestsLogged, PublishedHeld, CursorsDistinct, TextsGood, SetCursor

LEMMA PushedKeeps ==
  ASSUME IInv, NEW t, GoodText(t, sealed'), Pushed(t), sealed \subseteq sealed',
         UNCHANGED <<program, graph, log, bundles, cursor>>
  PROVE  IInv'
<1>1. texts' = texts \cup {t}
  BY DEF Pushed
<1>2. TextsGood'
  <2>1. \A u \in texts : GoodText(u, sealed')
    BY GoodTextGrows DEF IInv, TextsGood
  <2>. QED
    BY <1>1, <2>1 DEF TextsGood
<1>3. PublishedHeld'
  BY <1>1 DEF IInv, PublishedHeld
<1>. QED
  BY <1>2, <1>3 DEF IInv, GraphsFormed, DigestsLogged, CursorsDistinct

(* What readable texts hold, and what sb writes. *)
LEMMA ReadGraph ==
  ASSUME IInv, NEW t \in texts, Readable(t)
  PROVE  parse_snapshot(t) \in Graphs
<1>1. GoodText(t, sealed)
  BY DEF IInv, TextsGood
<1>2. Len(t) \in Nat /\ \A i \in 1..Len(t) : Three(t[i])
  BY <1>1 DEF GoodText, GoodLine, Line, Three
<1>3. Formed(parse_snapshot(t))
  BY <1>2, ParseFormed
<1>. QED
  BY <1>3 DEF Graphs, Formed

LEMMA SealGood ==
  ASSUME NEW g \in Graphs, NEW s, <<g, NoWord>> \in s
  PROVE  GoodText(seal(g), s)
<1>1. PICK b : b = bundle_body(g)
  OBVIOUS
<1>2. GoodText(b, s)
  BY <1>1, BodyGood
<1>3. PICK l : l = <<"blake3", Hash(b)>>
  OBVIOUS
<1>4. l[1] = "blake3" /\ l[2] = Hash(b)
  BY <1>3
<1>5. \A c : Hash(c) = Hash(b) => c = b
  BY DEF Hash
<1>6. GoodLine(l, s)
  BY <1>1, <1>4, <1>5 DEF GoodLine, Line, Vouched
<1>7. GoodText(Append(b, l), s)
  BY <1>2, <1>6, AppendGood
<1>. QED
  BY <1>1, <1>3, <1>7 DEF seal

LEMMA SignedGood ==
  ASSUME NEW g \in Graphs, NEW seed, NEW s, <<g, NoWord>> \in s, <<g, seed>> \in s
  PROVE  GoodText(Append(seal(g), <<"ed25519", seed, Sig(seed, bundle_body(g))>>), s)
<1>1. GoodText(seal(g), s)
  BY SealGood
<1>2. PICK b : b = bundle_body(g)
  OBVIOUS
<1>3. PICK l : l = <<"ed25519", seed, Sig(seed, b)>>
  OBVIOUS
<1>4. l[1] = "ed25519" /\ l[2] = seed /\ l[3] = Sig(seed, b)
  BY <1>3
<1>5. \A c : Sig(seed, c) = Sig(seed, b) => c = b
  BY DEF Sig
<1>6. GoodLine(l, s)
  BY <1>2, <1>4, <1>5 DEF GoodLine, Line, Vouched
<1>7. GoodText(Append(seal(g), l), s)
  BY <1>1, <1>6, AppendGood
<1>. QED
  BY <1>2, <1>3, <1>7

LEMMA ProofGood ==
  ASSUME NEW S, NEW lg \in Seq(S), NEW index \in 0..Len(lg) - 1, NEW s
  PROVE  GoodText(<<<<"include", index, Len(lg), audit_path(lg, index)>>>>, s)
<1>1. PICK N \in Nat \ {0} : N = Len(lg)
  OBVIOUS
<1>2. PICK path : path = audit_path(lg, index)
  OBVIOUS
<1>3. path \in Seq(RootSet(lg))
  BY <1>1, <1>2, AuditPathType
<1>4. path \in Seq(Range(path))
  BY <1>3 DEF Range
<1>5. PICK l : l = <<"include", index, N, path>>
  OBVIOUS
<1>6. l[1] = "include" /\ l[2] = index /\ l[3] = N /\ l[4] = path
  BY <1>5
<1>7. index \in Nat
  OBVIOUS
<1>8. GoodLine(l, s)
  BY <1>4, <1>6, <1>7 DEF GoodLine, Line, Vouched
<1>9. <<l>> \in Seq({l}) /\ Len(<<l>>) = 1 /\ <<l>>[1] = l /\ \A i \in 1..1 : i = 1
  OBVIOUS
<1>10. GoodText(<<l>>, s)
  BY <1>8, <1>9 DEF GoodText
<1>. QED
  BY <1>1, <1>2, <1>5, <1>10

(* Every step keeps the invariant: one step of the proof for each word. *)
LEMMA StepKeeps == IInv /\ [Next]_storeVars => IInv'
<1> SUFFICES ASSUME IInv, [Next]_storeVars PROVE IInv'
  OBVIOUS
<1> DEFINE Idle == UNCHANGED <<program, graph, log, bundles, cursor>>
<1>1. CASE UNCHANGED storeVars
  BY <1>1 DEF storeVars, IInv, GraphsFormed, DigestsLogged, PublishedHeld, CursorsDistinct, TextsGood
<1>2. CASE Join
  <2>1. PICK t \in texts, u \in texts : Pushed(t \o u)
    BY <1>2 DEF Join
  <2>2. Idle /\ sealed' = sealed
    BY <1>2 DEF Join, Uses
  <2>3. GoodText(t \o u, sealed')
    BY <2>2, ConcatGood DEF IInv, TextsGood
  <2>. QED
    BY <2>1, <2>2, <2>3, PushedKeeps
<1>3. CASE Cut
  <2>1. PICK t \in texts : t # <<>> /\ (Pushed(Front(t)) \/ Pushed(Append(Front(t), <<"part">>)))
    BY <1>3 DEF Cut
  <2>2. Idle /\ sealed' = sealed
    BY <1>3 DEF Cut, Uses
  <2>3. GoodText(Front(t), sealed')
    BY <2>1, <2>2, FrontGood DEF IInv, TextsGood
  <2>4. GoodText(Append(Front(t), <<"part">>), sealed')
    <3>1. PICK l : l = <<"part">>
      OBVIOUS
    <3>2. l[1] = "part"
      BY <3>1
    <3>3. GoodLine(l, sealed')
      BY <3>2, PlainLine
    <3>. QED
      BY <2>3, <3>1, <3>3, AppendGood
  <2>5. CASE Pushed(Front(t))
    BY <2>2, <2>3, <2>5, PushedKeeps
  <2>6. CASE Pushed(Append(Front(t), <<"part">>))
    BY <2>2, <2>4, <2>6, PushedKeeps
  <2>. QED
    BY <2>1, <2>5, <2>6
<1>4. ASSUME NEW p \in program.vms, Word(p) PROVE IInv'
  <2>1. p \in VMs
    BY ProgramsAssumption DEF IInv
  <2>2. graph[p] \in Graphs /\ Formed(graph[p])
    BY <2>1 DEF IInv, GraphsFormed, Graphs
  <2>3. log[p] \in Seq(Digests)
    BY <2>1 DEF IInv, DigestsLogged
  <2>4. CASE b_gv(p)
    <3>1. PICK n \in Words \cup {NoWord} :
            IF word_ok(n) THEN SetGraph(p, add_vert(graph[p], n)) ELSE Refused("TYPE_MISMATCH")
      BY <2>4 DEF b_gv
    <3>2. UNCHANGED program
      BY <2>4 DEF b_gv, Uses
    <3>3. CASE word_ok(n)
      <4>1. Formed(add_vert(graph[p], n))
        BY <2>2, <3>3, AddVertFormed DEF word_ok
      <4>2. add_vert(graph[p], n) \in Graphs
        BY <4>1 DEF Graphs, Formed
      <4>. QED
        BY <2>1, <3>1, <3>2, <3>3, <4>2, SetGraphKeeps
    <3>4. CASE ~word_ok(n)
      BY <3>1, <3>2, <3>4, RefusedKeeps
    <3>. QED
      BY <3>3, <3>4
  <2>5. CASE b_ge(p)
    <3>1. PICK e \in EdgeInputs :
            IF \A i \in 1..3 : word_ok(e[i]) THEN SetGraph(p, add_edge(graph[p], e))
            ELSE Refused("TYPE_MISMATCH")
      BY <2>5 DEF b_ge
    <3>2. UNCHANGED program
      BY <2>5 DEF b_ge, Uses
    <3>3. CASE \A i \in 1..3 : word_ok(e[i])
      <4>1. e[1] \in Words /\ e[2] \in Words /\ e[3] \in Words
        <5>1. 1 \in 1..3 /\ 2 \in 1..3 /\ 3 \in 1..3
          OBVIOUS
        <5>. QED
          BY <3>3, <5>1 DEF word_ok
      <4>2. e \in Edge
        <5>1. <<e[1], e[2], e[3]>> \in Edge
          BY <4>1 DEF Edge
        <5>. QED
          BY <5>1, EdgeAssumption
      <4>3. Formed(add_edge(graph[p], e))
        BY <2>2, <4>2, AddEdgeFormed
      <4>4. add_edge(graph[p], e) \in Graphs
        BY <4>3 DEF Graphs, Formed
      <4>. QED
        BY <2>1, <3>1, <3>2, <3>3, <4>4, SetGraphKeeps
    <3>4. CASE ~(\A i \in 1..3 : word_ok(e[i]))
      BY <3>1, <3>2, <3>4, RefusedKeeps
    <3>. QED
      BY <3>3, <3>4
  <2>6. CASE b_gs(p)
    <3>1. Idle /\ sealed' = sealed /\ Pushed(snapshot(graph[p]))
      BY <2>6 DEF b_gs, Uses
    <3>2. GoodText(snapshot(graph[p]), sealed')
      BY <2>2, SnapshotGood
    <3>. QED
      BY <3>1, <3>2, PushedKeeps
  <2>7. CASE b_gl(p)
    <3>1. PICK t \in texts : IF Readable(t) THEN SetGraph(p, parse_snapshot(t))
                             ELSE Refused("TYPE_MISMATCH")
      BY <2>7 DEF b_gl
    <3>2. UNCHANGED program
      BY <2>7 DEF b_gl, Uses
    <3>. QED
      BY <2>1, <3>1, <3>2, ReadGraph, SetGraphKeeps, RefusedKeeps
  <2>8. CASE b_mg(p)
    <3>1. PICK t \in texts : IF Readable(t) THEN SetGraph(p, merged(graph[p], parse_snapshot(t)))
                             ELSE Refused("TYPE_MISMATCH")
      BY <2>8 DEF b_mg
    <3>2. UNCHANGED program
      BY <2>8 DEF b_mg, Uses
    <3>3. CASE Readable(t)
      <4>1. Formed(parse_snapshot(t))
        BY <3>3, ReadGraph DEF Graphs
      <4>2. Formed(merged(graph[p], parse_snapshot(t)))
        BY <2>2, <4>1, MergedIs
      <4>3. merged(graph[p], parse_snapshot(t)) \in Graphs
        BY <4>2 DEF Graphs, Formed
      <4>. QED
        BY <2>1, <3>1, <3>2, <3>3, <4>3, SetGraphKeeps
    <3>4. CASE ~Readable(t)
      BY <3>1, <3>2, <3>4, RefusedKeeps
    <3>. QED
      BY <3>3, <3>4
  <2>9. CASE b_sb(p)
    <3>1. Idle /\ sealed' = sealed \cup {<<graph[p], NoWord>>} /\ Pushed(seal(graph[p]))
      BY <2>9 DEF b_sb, Uses
    <3>2. GoodText(seal(graph[p]), sealed')
      BY <2>2, <3>1, SealGood
    <3>. QED
      BY <3>1, <3>2, PushedKeeps
  <2>10. CASE b_sl(p)
    <3>1. PICK seed \in Seeds :
            /\ Pushed(Append(seal(graph[p]), <<"ed25519", seed, Sig(seed, bundle_body(graph[p]))>>))
            /\ sealed' = sealed \cup {<<graph[p], NoWord>>, <<graph[p], seed>>}
      BY <2>10 DEF b_sl
    <3>2. Idle
      BY <2>10 DEF b_sl, Uses
    <3>3. GoodText(Append(seal(graph[p]), <<"ed25519", seed, Sig(seed, bundle_body(graph[p]))>>),
                   sealed')
      BY <2>2, <3>1, SignedGood, ZenonT(30)
    <3>. QED
      BY <3>1, <3>2, <3>3, PushedKeeps
  <2>11. CASE b_so(p)
    <3>1. PICK t \in texts : LET r == open_bundle(log[p], t)
                             IN  IF r[1] = "ok" THEN SetGraph(p, r[2]) ELSE Refused(r[2])
      BY <2>11 DEF b_so
    <3>2. UNCHANGED program
      BY <2>11 DEF b_so, Uses
    <3>3. GoodText(t, sealed)
      BY DEF IInv, TextsGood
    <3>4. CASE open_bundle(log[p], t)[1] = "ok"
      <4>1. open_bundle(log[p], t)[2] \in Graphs
        BY <3>3, <3>4, OpensFormed
      <4>. QED
        BY <2>1, <3>1, <3>2, <3>4, <4>1, SetGraphKeeps
    <3>5. CASE open_bundle(log[p], t)[1] # "ok"
      BY <3>1, <3>2, <3>5, RefusedKeeps
    <3>. QED
      BY <3>4, <3>5
  <2>12. CASE b_la(p)
    <3>1. /\ log' = [log EXCEPT ![p] = Append(@, Hash(bundle_body(graph[p])))]
          /\ UNCHANGED <<program, graph, bundles, cursor, texts, sealed>>
      BY <2>12 DEF b_la, Uses
    <3>2. PICK d \in Digests : d = Hash(bundle_body(graph[p]))
      BY <2>2 DEF Digests
    <3>3. Append(log[p], d) \in Seq(Digests)
      BY <2>3
    <3>4. log' \in [VMs -> Seq(Digests)]
      BY <3>1, <3>2, <3>3 DEF IInv, DigestsLogged
    <3>. QED
      BY <3>1, <3>4 DEF IInv, GraphsFormed, DigestsLogged, PublishedHeld, CursorsDistinct, TextsGood
  <2>13. CASE b_lp(p)
    <3> DEFINE digest == Hash(bundle_body(graph[p]))
               at == {i \in 1..Len(log[p]) : log[p][i] = digest}
               first == CHOOSE i \in at : \A j \in at : i <= j
    <3>1. IF at = {} THEN Refused("BOUNDS")
          ELSE /\ Pushed(<<<<"include", first - 1, Len(log[p]), audit_path(log[p], first - 1)>>>>)
               /\ UNCHANGED <<graph, log, bundles, columns, rows, sealed, cursor>>
      BY <2>13 DEF b_lp
    <3>2. UNCHANGED program
      BY <2>13 DEF b_lp, Uses
    <3>3. at \in SUBSET (1..Len(log[p])) /\ at \in SUBSET Nat
      BY <2>3
    <3> HIDE DEF at
    <3>4. CASE at = {}
      BY <3>1, <3>2, <3>4, RefusedKeeps
    <3>5. CASE at # {}
      <4>1. PICK k \in at : \A j \in at : ~(j < k)
        BY <3>3, <3>5, LeastElement
      <4>2. \A j \in at : k <= j
        BY <3>3, <4>1
      <4>3. first \in at
        BY <4>2
      <4> HIDE DEF first
      <4>4. PICK index \in 0..Len(log[p]) - 1 : index = first - 1
        <5>1. first \in 1..Len(log[p]) /\ Len(log[p]) \in Nat
          BY <2>3, <3>3, <4>3
        <5>2. first - 1 \in 0..Len(log[p]) - 1
          BY <5>1
        <5>. QED
          BY <5>2
      <4>5. GoodText(<<<<"include", index, Len(log[p]), audit_path(log[p], index)>>>>, sealed')
        BY <2>3, ProofGood
      <4>6. Pushed(<<<<"include", index, Len(log[p]), audit_path(log[p], index)>>>>)
        BY <3>1, <3>5, <4>4
      <4>7. Idle /\ sealed' = sealed
        BY <3>1, <3>2, <3>5
      <4>. QED
        BY <4>5, <4>6, <4>7, PushedKeeps
    <3>. QED
      BY <3>4, <3>5
  <2>14. CASE op_publish(p)
    <3>1. PICK t \in texts : bundles' = [bundles EXCEPT ![p] = @ \cup {t}]
      BY <2>14 DEF op_publish
    <3>2. UNCHANGED <<program, graph, log, cursor, texts, sealed>>
      BY <2>14 DEF op_publish, Uses
    <3>3. bundles' \in [VMs -> SUBSET texts]
      BY <2>1, <3>1 DEF IInv, PublishedHeld
    <3>. QED
      BY <3>2, <3>3 DEF IInv, GraphsFormed, DigestsLogged, PublishedHeld, CursorsDistinct, TextsGood
  <2>15. CASE op_fetch(p)
    <3>1. PICK t \in texts :
            LET found == {b \in bundles[p] : Hash(b) = Hash(t)}
            IN  IF found = {} THEN Refused("BOUNDS")
                ELSE /\ Pushed(CHOOSE b \in found : TRUE)
                     /\ UNCHANGED <<graph, log, bundles, columns, rows, sealed, cursor>>
      BY <2>15 DEF op_fetch
    <3>2. UNCHANGED program
      BY <2>15 DEF op_fetch, Uses
    <3> DEFINE found == {b \in bundles[p] : Hash(b) = Hash(t)}
               one == CHOOSE b \in found : TRUE
    <3>3. CASE found = {}
      BY <3>1, <3>2, <3>3, RefusedKeeps
    <3>4. CASE found # {}
      <4>1. one \in found
        BY <3>4
      <4>2. Pushed(one) /\ Idle /\ sealed' = sealed
        BY <3>1, <3>2, <3>4
      <4>3. one \in texts
        BY <2>1, <4>1 DEF IInv, PublishedHeld
      <4>4. GoodText(one, sealed')
        BY <4>2, <4>3 DEF IInv, TextsGood
      <4> HIDE DEF one
      <4>. QED
        BY <4>2, <4>4, PushedKeeps
    <3>. QED
      BY <3>3, <3>4
  <2>16. CASE op_graph_open(p)
    <3>1. PICK n \in Words \cup {NoWord} :
            IF ~word_ok(n) THEN Refused("TYPE_MISMATCH")
            ELSE SetCursor(p, Cur(IF Contains(graph[p].verts, n) THEN <<n>> ELSE <<>>))
      BY <2>16 DEF op_graph_open
    <3>2. UNCHANGED program
      BY <2>16 DEF op_graph_open, Uses
    <3>3. CASE word_ok(n)
      <4>1. <<n>> \in Seq(Words) /\ <<>> \in Seq(Words)
        BY <3>3 DEF word_ok
      <4>2. Distinct(<<n>>)
        <5>1. \A i, j \in 1..1 : i = j
          OBVIOUS
        <5>. QED
          BY <5>1 DEF Distinct
      <4>3. <<n>> \in Names /\ <<>> \in Names
        BY <4>1, <4>2, EmptyElems DEF Names
      <4>4. PICK s \in Names : s = IF Contains(graph[p].verts, n) THEN <<n>> ELSE <<>>
        BY <4>3
      <4>5. SetCursor(p, Cur(s))
        BY <3>1, <3>3, <4>4
      <4>. QED
        BY <2>1, <3>2, <4>5, SetCursorKeeps
    <3>4. CASE ~word_ok(n)
      BY <3>1, <3>2, <3>4, RefusedKeeps
    <3>. QED
      BY <3>3, <3>4
  <2>17. CASE op_graph_follow(p)
    <3>1. PICK label \in {e[2] : e \in EdgeInputs} :
            IF ~word_ok(label) \/ cursor[p] = NoCursor THEN Refused("TYPE_MISMATCH")
            ELSE SetCursor(p, Cur(follow(graph[p], cursor[p][2], label)))
      BY <2>17 DEF op_graph_follow
    <3>2. UNCHANGED program
      BY <2>17 DEF op_graph_follow, Uses
    <3>3. CASE ~word_ok(label) \/ cursor[p] = NoCursor
      BY <3>1, <3>2, <3>3, RefusedKeeps
    <3>4. CASE ~(~word_ok(label) \/ cursor[p] = NoCursor)
      <4>1. PICK s \in Names : cursor[p] = Cur(s)
        BY <2>1, <3>4 DEF IInv, CursorsDistinct
      <4>2. cursor[p][2] = s /\ Len(s) \in Nat
        BY <4>1 DEF Cur, Names
      <4>3. PICK f : f = follow(graph[p], s, label)
        OBVIOUS
      <4>4. f \in Names
        BY <2>2, <4>2, <4>3, FollowElems DEF Names
      <4>5. SetCursor(p, Cur(f))
        BY <3>1, <3>4, <4>2, <4>3
      <4>. QED
        BY <2>1, <3>2, <4>4, <4>5, SetCursorKeeps
    <3>. QED
      BY <3>3, <3>4
  <2>18. CASE op_graph_close(p)
    <3>1. UNCHANGED program /\ (Refused("TYPE_MISMATCH") \/ SetCursor(p, NoCursor))
      BY <2>18 DEF op_graph_close, Uses
    <3>. QED
      BY <2>1, <3>1, RefusedKeeps, SetCursorKeeps
  <2>19. CASE b_tc(p)
    <3>1. PICK n \in Words \cup {NoWord} :
            \/ Refused("TYPE_MISMATCH")
            \/ UNCHANGED <<graph, log, bundles, rows, cursor, texts, sealed>>
      BY <2>19 DEF b_tc
    <3>2. UNCHANGED program
      BY <2>19 DEF b_tc, Uses
    <3>3. UNCHANGED <<graph, log, bundles, cursor, texts, sealed>>
      BY <3>1 DEF Refused
    <3>. QED
      BY <3>2, <3>3 DEF IInv, GraphsFormed, DigestsLogged, PublishedHeld, CursorsDistinct, TextsGood
  <2>20. CASE b_tu(p)
    <3>1. UNCHANGED program /\ UNCHANGED <<graph, log, bundles, cursor, texts, sealed>>
      BY <2>20 DEF b_tu, Uses, Refused
    <3>. QED
      BY <3>1 DEF IInv, GraphsFormed, DigestsLogged, PublishedHeld, CursorsDistinct, TextsGood
  <2>21. CASE b_tq(p)
    <3>1. UNCHANGED program /\ UNCHANGED <<graph, log, bundles, cursor, texts, sealed>>
      BY <2>21 DEF b_tq, Uses, Refused
    <3>. QED
      BY <3>1 DEF IInv, GraphsFormed, DigestsLogged, PublishedHeld, CursorsDistinct, TextsGood
  <2>. QED
    BY <1>4, <2>4, <2>5, <2>6, <2>7, <2>8, <2>9, <2>10, <2>11, <2>12, <2>13, <2>14, <2>15, <2>16,
       <2>17, <2>18, <2>19, <2>20, <2>21 DEF Word
<1>. QED
  BY <1>1, <1>2, <1>3, <1>4 DEF Next

(* The invariant holds of every behaviour. *)
THEOREM StoreInvariant == Spec => []IInv
<1>. QED
  BY InitGood, StepKeeps, PTL DEF Spec

-----------------------------------------------------------------------------
(* Whoever made a text, out of whatever pieces, a bundle that opens is a   *)
(* graph that was sealed, under that seed when it is signed, and in this   *)
(* VM's log when it carries a proof (store.rs open_bundle, check_sig,      *)
(* check_proof).                                                           *)
THEOREM SealedTheorem == Spec => []OpenedWasSealed
<1>1. ASSUME IInv PROVE OpenedWasSealed
  <2> SUFFICES ASSUME NEW t \in texts, NEW p \in VMs, open_bundle(log[p], t)[1] = "ok"
               PROVE  /\ <<open_bundle(log[p], t)[2], NoWord>> \in sealed
                      /\ \A l \in Range(t) :
                           /\ l[1] = "ed25519" => <<open_bundle(log[p], t)[2], l[2]>> \in sealed
                           /\ l[1] = "include" =>
                                Contains(log[p], Hash(bundle_body(open_bundle(log[p], t)[2])))
    BY DEF OpenedWasSealed
  <2>1. GoodText(t, sealed) /\ log[p] \in Seq(Digests)
    BY <1>1 DEF IInv, TextsGood, DigestsLogged
  <2>2. PICK S : t \in Seq(S)
    BY <2>1 DEF GoodText
  <2>3. PICK r : r = open_bundle(log[p], t)[2]
    OBVIOUS
  <2>4. PICK idx, body : Opens(log[p], t, r, idx, body)
    BY <2>2, <2>3, OpenedIs
  <2>5. /\ <<r, NoWord>> \in sealed
        /\ \A i \in 1..Len(t) :
             /\ t[i][1] = "ed25519" => <<r, t[i][2]>> \in sealed
             /\ t[i][1] = "include" => Contains(log[p], Hash(bundle_body(r)))
    BY <2>1, <2>4, OpensSealed
  <2>6. \A l \in Range(t) : \E i \in 1..Len(t) : l = t[i]
    BY <2>2 DEF Range
  <2>. QED
    BY <2>3, <2>5, <2>6
<1>. QED
  BY <1>1, StoreInvariant, PTL

(* A proof is accepted for exactly the leaf and the path it was made from, *)
(* in every log a program can grow (store.rs mth, audit_path, fold,        *)
(* proof_ok). AuditTheorem says the same of every path.                    *)
THEOREM LoggedTheorem == Spec => []ProofIffLogged
<1>1. ASSUME IInv PROVE ProofIffLogged
  <2> SUFFICES ASSUME NEW p \in VMs, log[p] # <<>>, NEW i \in 0..Len(log[p]) - 1,
                      NEW j \in 0..Len(log[p]) - 1,
                      NEW path \in Altered(audit_path(log[p], i), Siblings(log[p]))
               PROVE  proof_ok(log[p][j + 1], i, Len(log[p]), path, log_root(log[p]))
                        <=> (path = audit_path(log[p], i) /\ log[p][j + 1] = log[p][i + 1])
    BY DEF ProofIffLogged
  <2>1. PICK lg : lg = log[p]
    OBVIOUS
  <2>2. lg \in Seq(Digests)
    BY <1>1, <2>1 DEF IInv, DigestsLogged
  <2>3. Len(lg) \in Nat \ {0}
    BY <2>1, <2>2
  <2>4. PICK due : due = audit_path(lg, i)
    OBVIOUS
  <2>5. due \in Seq(RootSet(lg))
    BY <2>1, <2>3, <2>4, AuditPathType
  <2>6. \E S : path \in Seq(S)
    <3>1. PICK hashes : hashes = Siblings(lg)
      OBVIOUS
    <3> DEFINE S == RootSet(lg) \cup hashes \cup {leaf_hash("x")}
    <3>2. due \in Seq(S)
      BY <2>5
    <3>3. leaf_hash("x") \in S /\ \A h \in hashes : h \in S
      OBVIOUS
    <3> HIDE DEF S
    <3>4. \/ path = due \/ path = Append(due, leaf_hash("x"))
          \/ due # <<>> /\ path = Front(due)
          \/ \E k \in 1..Len(due), h \in hashes : path = [due EXCEPT ![k] = h]
      BY <2>1, <2>4, <3>1 DEF Altered
    <3>5. ASSUME due # <<>> PROVE Front(due) \in Seq(S)
      <4>1. PICK n \in Nat \ {0} : n = Len(due)
        BY <3>2, <3>5
      <4>2. 1 \in 1..Len(due) + 1 /\ n - 1 \in 1 - 1..Len(due)
        BY <4>1
      <4>3. Stretch(S, due, 1, n - 1, SubSeq(due, 1, n - 1))
        BY <3>2, <4>2, SubSeqIs
      <4>. QED
        BY <4>1, <4>3 DEF Front, Stretch
    <3>6. ASSUME NEW k \in 1..Len(due), NEW h \in hashes PROVE [due EXCEPT ![k] = h] \in Seq(S)
      BY <3>2, <3>3
    <3>7. Append(due, leaf_hash("x")) \in Seq(S)
      BY <3>2, <3>3
    <3>. QED
      BY <3>2, <3>4, <3>5, <3>6, <3>7
  <2>7. log_root(lg) = mth(lg)
    BY <2>1 DEF log_root
  <2>8. proof_ok(lg[j + 1], i, Len(lg), path, mth(lg))
          <=> (path = audit_path(lg, i) /\ lg[j + 1] = lg[i + 1])
    BY <2>1, <2>3, <2>6, AuditTheorem
  <2>. QED
    BY <2>1, <2>7, <2>8
<1>. QED
  BY <1>1, StoreInvariant, PTL

(* Graphs merge as sets, read back from their snapshots and keep their     *)
(* edges between their vertices, whatever was merged, loaded or opened     *)
(* before (store.rs merged, try_snapshot, add_edge, follow).               *)
THEOREM ConvergeTheorem == Spec => []MergeConverges
<1>1. ASSUME IInv PROVE MergeConverges
  <2> SUFFICES ASSUME NEW p \in VMs, NEW q \in VMs
               PROVE  LET g == graph[p]
                          h == graph[q]
                          m == merged(g, h)
                      IN  /\ head(m) = head(merged(h, g)) /\ merged(m, h) = m
                          /\ Range(m.verts) = Range(g.verts) \cup Range(h.verts)
                          /\ Range(m.edges) = Range(g.edges) \cup Range(h.edges)
                          /\ Readable(snapshot(g)) /\ parse_snapshot(snapshot(g)) = g
                          /\ IsInjective(g.verts) /\ IsInjective(g.edges)
                          /\ \A e \in Range(g.edges) :
                                 /\ {e[1], e[3]} \subseteq Range(g.verts)
                                 /\ Contains(follow(g, <<e[1]>>, e[2]), e[3])
                          /\ cursor[p] # NoCursor => IsInjective(cursor[p][2])
    BY DEF MergeConverges
  <2>1. PICK g : g = graph[p] /\ Formed(g)
    BY <1>1 DEF IInv, GraphsFormed, Graphs
  <2>2. PICK h : h = graph[q] /\ Formed(h)
    BY <1>1 DEF IInv, GraphsFormed, Graphs
  <2>3. PICK m : m = merged(g, h)
    OBVIOUS
  <2>4. /\ Formed(m) /\ m = merged(h, g) /\ merged(m, h) = m
        /\ Elems(m.verts) = Elems(g.verts) \cup Elems(h.verts)
        /\ Elems(m.edges) = Elems(g.edges) \cup Elems(h.edges)
    BY <2>1, <2>2, <2>3, MergedIs
  <2>5. \A k : Formed(k) => /\ Range(k.verts) = Elems(k.verts) /\ Range(k.edges) = Elems(k.edges)
                            /\ IsInjective(k.verts) /\ IsInjective(k.edges)
    BY RangeIsElems DEF Formed
  <2>6. Readable(snapshot(g)) /\ parse_snapshot(snapshot(g)) = g
    BY <2>1, SnapshotReadsBack
  <2>7. ASSUME NEW e \in Range(g.edges)
        PROVE  {e[1], e[3]} \subseteq Range(g.verts) /\ Contains(follow(g, <<e[1]>>, e[2]), e[3])
    <3>1. e \in Elems(g.edges)
      BY <2>1, <2>5, <2>7
    <3>2. e[1] \in Elems(g.verts) /\ e[3] \in Elems(g.verts)
      BY <2>1, <3>1 DEF Formed
    <3>3. Contains(follow(g, <<e[1]>>, e[2]), e[3])
      BY <2>1, <3>1, EdgeIsFollowed
    <3>. QED
      BY <2>1, <2>5, <3>2, <3>3
  <2>8. cursor[p] # NoCursor => IsInjective(cursor[p][2])
    <3> SUFFICES ASSUME cursor[p] # NoCursor PROVE IsInjective(cursor[p][2])
      OBVIOUS
    <3>1. PICK s \in Names : cursor[p] = Cur(s)
      BY <1>1 DEF IInv, CursorsDistinct
    <3>2. cursor[p][2] = s /\ s \in Seq(Words) /\ Distinct(s)
      BY <3>1 DEF Cur, Names
    <3>. QED
      BY <3>2, RangeIsElems
  <2>9. /\ Range(m.verts) = Range(g.verts) \cup Range(h.verts)
        /\ Range(m.edges) = Range(g.edges) \cup Range(h.edges)
    BY <2>1, <2>2, <2>4, <2>5
  <2>10. IsInjective(g.verts) /\ IsInjective(g.edges)
    BY <2>1, <2>5
  <2>. QED
    BY <2>1, <2>2, <2>3, <2>4, <2>6, <2>7, <2>8, <2>9, <2>10
<1>. QED
  BY <1>1, StoreInvariant, PTL

-----------------------------------------------------------------------------
(* The names file, which processes share as they share a store: a process  *)
(* is named here and found by the next.  That no registration is lost      *)
(* follows from the lock file: only its creator edits, so what a peer read *)
(* is still the names file when it renames its edited copy into place.     *)

\* What a peer is about to write back is an edit of the current file, or of an
\* empty one when the file could not be read.
SeenIsCurrent ==
    \A p \in Peer : /\ pc[p] = "rename" => seen[p] = file
                    /\ pc[p] = "blank" => seen[p] = NoEntries

\* A listening word knows its port; a peer in a word has its operands.
HasOperands ==
    \A p \in Peer :
        /\ pc[p] \in {"lock", "read", "rename", "blank", "unlock", "accept"}
              => want[p] \in [name : Name, proto : Proto, port : Port]
        /\ pc[p] = "lookup" => want[p] \in [name : Name, proto : Proto, port : {None}]
        /\ pc[p] = "dial" => want[p] \in [name : Name, proto : Proto, port : Port]

\* The inductive invariant.
NamesInv == TypeOK /\ HasOperands /\ LockHeld /\ SeenIsCurrent /\ NoLostName

\* Every step keeps the types and the operands.
LEMMA TypeStep == NamesInv /\ [NamesNext]_vars => TypeOK' /\ HasOperands'
<1> SUFFICES ASSUME NamesInv, [NamesNext]_vars PROVE TypeOK' /\ HasOperands'
  OBVIOUS
<1> USE NamesAssumption DEF NamesInv, TypeOK, HasOperands, Table, Entry, Operands,
        registry, network
<1>1. ASSUME NEW p \in Peer, NEW n \in Name, NEW t \in Proto, Connect(p, n, t)
      PROVE  TypeOK' /\ HasOperands'
  BY <1>1 DEF Connect, Goto
<1>2. ASSUME NEW p \in Peer, NEW n \in Name, NEW t \in Proto, NEW q \in Port,
             Listen(p, n, t, q)
      PROVE  TypeOK' /\ HasOperands'
  BY <1>2 DEF Listen, Goto
<1>3. ASSUME NEW p \in Peer, Lock(p) PROVE TypeOK' /\ HasOperands'
  BY <1>3 DEF Lock, Goto
<1>4. ASSUME NEW p \in Peer, LockTimesOut(p) PROVE TypeOK' /\ HasOperands'
  BY <1>4 DEF LockTimesOut, Ends, Goto, DropListener, Dropped, Reset, NoEntries
<1>5. ASSUME NEW p \in Peer, ReadNames(p) PROVE TypeOK' /\ HasOperands'
  BY <1>5 DEF ReadNames, Goto
<1>16. ASSUME NEW p \in Peer, ReadNamesFails(p) PROVE TypeOK' /\ HasOperands'
  BY <1>16 DEF ReadNamesFails, Goto, NoEntries
<1>6. ASSUME NEW p \in Peer, Rename(p) PROVE TypeOK' /\ HasOperands'
  <2> DEFINE new == [proto |-> want[p].proto, port |-> want[p].port]
             last == IF pc[p] = "blank" THEN NoEntries ELSE latest
  <2>1. new \in Entry /\ want[p].name \in Name
    BY <1>6 DEF Rename, Goto
  <2>2. NoEntries \in Table /\ last \in Table
    BY DEF NoEntries
  <2>3. file' \in Table /\ latest' \in Table
    BY <1>6, <2>1, <2>2 DEF Rename, Edited
  <2>4. seen' \in [Peer -> Table]
    BY <1>6, <2>2 DEF Rename
  <2> QED
    BY <1>6, <2>3, <2>4 DEF Rename, Goto
<1>7. ASSUME NEW p \in Peer, RenameFails(p) PROVE TypeOK' /\ HasOperands'
  BY <1>7 DEF RenameFails, Ends, Goto, DropListener, Dropped, Reset, NoEntries
<1>8. ASSUME NEW p \in Peer, Unlock(p) PROVE TypeOK' /\ HasOperands'
  BY <1>8 DEF Unlock, Goto
<1>9. ASSUME NEW p \in Peer, Accept(p) PROVE TypeOK' /\ HasOperands'
  <2>1. Ends(p, "accept") /\ DropListener(p) /\ UNCHANGED registry
    BY <1>9 DEF Accept
  <2>2. backlog[want[p].port] \in Seq(Proto) /\ backlog[want[p].port] # <<>>
        /\ want[p].proto \in Proto
    BY <1>9 DEF Accept, Ends, Goto
  <2>3. Head(backlog[want[p].port]) \in Proto
    BY <2>2
  <2>4. crossed' \in BOOLEAN
    BY <1>9, <2>2, <2>3 DEF Accept
  <2> QED
    BY <2>1, <2>4 DEF Ends, Goto, DropListener, Dropped, Reset, NoEntries
<1>10. ASSUME NEW p \in Peer, AcceptTimesOut(p) PROVE TypeOK' /\ HasOperands'
  BY <1>10 DEF AcceptTimesOut, Ends, Goto, DropListener, Dropped, Reset, NoEntries
<1>11. ASSUME NEW p \in Peer, Found(p) PROVE TypeOK' /\ HasOperands'
  <2>1. CASE Ends(p, "lookup")
    BY <1>11, <2>1 DEF Found, Ends, Goto, NoEntries
  <2>2. CASE pc' = [pc EXCEPT ![p] = "dial"]
    <3>1. PICK e \in Entry : /\ UNCHANGED <<seen, registry, network>>
            /\ want' = [want EXCEPT ![p] = [name |-> want[p].name,
                               proto |-> want[p].proto, port |-> e.port]]
      BY <1>11, <2>2 DEF Found, Ends, Goto
    <3>2. want[p].name \in Name /\ want[p].proto \in Proto /\ e.port \in Port
      BY <1>11 DEF Found
    <3>3. want'[p] \in [name : Name, proto : Proto, port : Port]
          /\ \A r \in Peer \ {p} : want'[r] = want[r]
      BY <3>1, <3>2
    <3> QED
      BY <2>2, <3>1, <3>3
  <2> QED
    BY <1>11, <2>1, <2>2 DEF Found
<1>12. ASSUME NEW p \in Peer, LookupTimesOut(p) PROVE TypeOK' /\ HasOperands'
  BY <1>12 DEF LookupTimesOut, Ends, Goto, NoEntries
<1>13. ASSUME NEW p \in Peer, Dial(p) PROVE TypeOK' /\ HasOperands'
  <2>1. Ends(p, "dial") /\ UNCHANGED <<registry, listener, crossed>>
    BY <1>13 DEF Dial
  <2>2. want[p].port \in Port /\ want[p].proto \in Proto
    BY <1>13 DEF Dial, Ends, Goto
  <2>3. backlog' \in [Port -> Seq(Proto)]
    <3> DEFINE q == want[p].port
    <3>1. backlog \in [Port -> Seq(Proto)] /\ Append(backlog[q], want[p].proto) \in Seq(Proto)
      BY <2>2
    <3>2. \/ backlog' = [backlog EXCEPT ![q] = Append(backlog[q], want[p].proto)]
          \/ backlog' = backlog
      BY <1>13 DEF Dial
    <3> QED
      BY <3>1, <3>2, <2>2
  <2> QED
    BY <2>1, <2>3 DEF Ends, Goto, NoEntries
<1>14. ASSUME NEW p \in Peer, Kill(p) PROVE TypeOK' /\ HasOperands'
  BY <1>14 DEF Kill, DropListener, Dropped, Reset, NoEntries
<1>15. CASE UNCHANGED vars
  BY <1>15 DEF vars
<1> QED
  BY <1>1, <1>2, <1>3, <1>4, <1>5, <1>6, <1>7, <1>8, <1>9, <1>10, <1>11,
     <1>12, <1>13, <1>14, <1>15, <1>16 DEF NamesNext, Steps

\* Every step keeps the lock discipline.
LEMMA LockStep == NamesInv /\ [NamesNext]_vars => LockHeld' /\ SeenIsCurrent' /\ NoLostName'
<1> DEFINE Goal == LockHeld' /\ SeenIsCurrent' /\ NoLostName'
<1> SUFFICES ASSUME NamesInv, [NamesNext]_vars PROVE Goal
  OBVIOUS
<1> USE DEF NamesInv, LockHeld, SeenIsCurrent, NoLostName, Editing, registry, network
<1>0. pc \in [Peer -> {"idle", "lock", "read", "rename", "blank", "unlock", "accept",
                        "lookup", "dial", "dead"}]
      /\ seen \in [Peer -> Table] /\ lock \in Peer \cup {None}
      /\ None \notin Peer
  BY NamesAssumption DEF TypeOK
<1>1. ASSUME NEW p \in Peer, NEW n \in Name, NEW t \in Proto, Connect(p, n, t)
      PROVE  Goal
  BY <1>0, <1>1 DEF Connect, Goto
<1>2. ASSUME NEW p \in Peer, NEW n \in Name, NEW t \in Proto, NEW q \in Port,
             Listen(p, n, t, q)
      PROVE  Goal
  BY <1>0, <1>2 DEF Listen, Goto
<1>3. ASSUME NEW p \in Peer, Lock(p) PROVE Goal
  BY <1>0, <1>3 DEF Lock, Goto
<1>4. ASSUME NEW p \in Peer, LockTimesOut(p) PROVE Goal
  BY <1>0, <1>4 DEF LockTimesOut, Ends, Goto, TypeOK
<1>5. ASSUME NEW p \in Peer, ReadNames(p) PROVE Goal
  BY <1>0, <1>5 DEF ReadNames, Goto, TypeOK
<1>13. ASSUME NEW p \in Peer, ReadNamesFails(p) PROVE Goal
  BY <1>0, <1>13 DEF ReadNamesFails, Goto, TypeOK
<1>6. ASSUME NEW p \in Peer, Rename(p) PROVE Goal
  <2>1. lock = p /\ file = latest
        /\ seen[p] = IF pc[p] = "blank" THEN NoEntries ELSE file
    BY <1>6 DEF Rename, Goto
  <2>2. NoLostName'
    BY <1>6, <2>1 DEF Rename, Edited
  <2>3. \A r \in Peer : pc'[r] = "unlock" \/ (r # p /\ pc'[r] = pc[r])
    BY <1>0, <1>6 DEF Rename, Goto
  <2>4. \A r \in Peer \ {p} : pc[r] \notin {"rename", "blank"}
    BY <1>0, <2>1
  <2>5. LockHeld'
    BY <1>0, <1>6, <2>1 DEF Rename, Goto
  <2> QED
    BY <2>2, <2>3, <2>4, <2>5
<1>7. ASSUME NEW p \in Peer, RenameFails(p) PROVE Goal
  <2>1. lock = p
    BY <1>7 DEF RenameFails, Ends, Goto
  <2> QED
    BY <1>0, <1>7, <2>1 DEF RenameFails, Ends, Goto, TypeOK
<1>8. ASSUME NEW p \in Peer, Unlock(p) PROVE Goal
  <2>1. lock = p
    BY <1>8 DEF Unlock, Goto
  <2> QED
    BY <1>0, <1>8, <2>1 DEF Unlock, Goto
<1>9. ASSUME NEW p \in Peer, Ends(p, "accept") \/ Ends(p, "lookup") \/ Ends(p, "dial"),
             UNCHANGED registry
      PROVE  Goal
  BY <1>0, <1>9 DEF Ends, Goto, TypeOK
<1>10. ASSUME NEW p \in Peer, Found(p) PROVE Goal
  <2>1. CASE Ends(p, "lookup")
    BY <1>9, <1>10, <2>1 DEF Found
  <2>2. CASE pc' = [pc EXCEPT ![p] = "dial"] /\ UNCHANGED seen
    BY <1>0, <1>10, <2>2 DEF Found
  <2> QED
    BY <1>10, <2>1, <2>2 DEF Found
<1>11. ASSUME NEW p \in Peer, Kill(p) PROVE Goal
  BY <1>0, <1>11 DEF Kill, TypeOK
<1>12. CASE UNCHANGED vars
  BY <1>12 DEF vars
<1> QED
  BY <1>1, <1>2, <1>3, <1>4, <1>5, <1>6, <1>7, <1>8, <1>9, <1>10, <1>11, <1>12, <1>13
     DEF NamesNext, Steps, Accept, AcceptTimesOut, LookupTimesOut, Dial

\* The inductive invariant holds of every reachable state.
THEOREM NamesInductive == NamesSpec => []NamesInv
<1>1. NamesInit => NamesInv
  <2> SUFFICES ASSUME NamesInit PROVE NamesInv
    OBVIOUS
  <2>0. crossed \in BOOLEAN
    BY Zenon DEF NamesInit
  <2>1. TypeOK /\ HasOperands
    BY <2>0 DEF NamesInit, TypeOK, HasOperands, NoEntries, Table
  <2>2. LockHeld /\ SeenIsCurrent /\ NoLostName
    BY DEF NamesInit, LockHeld, SeenIsCurrent, NoLostName, Editing
  <2> QED
    BY <2>1, <2>2 DEF NamesInv
<1>2. NamesInv /\ [NamesNext]_vars => NamesInv'
  BY TypeStep, LockStep DEF NamesInv
<1> QED
  BY <1>1, <1>2, PTL DEF NamesSpec

\* A peer that edits the names file holds the lock file (with_names), for any
\* number of peers and whoever is killed.
THEOREM LockTheorem == NamesSpec => []LockHeld
<1>1. NamesInv => LockHeld
  BY DEF NamesInv
<1> QED
  BY <1>1, NamesInductive, PTL

\* No registration is lost (register), for any number of peers and names.
THEOREM NoLostNameTheorem == NamesSpec => []NoLostName
<1>1. NamesInv => NoLostName
  BY DEF NamesInv
<1> QED
  BY <1>1, NamesInductive, PTL
=============================================================================
