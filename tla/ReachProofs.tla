---------------------------- MODULE ReachProofs ----------------------------
(***************************************************************************)
(* Proofs about what is reached of a drive: the folder tree (FolderTree),  *)
(* internal sharing over it (AccessGrants), public links (ShareLinks) and  *)
(* who is seen looking at a file (Presence), for any number of folders,    *)
(* files, guests, links and sockets.                                       *)
(*                                                                         *)
(* The tree is proved sound for requests that do not overlap and for       *)
(* owners whose habits do not get in each other's way (Orderly); what      *)
(* happens without that is among the hazards.  The invariant says of       *)
(* trashed rows, too, that paths follow parents, and of a request between  *)
(* its reads and its write that what it read still holds.                  *)
(***************************************************************************)
EXTENDS AccessGrants, ShareLinks, Presence, SumProofs, SequenceTheorems

-----------------------------------------------------------------------------
(* Levels of a tree, one after the other, until nothing is added *)

\* The levels of a growing set: level 0 is s, and each level adds step of the one
\* before.  The first n + 1 of them:
LevelsTo(D, step, s, n, h) ==
    /\ h \in [0..n -> SUBSET D] /\ h[0] = s
    /\ \A m \in 1..n : h[m] = h[m - 1] \cup step[h[m - 1]]

LEMMA LevelsToExist ==
    ASSUME NEW D, NEW step \in [SUBSET D -> SUBSET D], NEW s \in SUBSET D, NEW n \in Nat
    PROVE  \E h : LevelsTo(D, step, s, n, h)
<1> DEFINE T == {m \in Nat : ~\E h : LevelsTo(D, step, s, m, h)}
<1> SUFFICES ASSUME T # {} PROVE FALSE
  OBVIOUS
<1>1. PICK m \in T : \A k \in T : m <= k
  <2>1. T \in SUBSET Nat
    OBVIOUS
  <2> HIDE DEF T
  <2> QED BY <2>1, NatMinimum
<1>2. CASE m = 0
  <2>1. LevelsTo(D, step, s, 0, [k \in 0..0 |-> s])
    BY DEF LevelsTo
  <2> QED BY <1>1, <1>2, <2>1
<1>3. CASE m # 0
  <2>1. PICK h : LevelsTo(D, step, s, m - 1, h)
    BY <1>1, <1>3
  <2> DEFINE g == [k \in 0..m |-> IF k = m THEN h[m - 1] \cup step[h[m - 1]] ELSE h[k]]
  <2>2. m \in Nat /\ m >= 1 /\ \A k \in 0..m : k # m => k \in 0..(m - 1)
    BY <1>1, <1>3
  <2>3. h[m - 1] \in SUBSET D /\ h[m - 1] \cup step[h[m - 1]] \in SUBSET D
    BY <2>1, <2>2 DEF LevelsTo
  <2>4. g \in [0..m -> SUBSET D] /\ g[0] = s
    BY <2>1, <2>2, <2>3 DEF LevelsTo
  <2>5. ASSUME NEW k \in 1..m PROVE g[k] = g[k - 1] \cup step[g[k - 1]]
    <3>1. g[k - 1] = h[k - 1]
      BY <2>2
    <3>2. CASE k = m
      BY <2>2, <3>1, <3>2
    <3>3. CASE k # m
      BY <2>1, <2>2, <3>1, <3>3 DEF LevelsTo
    <3> QED BY <3>2, <3>3
  <2> HIDE DEF g
  <2>6. LevelsTo(D, step, s, m, g)
    BY <2>4, <2>5 DEF LevelsTo
  <2> QED BY <1>1, <2>6
<1> QED BY <1>2, <1>3

LEMMA LevelsToAgree ==
    ASSUME NEW D, NEW step, NEW s, NEW n \in Nat, NEW k \in Nat, NEW g, NEW h,
           LevelsTo(D, step, s, n, g), LevelsTo(D, step, s, k, h), n <= k
    PROVE  g[n] = h[n]
<1> DEFINE T == {m \in Nat : m <= n /\ g[m] # h[m]}
<1> SUFFICES ASSUME T # {} PROVE FALSE
  OBVIOUS
<1>1. PICK m \in T : \A j \in T : m <= j
  <2>1. T \in SUBSET Nat
    OBVIOUS
  <2> HIDE DEF T
  <2> QED BY <2>1, NatMinimum
<1>2. m # 0
  BY <1>1 DEF LevelsTo
<1>3. g[m - 1] = h[m - 1]
  BY <1>1, <1>2
<1>4. m \in 1..n /\ m \in 1..k
  BY <1>1, <1>2
<1>5. g[m] = g[m - 1] \cup step[g[m - 1]] /\ h[m] = h[m - 1] \cup step[h[m - 1]]
  BY <1>4 DEF LevelsTo
<1> QED BY <1>1, <1>3, <1>5

\* All of them.
AllLevels(step, s, g) == g = [n \in Nat |-> IF n = 0 THEN s ELSE g[n - 1] \cup step[g[n - 1]]]

LEMMA LevelsExist ==
    ASSUME NEW D, NEW step \in [SUBSET D -> SUBSET D], NEW s \in SUBSET D
    PROVE  \E g \in [Nat -> SUBSET D] : AllLevels(step, s, g)
<1> DEFINE H(n) == CHOOSE h : LevelsTo(D, step, s, n, h)
           g == [n \in Nat |-> H(n)[n]]
<1>1. \A n \in Nat : LevelsTo(D, step, s, n, H(n))
  BY LevelsToExist
<1> HIDE DEF H
<1>2. g \in [Nat -> SUBSET D]
  BY <1>1 DEF LevelsTo
<1>3. g[0] = s
  BY <1>1 DEF LevelsTo
<1>4. ASSUME NEW n \in Nat, n # 0 PROVE g[n] = g[n - 1] \cup step[g[n - 1]]
  <2>1. n - 1 \in Nat /\ n \in 1..n
    BY <1>4
  <2>2. H(n)[n] = H(n)[n - 1] \cup step[H(n)[n - 1]]
    BY <1>1, <2>1 DEF LevelsTo
  <2>3. H(n - 1)[n - 1] = H(n)[n - 1]
    BY <1>1, <2>1, LevelsToAgree
  <2> QED BY <2>1, <2>2, <2>3
<1>5. g = [n \in Nat |-> IF n = 0 THEN s ELSE g[n - 1] \cup step[g[n - 1]]]
  BY <1>3, <1>4
<1> HIDE DEF g
<1> QED BY <1>2, <1>5 DEF AllLevels

\* In a finite set they stop growing after as many levels as it has elements.
LEMMA LevelsClose ==
    ASSUME NEW D, IsFiniteSet(D), NEW level \in [Nat -> SUBSET D],
           \A n \in Nat : level[n] \subseteq level[n + 1],
           \A m, n \in Nat : level[m] = level[n] => level[m + 1] = level[n + 1]
    PROVE  level[Cardinality(D) + 1] = level[Cardinality(D)]
<1> DEFINE c == Cardinality(D)
<1>1. c \in Nat
  BY FS_CardinalityType
<1> HIDE DEF c
<1> SUFFICES ASSUME level[c + 1] # level[c] PROVE FALSE
  BY DEF c
<1>2. ASSUME NEW n \in Nat, n <= c PROVE level[n + 1] # level[n]
  <2> DEFINE T == {m \in Nat : m >= n /\ level[m + 1] # level[m]}
  <2>1. SUFFICES ASSUME level[n + 1] = level[n] PROVE FALSE
    OBVIOUS
  <2>2. PICK m \in T : \A j \in T : m <= j
    <3>1. T \in SUBSET Nat /\ T # {}
      BY <1>1, <1>2
    <3> HIDE DEF T
    <3> QED BY <3>1, NatMinimum
  <2>3. m > n /\ m - 1 \in Nat
    BY <2>1, <2>2
  <2>4. level[(m - 1) + 1] = level[m - 1]
    BY <2>2, <2>3
  <2>5. level[m] = level[m - 1]
    BY <2>3, <2>4
  <2>6. level[m + 1] = level[(m - 1) + 1]
    BY <2>2, <2>3, <2>5
  <2> QED BY <2>2, <2>4, <2>5, <2>6
<1> DEFINE T == {n \in Nat : n <= c + 1 /\ ~(Cardinality(level[n]) >= n)}
<1>3. \A n \in Nat : IsFiniteSet(level[n]) /\ Cardinality(level[n]) \in Nat /\ Cardinality(level[n]) <= c
  BY FS_Subset, FS_CardinalityType DEF c
<1>4. T = {}
  <2>1. SUFFICES ASSUME T # {} PROVE FALSE
    OBVIOUS
  <2>2. PICK n \in T : \A j \in T : n <= j
    <3>1. T \in SUBSET Nat
      OBVIOUS
    <3> HIDE DEF T
    <3> QED BY <2>1, <3>1, NatMinimum
  <2>3. n # 0 /\ n - 1 \in Nat /\ n - 1 <= c
    BY <1>1, <1>3, <2>2
  <2>4. Cardinality(level[n - 1]) >= n - 1
    BY <1>1, <2>2, <2>3
  <2>5. level[(n - 1) + 1] # level[n - 1] /\ level[n - 1] \subseteq level[(n - 1) + 1] /\ (n - 1) + 1 = n
    BY <1>2, <2>2, <2>3
  <2>6. level[n - 1] \in SUBSET level[n] /\ level[n - 1] # level[n]
    BY <2>5
  <2>7. Cardinality(level[n - 1]) <= Cardinality(level[n]) /\ Cardinality(level[n - 1]) # Cardinality(level[n])
    BY <1>3, <2>2, <2>6, FS_Subset
  <2> QED BY <1>3, <2>2, <2>3, <2>4, <2>7
<1> QED BY <1>1, <1>3, <1>4

-----------------------------------------------------------------------------
\* The levels of Up(p), which stop growing: it is closed under parents.
LEMMA UpLevels ==
    ASSUME \A d \in Rows : folder[d].parent \in Rows \cup {Root}, NEW p \in Rows \cup {Root}
    PROVE \E level \in [Nat -> SUBSET Rows] :
            /\ Up(p) = level[Cardinality(Folders)] /\ level[0] = {p} \ {Root}
            /\ \A n \in Nat : level[n + 1] = level[n] \cup ({folder[d].parent : d \in level[n]} \ {Root})
<1>1. PICK D, s, step : /\ D = Rows /\ s = {p} \ {Root}
                        /\ step = [t \in SUBSET D |-> {folder[d].parent : d \in t} \ {Root}]
  OBVIOUS
<1>2. step \in [SUBSET D -> SUBSET D] /\ s \in SUBSET D
  BY <1>1
<1>3. PICK g \in [Nat -> SUBSET D] : AllLevels(step, s, g)
  BY <1>2, LevelsExist
<1>4. ASSUME NEW n \in Nat, n # 0
      PROVE  g[n - 1] \cup step[g[n - 1]] = g[n - 1] \cup ({folder[d].parent : d \in g[n - 1]} \ {Root})
  <2>1. PICK t : t = g[n - 1]
    OBVIOUS
  <2>2. n - 1 \in Nat
    BY <1>4
  <2>3. t \in SUBSET D
    BY <1>3, <2>1, <2>2
  <2>4. step[t] = {folder[d].parent : d \in t} \ {Root}
    BY <1>1, <2>3
  <2> QED BY <2>1, <2>4
<1> DEFINE Equation(l) == l = [n \in Nat |-> IF n = 0 THEN {p} \ {Root}
                         ELSE l[n - 1] \cup ({folder[d].parent : d \in l[n - 1]} \ {Root})]
<1>5. Equation(g)
  BY <1>1, <1>3, <1>4 DEF AllLevels
<1> DEFINE level == CHOOSE l : Equation(l)
<1>6. Up(p) = level[Cardinality(Folders)]
  BY DEF Up
<1>7. PICK l : l = level
  OBVIOUS
<1>8. Equation(l)
  <2> HIDE DEF Equation
  <2> QED BY <1>5, <1>7
<1> HIDE DEF level
<1>9. ASSUME NEW n \in Nat PROVE l[n + 1] = l[n] \cup ({folder[d].parent : d \in l[n]} \ {Root})
  <2>1. n + 1 \in Nat /\ n + 1 # 0 /\ (n + 1) - 1 = n
    OBVIOUS
  <2> QED BY <1>8, <2>1
<1>10. l[0] = {p} \ {Root} /\ DOMAIN l = Nat
  BY <1>8
<1>11. \A n \in Nat : l[n] \in SUBSET Rows
  <2> DEFINE T == {n \in Nat : l[n] \notin SUBSET Rows}
  <2> SUFFICES ASSUME T # {} PROVE FALSE
    OBVIOUS
  <2>1. PICK m \in T : \A j \in T : m <= j
    <3>1. T \in SUBSET Nat
      OBVIOUS
    <3> HIDE DEF T
    <3> QED BY <3>1, NatMinimum
  <2>2. m # 0
    BY <1>10, <2>1
  <2>3. m - 1 \in Nat /\ (m - 1) + 1 = m /\ l[m - 1] \in SUBSET Rows
    BY <2>1, <2>2
  <2>4. l[(m - 1) + 1] \in SUBSET Rows
    BY <1>9, <2>3
  <2> QED BY <2>1, <2>3, <2>4
<1>12. l \in [Nat -> SUBSET Rows]
  <2>1. l = [n \in Nat |-> l[n]]
    BY <1>8
  <2> QED BY <1>11, <2>1
<1> QED BY <1>6, <1>7, <1>9, <1>10, <1>12

\* The folders on the way up from p: p, the parents of its members, and no more.
ParentsExist == \A d \in Rows : folder[d].parent \in Rows \cup {Root}

LEMMA UpClosed ==
    ASSUME ParentsExist, NEW p \in Rows \cup {Root}
    PROVE  /\ Up(p) \subseteq Rows /\ (p # Root => p \in Up(p))
           /\ \A d \in Up(p) : folder[d].parent \in Up(p) \cup {Root}
<1>1. PICK level \in [Nat -> SUBSET Rows] :
            /\ Up(p) = level[Cardinality(Folders)] /\ level[0] = {p} \ {Root}
            /\ \A n \in Nat : level[n + 1] = level[n] \cup ({folder[d].parent : d \in level[n]} \ {Root})
  BY UpLevels DEF ParentsExist
<1>2. Cardinality(Folders) \in Nat
  BY TreeAssumption, FS_CardinalityType
<1>3. level[Cardinality(Folders) + 1] = level[Cardinality(Folders)]
  <2>1. level \in [Nat -> SUBSET Folders]
    BY DEF Rows
  <2>2. \A m, n \in Nat : level[m] = level[n] => level[m + 1] = level[n + 1]
    BY <1>1
  <2>3. \A n \in Nat : level[n] \subseteq level[n + 1]
    BY <1>1
  <2> QED BY <2>1, <2>2, <2>3, TreeAssumption, LevelsClose
<1>4. {folder[d].parent : d \in Up(p)} \ {Root} \subseteq Up(p)
  BY <1>1, <1>2, <1>3
<1>5. \A n \in Nat : level[0] \subseteq level[n]
  <2> DEFINE T == {n \in Nat : ~(level[0] \subseteq level[n])}
  <2> SUFFICES ASSUME T # {} PROVE FALSE
    OBVIOUS
  <2>1. PICK m \in T : \A j \in T : m <= j
    <3>1. T \in SUBSET Nat
      OBVIOUS
    <3> HIDE DEF T
    <3> QED BY <3>1, NatMinimum
  <2>2. m # 0 /\ m - 1 \in Nat /\ (m - 1) + 1 = m
    BY <2>1
  <2>3. level[0] \subseteq level[m - 1]
    BY <2>1, <2>2
  <2>4. level[m - 1] \subseteq level[(m - 1) + 1]
    BY <1>1, <2>2
  <2> QED BY <2>1, <2>2, <2>3, <2>4
<1>6. Up(p) \subseteq Rows
  BY <1>1, <1>2
<1> QED BY <1>1, <1>2, <1>4, <1>5, <1>6 DEF ParentsExist

LEMMA UpLeast ==
    ASSUME ParentsExist, NEW p \in Rows \cup {Root}, NEW T, p \in T \cup {Root},
           \A d \in T \cap Rows : folder[d].parent \in T \cup {Root}
    PROVE  Up(p) \subseteq T
<1>1. PICK level \in [Nat -> SUBSET Rows] :
            /\ Up(p) = level[Cardinality(Folders)] /\ level[0] = {p} \ {Root}
            /\ \A n \in Nat : level[n + 1] = level[n] \cup ({folder[d].parent : d \in level[n]} \ {Root})
  BY UpLevels DEF ParentsExist
<1>2. Cardinality(Folders) \in Nat
  BY TreeAssumption, FS_CardinalityType
<1> DEFINE M == {n \in Nat : ~(level[n] \subseteq T)}
<1>3. SUFFICES ASSUME M # {} PROVE FALSE
  BY <1>1, <1>2
<1>4. PICK m \in M : \A j \in M : m <= j
  <2>1. M \in SUBSET Nat
    OBVIOUS
  <2> HIDE DEF M
  <2> QED BY <1>3, <2>1, NatMinimum
<1>5. m # 0 /\ m - 1 \in Nat /\ (m - 1) + 1 = m
  BY <1>1, <1>4
<1>6. level[m - 1] \subseteq T /\ level[m - 1] \subseteq Rows
  BY <1>4, <1>5
<1>7. level[(m - 1) + 1] = level[m - 1] \cup ({folder[d].parent : d \in level[m - 1]} \ {Root})
  BY <1>1, <1>5
<1>8. level[(m - 1) + 1] \subseteq T
  BY <1>6, <1>7
<1> QED BY <1>4, <1>5, <1>8

-----------------------------------------------------------------------------
\* The same of the folders below ds.
LEMMA SubtreeLevels ==
    ASSUME NEW ds \in SUBSET Rows
    PROVE \E level \in [Nat -> SUBSET Rows] :
            /\ Subtree(ds) = level[Cardinality(Folders)] /\ level[0] = ds
            /\ \A n \in Nat : level[n + 1] = level[n] \cup {d \in Rows : folder[d].parent \in level[n]}
<1>1. PICK D, s, step : /\ D = Rows /\ s = ds
                        /\ step = [t \in SUBSET D |-> {d \in D : folder[d].parent \in t}]
  OBVIOUS
<1>2. step \in [SUBSET D -> SUBSET D] /\ s \in SUBSET D
  BY <1>1
<1>3. PICK g \in [Nat -> SUBSET D] : AllLevels(step, s, g)
  BY <1>2, LevelsExist
<1>4. ASSUME NEW n \in Nat, n # 0
      PROVE  g[n - 1] \cup step[g[n - 1]] = g[n - 1] \cup {d \in Rows : folder[d].parent \in g[n - 1]}
  <2>1. PICK t : t = g[n - 1]
    OBVIOUS
  <2>2. n - 1 \in Nat
    BY <1>4
  <2>3. t \in SUBSET D
    BY <1>3, <2>1, <2>2
  <2>4. step[t] = {d \in Rows : folder[d].parent \in t}
    BY <1>1, <2>3
  <2> QED BY <2>1, <2>4
<1> DEFINE Equation(l) == l = [n \in Nat |-> IF n = 0 THEN ds
                         ELSE l[n - 1] \cup {d \in Rows : folder[d].parent \in l[n - 1]}]
<1>5. Equation(g)
  BY <1>1, <1>3, <1>4 DEF AllLevels
<1> DEFINE level == CHOOSE l : Equation(l)
<1>6. Subtree(ds) = level[Cardinality(Folders)]
  BY DEF Subtree
<1>7. PICK l : l = level
  OBVIOUS
<1>8. Equation(l)
  <2> HIDE DEF Equation
  <2> QED BY <1>5, <1>7
<1> HIDE DEF level
<1>9. ASSUME NEW n \in Nat PROVE l[n + 1] = l[n] \cup {d \in Rows : folder[d].parent \in l[n]}
  <2>1. n + 1 \in Nat /\ n + 1 # 0 /\ (n + 1) - 1 = n
    OBVIOUS
  <2> QED BY <1>8, <2>1
<1>10. l[0] = ds /\ DOMAIN l = Nat
  BY <1>8
<1>11. \A n \in Nat : l[n] \in SUBSET Rows
  <2> DEFINE T == {n \in Nat : l[n] \notin SUBSET Rows}
  <2> SUFFICES ASSUME T # {} PROVE FALSE
    OBVIOUS
  <2>1. PICK m \in T : \A j \in T : m <= j
    <3>1. T \in SUBSET Nat
      OBVIOUS
    <3> HIDE DEF T
    <3> QED BY <3>1, NatMinimum
  <2>2. m # 0
    BY <1>10, <2>1
  <2>3. m - 1 \in Nat /\ (m - 1) + 1 = m /\ l[m - 1] \in SUBSET Rows
    BY <2>1, <2>2
  <2>4. l[(m - 1) + 1] \in SUBSET Rows
    BY <1>9, <2>3
  <2> QED BY <2>1, <2>3, <2>4
<1>12. l \in [Nat -> SUBSET Rows]
  <2>1. l = [n \in Nat |-> l[n]]
    BY <1>8
  <2> QED BY <1>11, <2>1
<1> QED BY <1>6, <1>7, <1>9, <1>10, <1>12

LEMMA SubtreeClosed ==
    ASSUME NEW ds \in SUBSET Rows
    PROVE  /\ ds \subseteq Subtree(ds) /\ Subtree(ds) \subseteq Rows
           /\ \A d \in Rows : folder[d].parent \in Subtree(ds) => d \in Subtree(ds)
<1>1. PICK level \in [Nat -> SUBSET Rows] :
            /\ Subtree(ds) = level[Cardinality(Folders)] /\ level[0] = ds
            /\ \A n \in Nat : level[n + 1] = level[n] \cup {d \in Rows : folder[d].parent \in level[n]}
  BY SubtreeLevels
<1>2. Cardinality(Folders) \in Nat
  BY TreeAssumption, FS_CardinalityType
<1>3. level[Cardinality(Folders) + 1] = level[Cardinality(Folders)]
  <2>1. level \in [Nat -> SUBSET Folders]
    BY DEF Rows
  <2>2. \A m, n \in Nat : level[m] = level[n] => level[m + 1] = level[n + 1]
    BY <1>1
  <2>3. \A n \in Nat : level[n] \subseteq level[n + 1]
    BY <1>1
  <2> QED BY <2>1, <2>2, <2>3, TreeAssumption, LevelsClose
<1>4. {d \in Rows : folder[d].parent \in Subtree(ds)} \subseteq Subtree(ds)
  BY <1>1, <1>2, <1>3
<1>5. \A n \in Nat : ds \subseteq level[n]
  <2> DEFINE T == {n \in Nat : ~(ds \subseteq level[n])}
  <2> SUFFICES ASSUME T # {} PROVE FALSE
    OBVIOUS
  <2>1. PICK m \in T : \A j \in T : m <= j
    <3>1. T \in SUBSET Nat
      OBVIOUS
    <3> HIDE DEF T
    <3> QED BY <3>1, NatMinimum
  <2>2. m # 0 /\ m - 1 \in Nat /\ (m - 1) + 1 = m
    BY <1>1, <2>1
  <2>3. ds \subseteq level[m - 1]
    BY <2>1, <2>2
  <2>4. level[m - 1] \subseteq level[(m - 1) + 1]
    BY <1>1, <2>2
  <2> QED BY <2>1, <2>2, <2>3, <2>4
<1>6. Subtree(ds) \subseteq Rows
  BY <1>1, <1>2
<1> QED BY <1>1, <1>2, <1>4, <1>5, <1>6

LEMMA SubtreeLeast ==
    ASSUME NEW ds \in SUBSET Rows, NEW T, ds \subseteq T, \A d \in Rows : folder[d].parent \in T => d \in T
    PROVE  Subtree(ds) \subseteq T
<1>1. PICK level \in [Nat -> SUBSET Rows] :
            /\ Subtree(ds) = level[Cardinality(Folders)] /\ level[0] = ds
            /\ \A n \in Nat : level[n + 1] = level[n] \cup {d \in Rows : folder[d].parent \in level[n]}
  BY SubtreeLevels
<1>2. Cardinality(Folders) \in Nat
  BY TreeAssumption, FS_CardinalityType
<1> DEFINE M == {n \in Nat : ~(level[n] \subseteq T)}
<1>3. SUFFICES ASSUME M # {} PROVE FALSE
  BY <1>1, <1>2
<1>4. PICK m \in M : \A j \in M : m <= j
  <2>1. M \in SUBSET Nat
    OBVIOUS
  <2> HIDE DEF M
  <2> QED BY <1>3, <2>1, NatMinimum
<1>5. m # 0 /\ m - 1 \in Nat /\ (m - 1) + 1 = m
  BY <1>1, <1>4
<1>6. level[m - 1] \subseteq T /\ level[m - 1] \subseteq Rows
  BY <1>4, <1>5
<1>7. level[(m - 1) + 1] = level[m - 1] \cup {d \in Rows : folder[d].parent \in level[m - 1]}
  BY <1>1, <1>5
<1>8. level[(m - 1) + 1] \subseteq T
  BY <1>6, <1>7
<1> QED BY <1>4, <1>5, <1>8

-----------------------------------------------------------------------------
(* The invariant of the tree *)

\* The workloads meant: one request decides and writes before the next decides, no
\* folder is renamed and no batch restored where a trashed name is taken again, and
\* nothing is restored with its folders where kinds share trashed names.
Orderly ==
    /\ InFlight <= 1
    /\ \A h \in Habits : /\ "reuse" \in h => h \cap {"rename", "batch"} = {}
                         /\ "cross" \in h => h \cap {"deep", "batch"} = {}

\* Rows, of their types, in folders that exist.
TreeShape ==
    /\ folder \in [Folders -> FolderRow \cup {None}] /\ file \in [Files -> FileRow \cup {None}]
    /\ ParentsExist /\ \A f \in FileRows : file[f].parent \in Rows \cup {Root}
    /\ habits \in Habits

\* Paths follow parents, in the trash too.
PathsFollow == \A d \in Rows : folder[d].path = Join(folder[d].parent, folder[d].name)

\* Rows are told apart by parent and name, as far as the owner keeps to it.
SamePlace(row, beside) == row.parent = beside.parent /\ row.name = beside.name
NamesApart ==
    /\ "reuse" \in habits \/ \A d, e \in Rows : SamePlace(folder[d], folder[e]) => d = e
    /\ "cross" \in habits \/ \A d \in Rows, f \in FileRows : ~SamePlace(folder[d], file[f])

\* What was decided still holds when it is written.
MakeDue(w) ==
    \E d \in Folders, p \in Live \cup {Root}, name \in Names :
       /\ w = [op |-> "make", id |-> d, parent |-> p, name |-> name, path |-> Join(p, name)]
       /\ folder[d] = None /\ MayNameFolder(p, name)
       /\ ~PathTaken(Join(p, name), {}) /\ ~FileClash(p, name, {})
MoveDue(w) ==
    \E d \in Rows, p \in Rows \cup {Root}, name \in Names :
       /\ w = [op |-> "move", id |-> d, parent |-> p, name |-> name,
               old |-> folder[d].path, path |-> Join(p, name)]
       /\ "rename" \in habits
       /\ p # folder[d].parent =>
            p \in Live \cup {Root} /\ p # d /\ ~Under(folder[d].path, PathOf(p))
       /\ <<p, name>> # <<folder[d].parent, folder[d].name>> =>
            MayNameFolder(p, name) /\ ~FileClash(p, name, {})
TrashDue(w) == \E d \in Rows : w = [op |-> "trash", id |-> d, path |-> folder[d].path]
AddDue(w) ==
    \E f \in Files, p \in Live \cup {Root}, name \in Names \cup {Suffixed} :
       /\ w = [op |-> "add", id |-> f, parent |-> p, name |-> name]
       /\ file[f] = None /\ MayNameFile(p, name) /\ ~FolderClash(p, name)
MoveFileDue(w) ==
    \E f \in LiveFiles, p \in Parents, name \in Names :
       /\ w = [op |-> "movefile", id |-> f,
               parent |-> IF p = file[f].parent THEN None ELSE p,
               name |-> IF name = file[f].name THEN None ELSE name]
       /\ p # file[f].parent => p \in Live \cup {Root}
       /\ <<p, name>> # <<file[f].parent, file[f].name>> => MayNameFile(p, name) /\ ~FolderClash(p, name)
TrashFileDue(w) == \E f \in LiveFiles : w = [op |-> "trashfile", id |-> f]
RestoreDue(w) ==
    \E ds \in SUBSET (Rows \ Live), fs \in SUBSET (FileRows \ LiveFiles) :
       /\ Cardinality(ds \cup fs) > 1 => "batch" \in habits
       /\ RestoredFolders(ds, fs) # ds => "deep" \in habits
       /\ w = [op |-> "restore",
               folders |-> RestoredFolders({d \in ds : FolderRestorable(d)}, {f \in fs : FileRestorable(f)}),
               files |-> {f \in fs : FileRestorable(f)}]
PurgeDue(w) ==
    \/ \E sweep \in BOOLEAN : w = [op |-> "purge", files |-> PurgedFiles(sweep), folders |-> Deletable(sweep)]
    \/ \E f \in FileRows \ LiveFiles : w = [op |-> "purge", files |-> {f}, folders |-> {}]
Pending ==
    \/ todo = {}
    \/ \E w : /\ todo = {w}
              /\ \/ MakeDue(w) \/ MoveDue(w) \/ TrashDue(w) \/ AddDue(w) \/ MoveFileDue(w)
                 \/ TrashFileDue(w) \/ RestoreDue(w) \/ PurgeDue(w)

TreeInv == TreeShape /\ PathsFollow /\ NamesApart /\ Reachable /\ OneOfAName

-----------------------------------------------------------------------------
(* Paths *)

\* What lies below a path: what was appended to it or to something below it.
LEMMA UnderAppend ==
    ASSUME NEW S, NEW p \in Seq(S), NEW q \in Seq(S), NEW x \in S
    PROVE  /\ Append(q, x) \in Seq(S) /\ Len(Append(q, x)) = Len(q) + 1
           /\ Under(p, Append(q, x)) <=> q = p \/ Under(p, q)
           /\ Under(p, q) => Len(q) > Len(p)
<1> DEFINE a == Append(q, x)
<1>1. a \in Seq(S) /\ Len(a) = Len(q) + 1 /\ \A i \in 1..Len(q) : a[i] = q[i]
  OBVIOUS
<1>2. ASSUME NEW r \in Seq(S)
      PROVE Under(p, r) <=> Len(r) > Len(p) /\ \A i \in 1..Len(p) : r[i] = p[i]
  <2>1. CASE Len(r) > Len(p)
    <3>1. /\ SubSeq(r, 1, Len(p)) \in Seq(S) /\ Len(SubSeq(r, 1, Len(p))) = Len(p)
          /\ \A i \in 1..Len(p) : SubSeq(r, 1, Len(p))[i] = r[i]
      BY <2>1
    <3>2. SubSeq(r, 1, Len(p)) = p <=> \A i \in 1..Len(p) : r[i] = p[i]
      BY <3>1, SeqEqual
    <3> QED BY <2>1, <3>2 DEF Under
  <2>2. CASE ~(Len(r) > Len(p))
    BY <2>2 DEF Under
  <2> QED BY <2>1, <2>2
<1>3. q = p <=> Len(q) = Len(p) /\ \A i \in 1..Len(p) : q[i] = p[i]
  BY SeqEqual
<1> HIDE DEF a
<1>4. Under(p, a) <=> Len(a) > Len(p) /\ \A i \in 1..Len(p) : a[i] = p[i]
  BY <1>1, <1>2
<1>5. Under(p, q) <=> Len(q) > Len(p) /\ \A i \in 1..Len(p) : q[i] = p[i]
  BY <1>2
<1>6. Len(p) \in Nat /\ Len(q) \in Nat
  OBVIOUS
<1>7. Under(p, a) <=> q = p \/ Under(p, q)
  <2>1. CASE Len(q) >= Len(p)
    <3>1. \A i \in 1..Len(p) : a[i] = q[i]
      BY <1>1, <1>6, <2>1
    <3> QED BY <1>1, <1>3, <1>4, <1>5, <1>6, <2>1, <3>1
  <2>2. CASE ~(Len(q) >= Len(p))
    BY <1>1, <1>3, <1>4, <1>5, <1>6, <2>2
  <2> QED BY <2>1, <2>2
<1> QED BY <1>1, <1>5, <1>7 DEF a

LEMMA AppendShape ==
    ASSUME NEW S, NEW s \in Seq(S), NEW t \in Seq(S), NEW x \in S, Len(t) = Len(s) + 1,
           t[Len(s) + 1] = x, \A i \in 1..Len(s) : t[i] = s[i]
    PROVE  t = Append(s, x)
<1>1. /\ Append(s, x) \in Seq(S) /\ Len(Append(s, x)) = Len(s) + 1 /\ Append(s, x)[Len(s) + 1] = x
      /\ \A i \in 1..Len(s) : Append(s, x)[i] = s[i]
  BY AppendProperties
<1>2. \A i \in 1..Len(t) : i = Len(s) + 1 \/ i \in 1..Len(s)
  OBVIOUS
<1> QED BY <1>1, <1>2, SeqEqual

\* A path with its beginning exchanged.
Rebased(new, old, q) == new \o SubSeq(q, Len(old) + 1, Len(q))

LEMMA RebasedAppend ==
    ASSUME NEW S, NEW new \in Seq(S), NEW old \in Seq(S), NEW q \in Seq(S), NEW x \in S
    PROVE  /\ Rebased(new, old, q) \in Seq(S)
           /\ Rebased(new, old, old) = new
           /\ Len(q) >= Len(old) => Rebased(new, old, Append(q, x)) = Append(Rebased(new, old, q), x)
<1>1. /\ SubSeq(q, Len(old) + 1, Len(q)) \in Seq(S)
      /\ Rebased(new, old, q) \in Seq(S)
  BY DEF Rebased
<1>2. Rebased(new, old, old) = new
  <2>1. SubSeq(old, Len(old) + 1, Len(old)) = <<>>
    BY SubSeqEmpty
  <2> QED BY <2>1, ConcatEmptySeq DEF Rebased
<1>3. ASSUME Len(q) >= Len(old) PROVE Rebased(new, old, Append(q, x)) = Append(Rebased(new, old, q), x)
  <2> DEFINE a == Append(q, x)
             s == SubSeq(q, Len(old) + 1, Len(q))
             t == SubSeq(a, Len(old) + 1, Len(a))
  <2>1. /\ a \in Seq(S) /\ Len(a) = Len(q) + 1 /\ a[Len(q) + 1] = x /\ \A i \in 1..Len(q) : a[i] = q[i]
        /\ Len(old) \in Nat /\ Len(q) \in Nat
    OBVIOUS
  <2>2. /\ s \in Seq(S) /\ Len(s) = Len(q) - Len(old) /\ \A i \in 1..Len(s) : s[i] = q[Len(old) + i]
    BY <1>3, <2>1
  <2> HIDE DEF a, s
  <2>3. /\ t \in Seq(S) /\ Len(t) = Len(q) + 1 - Len(old) /\ \A i \in 1..Len(t) : t[i] = a[Len(old) + i]
    BY <1>3, <2>1
  <2> HIDE DEF t
  <2>4. Append(s, x) \in Seq(S) /\ Len(Append(s, x)) = Len(s) + 1 /\ Append(s, x)[Len(s) + 1] = x
        /\ \A i \in 1..Len(s) : Append(s, x)[i] = s[i]
    BY <2>2
  <2>5. t = Append(s, x)
    <3>0. Len(s) \in Nat /\ Len(t) = Len(s) + 1 /\ Len(old) + Len(s) = Len(q)
      BY <1>3, <2>1, <2>2, <2>3
    <3>1. t[Len(s) + 1] = x
      <4>1. Len(s) + 1 \in 1..Len(t) /\ Len(old) + (Len(s) + 1) = Len(q) + 1
        BY <2>1, <3>0
      <4> QED BY <2>1, <2>3, <4>1
    <3>2. ASSUME NEW i \in Nat, i \in 1..Len(s) PROVE t[i] = s[i]
      <4>1. i \in 1..Len(t) /\ Len(old) + i \in 1..Len(q)
        BY <2>1, <3>0, <3>2
      <4> QED BY <2>1, <2>2, <2>3, <3>2, <4>1
    <3>3. \A i \in 1..Len(s) : t[i] = s[i]
      <4> SUFFICES ASSUME NEW i \in 1..Len(s) PROVE t[i] = s[i]
        OBVIOUS
      <4>1. i \in Nat
        BY <3>0
      <4> QED BY <3>2, <4>1
    <3>4. s \in Seq(S) /\ t \in Seq(S) /\ Len(t) = Len(s) + 1
      BY <2>2, <2>3, <3>0
    <3> QED BY <3>1, <3>3, <3>4, AppendShape
  <2>6. new \o Append(s, x) = Append(new \o s, x)
    <3>1. Append(s, x) = s \o <<x>> /\ Append(new \o s, x) = (new \o s) \o <<x>> /\ <<x>> \in Seq(S)
      BY <2>2, AppendIsConcat
    <3> QED BY <2>2, <3>1, ConcatAssociative
  <2> QED BY <2>5, <2>6 DEF Rebased, t, a, s
<1> QED BY <1>1, <1>2, <1>3

-----------------------------------------------------------------------------
(* The tree *)

\* What holds of any rows fo whose paths follow their parents; stated of a function,
\* so that it can be used before and after a step.
RowsOf(fo) == {d \in Folders : fo[d] # None}
PathIn(fo, p) == IF p = Root THEN <<>> ELSE fo[p].path
Grown(fo) ==
    \A d \in RowsOf(fo) :
       /\ fo[d].parent \in RowsOf(fo) \cup {Root} /\ fo[d].name \in Names /\ fo[d].path \in Seq(Names)
       /\ fo[d].path = Append(PathIn(fo, fo[d].parent), fo[d].name)

LEMMA PathLonger ==
    ASSUME NEW fo, Grown(fo), NEW d \in RowsOf(fo)
    PROVE  /\ PathIn(fo, fo[d].parent) \in Seq(Names) /\ Len(PathIn(fo, fo[d].parent)) \in Nat
           /\ Len(fo[d].path) = Len(PathIn(fo, fo[d].parent)) + 1
           /\ \A p \in Seq(Names) :
                 Under(p, fo[d].path) <=> PathIn(fo, fo[d].parent) = p \/ Under(p, PathIn(fo, fo[d].parent))
<1>1. PICK q, x : q = PathIn(fo, fo[d].parent) /\ x = fo[d].name
  OBVIOUS
<1>2. q \in Seq(Names) /\ x \in Names
  BY <1>1 DEF Grown, PathIn
<1>3. fo[d].path = Append(q, x)
  BY <1>1 DEF Grown
<1> QED BY <1>1, <1>2, <1>3, UnderAppend

\* Where rows are told apart by parent and name, their paths tell them apart.
LEMMA PathsDiffer ==
    ASSUME NEW fo, Grown(fo), \A d, e \in RowsOf(fo) : SamePlace(fo[d], fo[e]) => d = e
    PROVE  \A d, e \in RowsOf(fo) : fo[d].path = fo[e].path => d = e
<1> DEFINE M == {n \in Nat : \E d, e \in RowsOf(fo) : d # e /\ fo[d].path = fo[e].path /\ Len(fo[d].path) = n}
<1>1. SUFFICES ASSUME M # {} PROVE FALSE
  <2>1. \A d \in RowsOf(fo) : Len(fo[d].path) \in Nat
    BY DEF Grown
  <2> QED BY <2>1
<1>2. PICK m \in M : \A n \in M : m <= n
  <2>1. M \in SUBSET Nat
    OBVIOUS
  <2> HIDE DEF M
  <2> QED BY <1>1, <2>1, NatMinimum
<1>3. PICK d \in RowsOf(fo), e \in RowsOf(fo) : d # e /\ fo[d].path = fo[e].path /\ Len(fo[d].path) = m
  BY <1>2
<1>4. PICK p, q : p = fo[d].parent /\ q = fo[e].parent
  OBVIOUS
<1>5. /\ PathIn(fo, p) \in Seq(Names) /\ Len(fo[d].path) = Len(PathIn(fo, p)) + 1 /\ Len(PathIn(fo, p)) \in Nat
      /\ PathIn(fo, q) \in Seq(Names) /\ Len(fo[e].path) = Len(PathIn(fo, q)) + 1
  BY <1>4, PathLonger
<1>6. /\ fo[d].path = Append(PathIn(fo, p), fo[d].name) /\ fo[e].path = Append(PathIn(fo, q), fo[e].name)
      /\ fo[d].name \in Names /\ fo[e].name \in Names
      /\ p \in RowsOf(fo) \cup {Root} /\ q \in RowsOf(fo) \cup {Root}
  BY <1>4 DEF Grown
<1>7. PathIn(fo, p) = PathIn(fo, q) /\ fo[d].name = fo[e].name
  <2>1. PICK s, t, x, y : s = PathIn(fo, p) /\ t = PathIn(fo, q) /\ x = fo[d].name /\ y = fo[e].name
    OBVIOUS
  <2>2. s \in Seq(Names) /\ t \in Seq(Names) /\ x \in Names /\ y \in Names /\ Append(s, x) = Append(t, y)
    BY <1>3, <1>5, <1>6, <2>1
  <2>3. s = t /\ x = y
    BY <2>2, AppendInjective
  <2> QED BY <2>1, <2>3
<1>8. p # q
  BY <1>3, <1>4, <1>7 DEF SamePlace
<1>9. CASE p = Root \/ q = Root
  <2>1. \A r \in RowsOf(fo) : fo[r].path # <<>>
    <3> TAKE r \in RowsOf(fo)
    <3>1. Len(fo[r].path) > 0
      BY PathLonger
    <3> QED BY <3>1, EmptySeq
  <2> QED BY <1>6, <1>7, <1>8, <1>9, <2>1 DEF PathIn
<1>10. CASE p # Root /\ q # Root
  <2>1. p \in RowsOf(fo) /\ q \in RowsOf(fo) /\ fo[p].path = fo[q].path
    BY <1>6, <1>7, <1>10 DEF PathIn
  <2>2. Len(fo[p].path) = m - 1 /\ m - 1 \in Nat
    BY <1>3, <1>5, <1>10 DEF PathIn
  <2>3. m - 1 \in M
    BY <1>8, <2>1, <2>2
  <2> QED BY <1>2, <2>3
<1> QED BY <1>9, <1>10

\* The rows of the tree are such rows.
LEMMA TreeGrown ==
    ASSUME TreeShape, PathsFollow
    PROVE  Grown(folder) /\ RowsOf(folder) = Rows /\ \A p : PathIn(folder, p) = PathOf(p)
  BY DEF TreeShape, PathsFollow, Grown, RowsOf, Rows, PathIn, PathOf, Join, ParentsExist, FolderRow

LEMMA TreePaths ==
    ASSUME TreeShape, PathsFollow, NEW d \in Rows
    PROVE  /\ folder[d] \in FolderRow /\ folder[d].path \in Seq(Names) /\ folder[d].parent \in Rows \cup {Root}
           /\ PathOf(d) = folder[d].path /\ d # Root
           /\ PathOf(folder[d].parent) \in Seq(Names) /\ Len(PathOf(folder[d].parent)) \in Nat
           /\ Len(folder[d].path) = Len(PathOf(folder[d].parent)) + 1
           /\ \A p \in Seq(Names) :
                 Under(p, folder[d].path) <=> PathOf(folder[d].parent) = p \/ Under(p, PathOf(folder[d].parent))
<1>1. folder[d] \in FolderRow /\ folder[d].path \in Seq(Names) /\ folder[d].parent \in Rows \cup {Root}
  BY DEF TreeShape, ParentsExist, Rows, FolderRow
<1>2. d # Root /\ PathOf(d) = folder[d].path
  BY TreeAssumption DEF Rows, PathOf
<1> QED BY <1>1, <1>2, TreeGrown, PathLonger

LEMMA TreePathOf ==
    ASSUME TreeShape, PathsFollow, NEW p \in Rows \cup {Root}
    PROVE  PathOf(p) \in Seq(Names) /\ Len(PathOf(p)) \in Nat
<1>1. CASE p = Root
  BY <1>1 DEF PathOf
<1>2. CASE p # Root
  BY <1>2, TreePaths
<1> QED BY <1>1, <1>2

\* On the way up paths get shorter, one folder at a time.
LEMMA UpShorter ==
    ASSUME TreeShape, PathsFollow, NEW p \in Rows \cup {Root}
    PROVE  \A d \in Up(p) : d \in Rows /\ Len(folder[d].path) <= Len(PathOf(p))
<1> DEFINE T == {d \in Rows : Len(folder[d].path) <= Len(PathOf(p))}
<1>0. ParentsExist /\ Len(PathOf(p)) \in Nat
  BY TreePathOf DEF TreeShape
<1>1. p \in T \cup {Root}
  <2>1. CASE p # Root
    BY <1>0, <2>1, TreePaths
  <2> QED BY <2>1
<1>2. \A d \in T \cap Rows : folder[d].parent \in T \cup {Root}
  <2> SUFFICES ASSUME NEW d \in T, folder[d].parent # Root PROVE folder[d].parent \in T
    OBVIOUS
  <2>1. folder[d].parent \in Rows /\ Len(folder[d].path) = Len(PathOf(folder[d].parent)) + 1
        /\ Len(PathOf(folder[d].parent)) \in Nat
    BY TreePaths
  <2>2. PathOf(folder[d].parent) = folder[folder[d].parent].path
    BY <2>1, TreePaths
  <2> QED BY <1>0, <2>1, <2>2
<1> HIDE DEF T
<1>3. Up(p) \subseteq T
  BY <1>0, <1>1, <1>2, UpLeast
<1> QED BY <1>3 DEF T

\* So no two folders on the way up share a path, whatever else is in the trash.
LEMMA UpDiffer ==
    ASSUME TreeShape, PathsFollow, NEW p \in Rows \cup {Root}
    PROVE  \A d, e \in Up(p) : Len(folder[d].path) = Len(folder[e].path) => d = e
<1>0. /\ ParentsExist /\ Up(p) \subseteq Rows /\ (p # Root => p \in Up(p))
      /\ \A d \in Up(p) : folder[d].parent \in Up(p) \cup {Root}
  BY UpClosed DEF TreeShape
<1>1. \A d \in Up(p) : d # p => \E c \in Up(p) : folder[c].parent = d
  <2> DEFINE T == {d \in Up(p) : d = p \/ \E c \in Up(p) : folder[c].parent = d}
  <2>1. p \in T \cup {Root} /\ \A d \in T \cap Rows : folder[d].parent \in T \cup {Root}
    BY <1>0
  <2> HIDE DEF T
  <2>2. Up(p) \subseteq T
    BY <1>0, <2>1, UpLeast
  <2> QED BY <2>2 DEF T
<1>2. \A d \in Up(p) : /\ Len(folder[d].path) \in Nat /\ Len(folder[d].path) <= Len(PathOf(p))
                       /\ folder[d].parent # Root =>
                            Len(folder[d].path) = Len(folder[folder[d].parent].path) + 1
  <2> TAKE d \in Up(p)
  <2>1. d \in Rows /\ Len(folder[d].path) <= Len(PathOf(p))
    BY UpShorter
  <2>2. folder[d].parent # Root => PathOf(folder[d].parent) = folder[folder[d].parent].path
    BY DEF PathOf
  <2>3. Len(folder[d].path) = Len(PathOf(folder[d].parent)) + 1 /\ Len(PathOf(folder[d].parent)) \in Nat
    BY <2>1, TreePaths
  <2> QED BY <2>1, <2>2, <2>3
<1>3. ASSUME NEW d \in Up(p), NEW e \in Up(p), d = p, e # p PROVE Len(folder[e].path) # Len(folder[d].path)
  <2>1. PICK c \in Up(p) : folder[c].parent = e
    BY <1>1, <1>3
  <2>2. e # Root
    BY <1>0, TreeAssumption DEF Rows
  <2>3. Len(folder[c].path) = Len(folder[e].path) + 1 /\ Len(folder[c].path) <= Len(PathOf(p))
    BY <1>2, <2>1, <2>2
  <2>4. PathOf(p) = folder[d].path
    BY <1>0, <1>3, TreePaths
  <2> QED BY <1>2, <2>3, <2>4
<1> DEFINE T == {d \in Up(p) : \A e \in Up(p) : Len(folder[d].path) = Len(folder[e].path) => d = e}
<1>4. p \in T \cup {Root}
  BY <1>0, <1>3
<1>5. \A d \in T \cap Rows : folder[d].parent \in T \cup {Root}
  <2> SUFFICES ASSUME NEW d \in T, folder[d].parent # Root, NEW e \in Up(p),
                      Len(folder[folder[d].parent].path) = Len(folder[e].path)
               PROVE  folder[d].parent = e
    BY <1>0
  <2>1. folder[d].parent \in Up(p) /\ folder[d].parent # p
    <3>1. folder[d].parent \in Up(p)
      BY <1>0
    <3>2. folder[d].parent = p => PathOf(p) = folder[p].path
      BY <3>1 DEF PathOf
    <3> QED BY <1>2, <3>1, <3>2
  <2>2. e # p
    BY <1>3, <2>1
  <2>3. PICK c \in Up(p) : folder[c].parent = e
    BY <1>1, <2>2
  <2>4. e # Root
    BY <1>0, TreeAssumption DEF Rows
  <2>5. Len(folder[c].path) = Len(folder[d].path)
    BY <1>2, <2>3, <2>4
  <2> QED BY <2>3, <2>5
<1> HIDE DEF T
<1>6. Up(p) \subseteq T
  BY <1>0, <1>4, <1>5, UpLeast
<1> QED BY <1>6 DEF T

\* The way up from a live folder is live.
LEMMA UpLive ==
    ASSUME TreeShape, Reachable, NEW p \in Live \cup {Root}
    PROVE  Up(p) \subseteq Live /\ TrashedUp(p) = {}
<1>1. ParentsExist /\ p \in Rows \cup {Root} /\ \A d \in Live \cap Rows : folder[d].parent \in Live \cup {Root}
  BY DEF TreeShape, Live, Reachable
<1>2. Up(p) \subseteq Live
  BY <1>1, UpLeast
<1> QED BY <1>2 DEF TrashedUp, Live

\* The way up from a folder: the folder, and the way up from its parent.
LEMMA UpStep ==
    ASSUME TreeShape, NEW d \in Rows
    PROVE  Up(d) = {d} \cup Up(folder[d].parent)
<1>1. ParentsExist /\ folder[d].parent \in Rows \cup {Root} /\ d # Root
  BY TreeAssumption DEF TreeShape, ParentsExist, Rows
<1>2. /\ d \in Up(d) /\ Up(d) \subseteq Rows /\ \A e \in Up(d) : folder[e].parent \in Up(d) \cup {Root}
  BY <1>1, UpClosed
<1>3. /\ Up(folder[d].parent) \subseteq Rows
      /\ folder[d].parent # Root => folder[d].parent \in Up(folder[d].parent)
      /\ \A e \in Up(folder[d].parent) : folder[e].parent \in Up(folder[d].parent) \cup {Root}
  BY <1>1, UpClosed
<1>4. Up(folder[d].parent) \subseteq Up(d)
  <2>1. \A e \in Up(d) \cap Rows : folder[e].parent \in Up(d) \cup {Root}
    BY <1>2
  <2> QED BY <1>1, <1>2, <2>1, UpLeast
<1>5. Up(d) \subseteq {d} \cup Up(folder[d].parent)
  <2> DEFINE T == {d} \cup Up(folder[d].parent)
  <2>1. d \in T \cup {Root} /\ \A e \in T \cap Rows : folder[e].parent \in T \cup {Root}
    BY <1>3
  <2> HIDE DEF T
  <2>2. Up(d) \subseteq T
    BY <1>1, <2>1, UpLeast
  <2> QED BY <2>2 DEF T
<1> QED BY <1>2, <1>4, <1>5

-----------------------------------------------------------------------------
(* What a write leaves behind *)

Tidy ==
    /\ "reuse" \in habits => "rename" \notin habits /\ "batch" \notin habits
    /\ "cross" \in habits => "deep" \notin habits /\ "batch" \notin habits

\* Without names taken again a path tells rows apart, the trashed ones, too.
LEMMA PathsTell ==
    ASSUME TreeShape, PathsFollow, NamesApart, "reuse" \notin habits
    PROVE  \A d, e \in Rows : folder[d].path = folder[e].path => d = e
<1>1. PICK fo : fo = folder
  OBVIOUS
<1>2. Grown(fo) /\ RowsOf(fo) = Rows
  BY <1>1, TreeGrown
<1>3. \A d, e \in RowsOf(fo) : SamePlace(fo[d], fo[e]) => d = e
  BY <1>1, <1>2 DEF NamesApart
<1> QED BY <1>1, <1>2, <1>3, PathsDiffer

\* A file row as it may be in the tree.
Settled(row) ==
    /\ row.parent \in Rows \cup {Root}
    /\ "cross" \in habits \/ \A d \in Rows : ~SamePlace(folder[d], row)
    /\ row.state = "live" => row.parent \in Live \cup {Root} /\ ~FolderClash(row.parent, row.name)

LEMMA FilesSettled ==
    ASSUME TreeInv, NEW f \in FileRows
    PROVE  Settled(file[f]) /\ file[f] \in FileRow /\ file[f] # None /\ f \in Files
  BY DEF TreeInv, TreeShape, NamesApart, Reachable, OneOfAName, Settled, LiveFiles, FileRows

\* Steps that touch no folder.
LEMMA FilesKeep ==
    ASSUME TreeInv, UNCHANGED <<folder, habits>>, file' \in [Files -> FileRow \cup {None}],
           \A f \in Files : file'[f] # None => Settled(file'[f])
    PROVE  TreeInv'
<1>1. /\ Rows' = Rows /\ Live' = Live /\ \A p : PathOf(p)' = PathOf(p)
  BY DEF Rows, Live, PathOf
<1>2. TreeShape'
  <2>1. folder' \in [Folders -> FolderRow \cup {None}] /\ habits' \in Habits
    BY DEF TreeInv, TreeShape
  <2>2. ParentsExist'
    BY <1>1 DEF TreeInv, TreeShape, ParentsExist
  <2>3. \A f \in FileRows' : file'[f].parent \in Rows' \cup {Root}
    BY <1>1 DEF FileRows, Settled
  <2> QED BY <2>1, <2>2, <2>3 DEF TreeShape
<1>3. PathsFollow'
  BY <1>1 DEF TreeInv, PathsFollow, Join
<1>4. NamesApart'
  BY <1>1 DEF TreeInv, NamesApart, FileRows, Settled
<1>5. Reachable'
  BY <1>1 DEF TreeInv, Reachable, FileRows, LiveFiles, Settled
<1>6. OneOfAName'
  <2>1. \A p, name : FolderClash(p, name)' <=> FolderClash(p, name)
    BY <1>1 DEF FolderClash
  <2>2. \A d, e \in Live' : folder'[d].path = folder'[e].path => d = e
    BY <1>1 DEF TreeInv, OneOfAName
  <2>3. \A f \in LiveFiles' : ~FolderClash(file'[f].parent, file'[f].name)
    BY DEF FileRows, LiveFiles, Settled
  <2> QED BY <2>1, <2>2, <2>3 DEF OneOfAName
<1> QED BY <1>2, <1>3, <1>4, <1>5, <1>6 DEF TreeInv

\* Steps that only trash and restore: places stay.
Restated ==
    /\ folder' \in [Folders -> FolderRow \cup {None}] /\ file' \in [Files -> FileRow \cup {None}]
    /\ \A d \in Folders : /\ folder'[d] = None <=> folder[d] = None
                          /\ folder[d] # None => /\ folder'[d].parent = folder[d].parent
                                                 /\ folder'[d].name = folder[d].name
                                                 /\ folder'[d].path = folder[d].path
    /\ \A f \in Files : /\ file'[f] = None <=> file[f] = None
                        /\ file[f] # None => /\ file'[f].parent = file[f].parent
                                             /\ file'[f].name = file[f].name

LEMMA StatesKeep ==
    ASSUME TreeInv, Restated, habits' = habits,
           \A d \in Live' : folder[d].parent \in Live' \cup {Root},
           \A f \in LiveFiles' : file[f].parent \in Live' \cup {Root},
           \A d, e \in Live' : folder[d].path = folder[e].path => d = e,
           \A f \in LiveFiles', d \in Live' : ~SamePlace(folder[d], file[f])
    PROVE  TreeInv'
<1>1. Rows' = Rows /\ FileRows' = FileRows /\ Live' \subseteq Rows /\ LiveFiles' \subseteq FileRows
  BY DEF Restated, Rows, FileRows, Live, LiveFiles
<1>2. /\ \A d \in Rows : /\ folder'[d].parent = folder[d].parent /\ folder'[d].name = folder[d].name
                         /\ folder'[d].path = folder[d].path
      /\ \A f \in FileRows : file'[f].parent = file[f].parent /\ file'[f].name = file[f].name
  BY DEF Restated, Rows, FileRows
<1>3. \A p \in Rows \cup {Root} : PathOf(p)' = PathOf(p)
  BY <1>2 DEF PathOf
<1>4. TreeShape'
  <2>1. folder' \in [Folders -> FolderRow \cup {None}] /\ file' \in [Files -> FileRow \cup {None}] /\ habits' \in Habits
    BY DEF TreeInv, TreeShape, Restated
  <2>2. ParentsExist'
    BY <1>1, <1>2 DEF TreeInv, TreeShape, ParentsExist
  <2>3. \A f \in FileRows' : file'[f].parent \in Rows' \cup {Root}
    BY <1>1, <1>2 DEF TreeInv, TreeShape
  <2> QED BY <2>1, <2>2, <2>3 DEF TreeShape
<1>5. PathsFollow'
  <2> SUFFICES ASSUME NEW d \in Rows PROVE (folder[d].path = Append(PathOf(folder[d].parent), folder[d].name))'
    BY <1>1 DEF PathsFollow, Join
  <2>1. PICK p : p = folder[d].parent
    OBVIOUS
  <2>2. folder[d].path = Append(PathOf(p), folder[d].name) /\ p \in Rows \cup {Root}
    BY <2>1 DEF TreeInv, TreeShape, ParentsExist, PathsFollow, Join
  <2>3. folder'[d].parent = p /\ PathOf(p)' = PathOf(p)
    BY <1>2, <1>3, <2>1, <2>2
  <2> QED BY <1>2, <2>2, <2>3
<1>6. NamesApart'
  BY <1>1, <1>2 DEF TreeInv, NamesApart, SamePlace
<1>7. Reachable'
  BY <1>1, <1>2 DEF Reachable
<1>8. OneOfAName'
  <2>1. \A d, e \in Live' : folder'[d].path = folder'[e].path => d = e
    BY <1>1, <1>2
  <2>2. ASSUME NEW f \in LiveFiles' PROVE (~FolderClash(file[f].parent, file[f].name))'
    BY <1>1, <1>2 DEF FolderClash, SamePlace
  <2> QED BY <2>1, <2>2 DEF OneOfAName
<1> QED BY <1>4, <1>5, <1>6, <1>7, <1>8 DEF TreeInv

\* The write of an upload: the name it settled on is no folder's.
LEMMA AddKeeps ==
    ASSUME TreeInv, NEW w, AddDue(w), Add(w)
    PROVE  TreeInv'
<1>1. PICK f \in Files, p \in Live \cup {Root}, name \in Names \cup {Suffixed} :
         /\ w = [op |-> "add", id |-> f, parent |-> p, name |-> name]
         /\ file[f] = None /\ MayNameFile(p, name) /\ ~FolderClash(p, name)
  BY DEF AddDue
<1>2. PICK row : row = [name |-> name, parent |-> p, state |-> "live"]
  OBVIOUS
<1>3. p \in Rows \cup {Root} /\ p \in Parents
  BY DEF Live, Rows, Parents
<1>4. UNCHANGED <<folder, habits>> /\ file' = [file EXCEPT ![f] = row]
  BY <1>1, <1>2, <1>3 DEF Add, Done
<1>5. row \in FileRow /\ row # None
  BY <1>2, <1>3, TreeRowAssumption DEF FileRow, States
<1>6. Settled(row)
  BY <1>1, <1>2, <1>3 DEF Settled, MayNameFile, NameOfFolder, SamePlace
<1>7. file' \in [Files -> FileRow \cup {None}]
  BY <1>4, <1>5 DEF TreeInv, TreeShape
<1>8. \A g \in Files : file'[g] # None => Settled(file'[g])
  BY <1>4, <1>6, FilesSettled DEF TreeInv, TreeShape, FileRows
<1> QED BY <1>4, <1>7, <1>8, FilesKeep

\* A renamed or moved file: what it is written to is what was looked at.
LEMMA MoveFileKeeps ==
    ASSUME TreeInv, NEW w, MoveFileDue(w), MoveFile(w)
    PROVE  TreeInv'
<1>1. PICK f \in LiveFiles, p \in Parents, name \in Names :
         /\ w = [op |-> "movefile", id |-> f,
                 parent |-> IF p = file[f].parent THEN None ELSE p,
                 name |-> IF name = file[f].name THEN None ELSE name]
         /\ p # file[f].parent => p \in Live \cup {Root}
         /\ <<p, name>> # <<file[f].parent, file[f].name>> => MayNameFile(p, name) /\ ~FolderClash(p, name)
  BY DEF MoveFileDue
<1>2. f \in FileRows /\ f \in Files /\ file[f] \in FileRow /\ Settled(file[f]) /\ file[f].state = "live"
  BY FilesSettled DEF LiveFiles
<1>3. PICK row : row = [name |-> name, parent |-> p, state |-> "live"]
  OBVIOUS
<1>4. p \in Rows \cup {Root} /\ p \in Live \cup {Root} /\ p \in Parents
  BY <1>1, <1>2 DEF Live, Rows, Parents, Settled
<1>5. w.id = f /\ w.name = (IF name = file[f].name THEN None ELSE name)
      /\ w.parent = (IF p = file[f].parent THEN None ELSE p)
  BY <1>1
<1>6. None \notin Rows \cup {Root} /\ None \notin Names
  BY TreeAssumption DEF Rows
<1>7. UNCHANGED <<folder, habits>>
      /\ file' = [file EXCEPT ![f].name = IF w.name = None THEN @ ELSE w.name,
                              ![f].parent = IF w.parent \in Rows \cup {Root} THEN w.parent ELSE @]
  BY <1>2, <1>5 DEF MoveFile, Done
<1>8. file'[f] = row /\ \A g \in Files \ {f} : file'[g] = file[g]
  <2>1. PICK x, y : /\ x = (IF w.name = None THEN file[f].name ELSE w.name)
                    /\ y = (IF w.parent \in Rows \cup {Root} THEN w.parent ELSE file[f].parent)
    OBVIOUS
  <2>2. x = name /\ y = p
    BY <1>4, <1>5, <1>6, <2>1
  <2>3. PICK mid : mid = [file EXCEPT ![f] = [file[f] EXCEPT !.name = x]]
    OBVIOUS
  <2>4. file \in [Files -> FileRow \cup {None}]
    BY DEF TreeInv, TreeShape
  <2>5. mid[f] = [file[f] EXCEPT !.name = x] /\ \A g \in Files \ {f} : mid[g] = file[g]
    BY <1>2, <2>3, <2>4
  <2>6. mid[f].parent = file[f].parent
    BY <1>2, <2>5 DEF FileRow
  <2>7. file' = [mid EXCEPT ![f] = [mid[f] EXCEPT !.parent = y]]
    BY <1>7, <2>1, <2>3, <2>6
  <2>8. file'[f] = [mid[f] EXCEPT !.parent = y] /\ \A g \in Files \ {f} : file'[g] = mid[g]
    BY <1>2, <2>3, <2>4, <2>7
  <2>9. [[file[f] EXCEPT !.name = x] EXCEPT !.parent = y] = row
    <3>1. PICK before, between : before = file[f] /\ between = [before EXCEPT !.name = name]
      OBVIOUS
    <3>2. before \in [name : Names \cup {Suffixed}, parent : Parents, state : States] /\ before.state = "live"
      BY <1>2, <3>1 DEF FileRow
    <3>3. /\ between \in [name : Names \cup {Suffixed}, parent : Parents, state : States]
          /\ between.name = name /\ between.parent = before.parent /\ between.state = "live"
      BY <3>1, <3>2
    <3>4. [between EXCEPT !.parent = p] = [name |-> name, parent |-> p, state |-> "live"]
      BY <3>3
    <3> QED BY <1>3, <2>2, <3>1, <3>4
  <2> QED BY <2>5, <2>8, <2>9
<1>9. row \in FileRow /\ row # None
  BY <1>3, <1>4, TreeRowAssumption DEF FileRow, States
<1>10. Settled(row)
  <2>1. CASE <<p, name>> = <<file[f].parent, file[f].name>>
    BY <1>2, <1>3, <1>4, <2>1 DEF Settled, SamePlace
  <2>2. CASE <<p, name>> # <<file[f].parent, file[f].name>>
    BY <1>1, <1>3, <1>4, <2>2 DEF Settled, MayNameFile, NameOfFolder, SamePlace
  <2> QED BY <2>1, <2>2
<1>11. file' \in [Files -> FileRow \cup {None}]
  BY <1>7, <1>8, <1>9 DEF TreeInv, TreeShape
<1>12. \A g \in Files : file'[g] # None => Settled(file'[g])
  BY <1>8, <1>10, FilesSettled DEF FileRows
<1> QED BY <1>7, <1>11, <1>12, FilesKeep

\* A trashed file.
LEMMA TrashFileKeeps ==
    ASSUME TreeInv, NEW w, TrashFileDue(w), TrashFile(w)
    PROVE  TreeInv'
<1>1. PICK f \in LiveFiles : w = [op |-> "trashfile", id |-> f]
  BY DEF TrashFileDue
<1>2. f \in FileRows /\ f \in Files /\ file[f] \in FileRow /\ Settled(file[f])
  BY FilesSettled DEF LiveFiles
<1>3. UNCHANGED <<folder, habits>> /\ file' = [file EXCEPT ![f].state = "trashed"]
  BY <1>1, <1>2 DEF TrashFile, Done
<1>4. PICK row : row = [file[f] EXCEPT !.state = "trashed"]
  OBVIOUS
<1>5. row \in FileRow /\ row.parent = file[f].parent /\ row.name = file[f].name /\ row.state = "trashed"
  BY <1>2, <1>4 DEF FileRow, States
<1>6. file'[f] = row /\ \A g \in Files \ {f} : file'[g] = file[g]
  BY <1>2, <1>3, <1>4 DEF TreeInv, TreeShape
<1>7. Settled(row)
  BY <1>2, <1>5 DEF Settled, SamePlace
<1>8. file' \in [Files -> FileRow \cup {None}]
  BY <1>3, <1>5, <1>6 DEF TreeInv, TreeShape
<1>9. \A g \in Files : file'[g] # None => Settled(file'[g])
  BY <1>6, <1>7, FilesSettled DEF FileRows
<1> QED BY <1>3, <1>8, <1>9, FilesKeep

\* A trashed folder takes with it what lies below it by path: its tree.
LEMMA TrashKeeps ==
    ASSUME TreeInv, NEW w, TrashDue(w), Trash(w)
    PROVE  TreeInv'
<1>1. PICK t \in Rows : w = [op |-> "trash", id |-> t, path |-> folder[t].path]
  BY DEF TrashDue
<1>2. PICK hit : hit = {d \in Rows : d = t \/ Under(folder[t].path, folder[d].path)}
  OBVIOUS
<1>3. /\ habits' = habits
      /\ folder' = [d \in Folders |-> IF d \in hit THEN [folder[d] EXCEPT !.state = "trashed"] ELSE folder[d]]
      /\ file' = [f \in Files |-> IF f \in FileRows /\ file[f].parent \in hit
                                    THEN [file[f] EXCEPT !.state = "trashed"] ELSE file[f]]
  BY <1>1, <1>2 DEF Trash, Done
<1>4. /\ \A d \in Folders : folder[d] # None => folder[d] \in FolderRow
      /\ \A f \in Files : file[f] # None => file[f] \in FileRow
  BY DEF TreeInv, TreeShape
<1>5. Restated
  <2>1. \A d \in Folders : folder[d] \in FolderRow =>
           LET row == [folder[d] EXCEPT !.state = "trashed"]
           IN  row \in FolderRow /\ row.parent = folder[d].parent /\ row.name = folder[d].name /\ row.path = folder[d].path
    BY DEF FolderRow, States
  <2>2. \A f \in Files : file[f] \in FileRow =>
           LET row == [file[f] EXCEPT !.state = "trashed"]
           IN  row \in FileRow /\ row.parent = file[f].parent /\ row.name = file[f].name
    BY DEF FileRow, States
  <2>3. /\ folder' \in [Folders -> FolderRow \cup {None}]
        /\ \A d \in Folders : /\ folder'[d] = None <=> folder[d] = None
                              /\ folder[d] # None => /\ folder'[d].parent = folder[d].parent
                                                     /\ folder'[d].name = folder[d].name
                                                     /\ folder'[d].path = folder[d].path
    BY <1>2, <1>3, <1>4, <2>1, TreeRowAssumption DEF Rows
  <2>4. /\ file' \in [Files -> FileRow \cup {None}]
        /\ \A f \in Files : /\ file'[f] = None <=> file[f] = None
                            /\ file[f] # None => /\ file'[f].parent = file[f].parent
                                                 /\ file'[f].name = file[f].name
    BY <1>3, <1>4, <2>2, TreeRowAssumption DEF FileRows
  <2> QED BY <2>3, <2>4 DEF Restated
<1>6. Live' = Live \ hit
  <2>1. \A d \in hit : folder'[d].state = "trashed"
    BY <1>2, <1>3, <1>4 DEF Rows, FolderRow
  <2> QED BY <1>2, <1>3, <1>5, <2>1 DEF Live, Rows, Restated
<1>7. LiveFiles' = {f \in LiveFiles : file[f].parent \notin hit}
  <2>1. \A f \in FileRows : file[f].parent \in hit => file'[f].state = "trashed"
    BY <1>3, <1>4 DEF FileRows, FileRow
  <2> QED BY <1>3, <1>5, <2>1 DEF LiveFiles, FileRows, Restated
<1>8. ASSUME NEW d \in Live', folder[d].parent # Root PROVE folder[d].parent \in Live'
  <2>1. d \in Live /\ d \in Rows /\ d \notin hit /\ folder[d].parent \in Live /\ folder[d].parent \in Rows
    BY <1>6, <1>8 DEF TreeInv, Reachable, Live
  <2>2. PICK p : p = folder[d].parent
    OBVIOUS
  <2>3. folder[t].path \in Seq(Names) /\ folder[p].path = PathOf(p)
    BY <2>1, <2>2, TreePaths DEF TreeInv
  <2>4. Under(folder[t].path, folder[d].path) <=> folder[p].path = folder[t].path \/ Under(folder[t].path, folder[p].path)
    BY <2>1, <2>2, <2>3, TreePaths DEF TreeInv
  <2>5. p \notin hit
    BY <1>2, <2>1, <2>2, <2>4
  <2> QED BY <1>6, <2>1, <2>2, <2>5
<1>9. ASSUME NEW f \in LiveFiles' PROVE file[f].parent \in Live' \cup {Root}
  BY <1>6, <1>7 DEF TreeInv, Reachable
<1>10. \A d, e \in Live' : folder[d].path = folder[e].path => d = e
  BY <1>6 DEF TreeInv, OneOfAName
<1>11. \A f \in LiveFiles', d \in Live' : ~SamePlace(folder[d], file[f])
  BY <1>6, <1>7 DEF TreeInv, OneOfAName, FolderClash, SamePlace
<1> QED BY <1>3, <1>5, <1>8, <1>9, <1>10, <1>11, StatesKeep

\* The retention window passes.
LEMMA ExpireKeeps ==
    ASSUME TreeInv, Expire
    PROVE  TreeInv'
<1>1. /\ habits' = habits
      /\ folder' = [d \in Folders |-> IF d \in Rows /\ folder[d].state = "trashed"
                                      THEN [folder[d] EXCEPT !.state = "expired"] ELSE folder[d]]
      /\ file' = [f \in Files |-> IF f \in FileRows /\ file[f].state = "trashed"
                                  THEN [file[f] EXCEPT !.state = "expired"] ELSE file[f]]
  BY DEF Expire
<1>2. /\ \A d \in Folders : folder[d] # None => folder[d] \in FolderRow
      /\ \A f \in Files : file[f] # None => file[f] \in FileRow
  BY DEF TreeInv, TreeShape
<1>3. /\ \A d \in Folders : folder[d] \in FolderRow =>
           LET row == [folder[d] EXCEPT !.state = "expired"]
           IN  /\ row \in FolderRow /\ row.parent = folder[d].parent /\ row.name = folder[d].name
               /\ row.path = folder[d].path /\ row.state = "expired"
      /\ \A f \in Files : file[f] \in FileRow =>
           LET row == [file[f] EXCEPT !.state = "expired"]
           IN  row \in FileRow /\ row.parent = file[f].parent /\ row.name = file[f].name /\ row.state = "expired"
  BY DEF FolderRow, FileRow, States
<1>4. Restated
  <2>1. /\ folder' \in [Folders -> FolderRow \cup {None}]
        /\ \A d \in Folders : /\ folder'[d] = None <=> folder[d] = None
                              /\ folder[d] # None => /\ folder'[d].parent = folder[d].parent
                                                     /\ folder'[d].name = folder[d].name
                                                     /\ folder'[d].path = folder[d].path
    BY <1>1, <1>2, <1>3, TreeRowAssumption DEF Rows
  <2>2. /\ file' \in [Files -> FileRow \cup {None}]
        /\ \A f \in Files : /\ file'[f] = None <=> file[f] = None
                            /\ file[f] # None => /\ file'[f].parent = file[f].parent
                                                 /\ file'[f].name = file[f].name
    BY <1>1, <1>2, <1>3, TreeRowAssumption DEF FileRows
  <2> QED BY <2>1, <2>2 DEF Restated
<1>5. Live' = Live
  <2>1. \A d \in Rows : folder'[d].state = "live" <=> folder[d].state = "live"
    BY <1>1, <1>2, <1>3 DEF Rows
  <2> QED BY <1>4, <2>1 DEF Live, Rows, Restated
<1>6. LiveFiles' = LiveFiles
  <2>1. \A f \in FileRows : file'[f].state = "live" <=> file[f].state = "live"
    BY <1>1, <1>2, <1>3 DEF FileRows
  <2> QED BY <1>4, <2>1 DEF LiveFiles, FileRows, Restated
<1> QED BY <1>1, <1>4, <1>5, <1>6, StatesKeep DEF TreeInv, Reachable, OneOfAName, FolderClash, SamePlace

LEMMA AtMostOne ==
    ASSUME NEW S, IsFiniteSet(S), Cardinality(S) <= 1, NEW x \in S, NEW y \in S
    PROVE  x = y
<1> SUFFICES ASSUME x # y PROVE FALSE
  OBVIOUS
<1>1. IsFiniteSet(S \ {x}) /\ Cardinality(S \ {x}) = Cardinality(S) - 1 /\ Cardinality(S) \in Nat
  BY FS_RemoveElement, FS_CardinalityType
<1>2. Cardinality(S \ {x}) \in Nat
  BY <1>1, FS_CardinalityType
<1>3. Cardinality(S \ {x}) = 0
  BY <1>1, <1>2
<1> QED BY <1>1, <1>3, FS_EmptySet

\* What a restore brings back with its items: the way up to each.
LEMMA RestoredShape ==
    ASSUME TreeInv, NEW ds \in SUBSET Rows, NEW fs \in SUBSET FileRows
    PROVE  /\ ds \subseteq RestoredFolders(ds, fs) /\ RestoredFolders(ds, fs) \subseteq Rows
           /\ \A d \in RestoredFolders(ds, fs) :
                 \/ d \in ds
                 \/ \E x \in ds : d \in TrashedUp(folder[x].parent)
                 \/ \E f \in fs : d \in TrashedUp(file[f].parent)
           /\ \A x \in ds : TrashedUp(folder[x].parent) \subseteq RestoredFolders(ds, fs)
           /\ \A f \in fs : TrashedUp(file[f].parent) \subseteq RestoredFolders(ds, fs)
<1>1. /\ ParentsExist
      /\ \A x \in ds : folder[x].parent \in Rows \cup {Root}
      /\ \A f \in fs : file[f].parent \in Rows \cup {Root}
  BY DEF TreeInv, TreeShape, ParentsExist
<1>2. \A p \in Rows \cup {Root} : Up(p) \subseteq Rows
  BY <1>1, UpClosed
<1> QED BY <1>1, <1>2 DEF RestoredFolders, TrashedUp

\* A folder comes back with the trashed folders above it, a file too, where nothing
\* live has taken their names.
LEMMA RestoreKeeps ==
    ASSUME TreeInv, Tidy, NEW w, RestoreDue(w), Restore(w)
    PROVE  TreeInv'
<1>1. PICK ds \in SUBSET (Rows \ Live), fs \in SUBSET (FileRows \ LiveFiles) :
         /\ Cardinality(ds \cup fs) > 1 => "batch" \in habits
         /\ RestoredFolders(ds, fs) # ds => "deep" \in habits
         /\ w = [op |-> "restore",
                 folders |-> RestoredFolders({d \in ds : FolderRestorable(d)}, {f \in fs : FileRestorable(f)}),
                 files |-> {f \in fs : FileRestorable(f)}]
  BY DEF RestoreDue
<1>2. PICK back, backFiles : back = {d \in ds : FolderRestorable(d)} /\ backFiles = {f \in fs : FileRestorable(f)}
  OBVIOUS
<1>3. PICK R : R = RestoredFolders(back, backFiles)
  OBVIOUS
<1>4. back \in SUBSET Rows /\ backFiles \in SUBSET FileRows /\ ds \in SUBSET Rows /\ fs \in SUBSET FileRows
  BY <1>2
<1>5. /\ back \subseteq R /\ R \subseteq Rows
      /\ \A d \in R : \/ d \in back
                      \/ \E x \in back : d \in TrashedUp(folder[x].parent)
                      \/ \E f \in backFiles : d \in TrashedUp(file[f].parent)
      /\ \A x \in back : TrashedUp(folder[x].parent) \subseteq R
      /\ \A f \in backFiles : TrashedUp(file[f].parent) \subseteq R
  BY <1>3, <1>4, RestoredShape
<1>6. /\ habits' = habits
      /\ folder' = [d \in Folders |-> IF d \in R THEN [folder[d] EXCEPT !.state = "live"] ELSE folder[d]]
      /\ file' = [f \in Files |-> IF f \in backFiles THEN [file[f] EXCEPT !.state = "live"] ELSE file[f]]
  <2>1. w.folders = R /\ w.files = backFiles
    BY <1>1, <1>2, <1>3
  <2>2. w.folders \cap Rows = R /\ w.files \cap FileRows = backFiles
    BY <1>4, <1>5, <2>1
  <2> QED BY <2>2 DEF Restore, Done
<1>7. /\ \A d \in Folders : folder[d] # None => folder[d] \in FolderRow
      /\ \A f \in Files : file[f] # None => file[f] \in FileRow
  BY DEF TreeInv, TreeShape
<1>8. /\ \A d \in Folders : folder[d] \in FolderRow =>
           LET row == [folder[d] EXCEPT !.state = "live"]
           IN  /\ row \in FolderRow /\ row.parent = folder[d].parent /\ row.name = folder[d].name
               /\ row.path = folder[d].path /\ row.state = "live"
      /\ \A f \in Files : file[f] \in FileRow =>
           LET row == [file[f] EXCEPT !.state = "live"]
           IN  /\ row \in FileRow /\ row.parent = file[f].parent /\ row.name = file[f].name /\ row.state = "live"
  BY DEF FolderRow, FileRow, States
<1>9. Restated
  <2>1. /\ folder' \in [Folders -> FolderRow \cup {None}]
        /\ \A d \in Folders : /\ folder'[d] = None <=> folder[d] = None
                              /\ folder[d] # None => /\ folder'[d].parent = folder[d].parent
                                                     /\ folder'[d].name = folder[d].name
                                                     /\ folder'[d].path = folder[d].path
    BY <1>5, <1>6, <1>7, <1>8, TreeRowAssumption DEF Rows
  <2>2. /\ file' \in [Files -> FileRow \cup {None}]
        /\ \A f \in Files : /\ file'[f] = None <=> file[f] = None
                            /\ file[f] # None => /\ file'[f].parent = file[f].parent
                                                 /\ file'[f].name = file[f].name
    BY <1>4, <1>6, <1>7, <1>8, TreeRowAssumption DEF FileRows
  <2> QED BY <2>1, <2>2 DEF Restated
<1>10. Live' = Live \cup R
  <2>1. /\ \A d \in R : folder'[d].state = "live"
        /\ \A d \in Folders \ R : folder'[d] = folder[d]
    BY <1>5, <1>6, <1>7, <1>8 DEF Rows
  <2> QED BY <1>5, <1>9, <2>1 DEF Live, Rows, Restated
<1>11. LiveFiles' = LiveFiles \cup backFiles
  <2>1. /\ \A f \in backFiles : file'[f].state = "live"
        /\ \A f \in Files \ backFiles : file'[f] = file[f]
    BY <1>4, <1>6, <1>7, <1>8 DEF FileRows
  <2> QED BY <1>4, <1>9, <2>1 DEF LiveFiles, FileRows, Restated
<1>12. /\ ParentsExist
       /\ \A f \in FileRows : file[f].parent \in Rows \cup {Root}
       /\ \A d \in Live : folder[d].parent \in Live \cup {Root}
       /\ \A f \in LiveFiles : file[f].parent \in Live \cup {Root}
  BY DEF TreeInv, TreeShape, Reachable
<1>13. ASSUME NEW p \in Rows \cup {Root}, TrashedUp(p) \subseteq R
       PROVE  /\ p \in Live' \cup {Root}
              /\ \A d \in TrashedUp(p) : folder[d].parent \in Live' \cup {Root}
  <2>1. /\ Up(p) \subseteq Rows /\ (p # Root => p \in Up(p))
        /\ \A d \in Up(p) : folder[d].parent \in Up(p) \cup {Root}
    BY <1>12, UpClosed
  <2>2. Up(p) \subseteq Live'
    BY <1>10, <1>13, <2>1 DEF TrashedUp, Live
  <2> QED BY <2>1, <2>2 DEF TrashedUp
<1>14. \A d \in Live' : folder[d].parent \in Live' \cup {Root}
  BY <1>4, <1>5, <1>10, <1>12, <1>13 DEF ParentsExist
<1>15. \A f \in LiveFiles' : file[f].parent \in Live' \cup {Root}
  BY <1>4, <1>5, <1>10, <1>11, <1>12, <1>13
<1>16. ASSUME NEW d \in R, NEW e \in Live, folder[d].path = folder[e].path PROVE d = e
  <2>1. CASE d \in back
    BY <1>2, <1>16, <2>1 DEF FolderRestorable, PathTaken
  <2>2. ASSUME NEW x \in back, d \in TrashedUp(folder[x].parent) PROVE d = e
    BY <1>2, <1>16, <2>2 DEF FolderRestorable, ChainRestorable, PathTaken
  <2>3. ASSUME NEW f \in backFiles, d \in TrashedUp(file[f].parent) PROVE d = e
    BY <1>2, <1>16, <2>3 DEF FileRestorable, ChainRestorable, PathTaken
  <2> QED BY <1>5, <2>1, <2>2, <2>3
<1>17. ASSUME "batch" \notin habits, NEW x \in ds \cup fs, NEW y \in ds \cup fs PROVE x = y
  <2>1. ds \cup fs \subseteq Folders \cup Files /\ IsFiniteSet(Folders \cup Files)
    BY <1>4, TreeAssumption, FS_Union DEF Rows, FileRows
  <2>2. IsFiniteSet(ds \cup fs)
    BY <2>1, FS_Subset
  <2>3. Cardinality(ds \cup fs) \in Nat
    BY <2>2, FS_CardinalityType
  <2>4. Cardinality(ds \cup fs) <= 1
    BY <1>1, <1>17, <2>3
  <2> QED BY <1>17, <2>2, <2>4, AtMostOne
<1>18. ASSUME NEW d \in R, NEW e \in R, folder[d].path = folder[e].path PROVE d = e
  <2>1. CASE "reuse" \notin habits
    BY <1>5, <1>18, <2>1, PathsTell DEF TreeInv
  <2>2. CASE "reuse" \in habits
    <3>1. \A x, y \in ds \cup fs : x = y
      BY <1>17, <2>2 DEF Tidy
    <3>2. \A x \in back, f \in backFiles : FALSE
      BY <1>2, <3>1, TreeAssumption DEF Rows, FileRows
    <3>3. \E p \in Rows \cup {Root} : d \in Up(p) /\ e \in Up(p)
      <4>1. CASE backFiles = {}
        <5>1. PICK x \in back : TRUE
          BY <1>5, <4>1
        <5>2. R \subseteq {x} \cup TrashedUp(folder[x].parent)
          BY <1>2, <1>5, <3>1, <4>1
        <5>3. x \in Rows /\ Up(x) = {x} \cup Up(folder[x].parent)
          BY <1>4, UpStep DEF TreeInv
        <5> QED BY <5>2, <5>3 DEF TrashedUp
      <4>2. CASE backFiles # {}
        <5>1. PICK f \in backFiles : TRUE
          BY <4>2
        <5>2. R \subseteq TrashedUp(file[f].parent)
          BY <1>2, <1>5, <3>1, <3>2
        <5> QED BY <1>4, <1>12, <5>2 DEF TrashedUp
      <4> QED BY <4>1, <4>2
    <3> QED BY <1>18, <3>3, UpDiffer DEF TreeInv
  <2> QED BY <2>1, <2>2
<1>19. \A d, e \in Live' : folder[d].path = folder[e].path => d = e
  BY <1>10, <1>16, <1>18 DEF TreeInv, OneOfAName
<1>20. \A f \in LiveFiles', d \in Live' : ~SamePlace(folder[d], file[f])
  <2>1. CASE "cross" \notin habits
    BY <1>4, <1>5, <1>10, <1>11, <2>1 DEF TreeInv, NamesApart, Live, LiveFiles
  <2>2. CASE "cross" \in habits
    <3>1. RestoredFolders(ds, fs) = ds /\ \A x, y \in ds \cup fs : x = y
      BY <1>1, <1>17, <2>2 DEF Tidy
    <3>2. /\ \A x \in ds : TrashedUp(folder[x].parent) \subseteq ds
          /\ \A f \in fs : TrashedUp(file[f].parent) \subseteq ds
      BY <1>4, <3>1, RestoredShape
    <3>3. ds = {} \/ fs = {}
      BY <1>4, <3>1, TreeAssumption DEF Rows, FileRows
    <3>4. R \subseteq back
      BY <1>2, <1>5, <3>1, <3>2, <3>3
    <3>5. \A f \in LiveFiles, d \in Live : ~SamePlace(folder[d], file[f])
      BY DEF TreeInv, OneOfAName, FolderClash, SamePlace
    <3>6. \A f \in LiveFiles, d \in back : ~SamePlace(folder[d], file[f])
      BY <1>2 DEF FolderRestorable, FileClash, SamePlace
    <3>7. \A f \in backFiles, d \in Live : ~SamePlace(folder[d], file[f])
      BY <1>2 DEF FileRestorable, FolderClash, SamePlace
    <3>8. back = {} \/ backFiles = {}
      BY <1>2, <3>3
    <3> QED BY <1>10, <1>11, <3>4, <3>5, <3>6, <3>7, <3>8
  <2> QED BY <2>1, <2>2
<1> QED BY <1>6, <1>9, <1>14, <1>15, <1>19, <1>20, StatesKeep

-----------------------------------------------------------------------------
(* What leaves the trash for good *)

\* What goes with some folders by the cascade lies below them by path.
LEMMA SubtreeUnder ==
    ASSUME TreeShape, PathsFollow, NEW ds \in SUBSET Rows
    PROVE  \A e \in Subtree(ds) : e \in Rows /\ (e \in ds \/ \E a \in ds : Under(folder[a].path, folder[e].path))
<1> DEFINE T == {e \in Rows : e \in ds \/ \E a \in ds : Under(folder[a].path, folder[e].path)}
<1>1. ds \subseteq T
  OBVIOUS
<1>2. ASSUME NEW e \in Rows, folder[e].parent \in T PROVE e \in T
  <2>1. PICK q : q = folder[e].parent
    OBVIOUS
  <2>2. q \in Rows /\ PathOf(q) = folder[q].path
    BY <1>2, <2>1, TreePaths
  <2>3. \A p \in Seq(Names) : Under(p, folder[e].path) <=> folder[q].path = p \/ Under(p, folder[q].path)
    BY <2>1, <2>2, TreePaths
  <2>4. \A a \in ds : folder[a].path \in Seq(Names)
    BY TreePaths
  <2> QED BY <1>2, <2>1, <2>2, <2>3, <2>4
<1> HIDE DEF T
<1>3. Subtree(ds) \subseteq T
  BY <1>1, <1>2, SubtreeLeast
<1> QED BY <1>3 DEF T

LEMMA DeletableFacts ==
    ASSUME TreeShape, PathsFollow
    PROVE  DeletableIsSafe
<1> SUFFICES ASSUME NEW sweep \in BOOLEAN
             PROVE  /\ Subtree(Deletable(sweep)) \subseteq Candidates(sweep)
                    /\ \A f \in FileRows : file[f].parent \in Subtree(Deletable(sweep)) => f \in PurgedFiles(sweep)
  BY DEF DeletableIsSafe
<1>1. PICK ds, holding : ds = Deletable(sweep) /\ holding = HoldsFile(sweep, PurgedFiles(sweep))
  OBVIOUS
<1>2. /\ ds \in SUBSET Rows /\ ds \subseteq Candidates(sweep) \ holding
      /\ \A d \in ds, e \in (Rows \ Candidates(sweep)) \cup holding : ~Under(folder[d].path, folder[e].path)
  BY <1>1 DEF Deletable, Candidates
<1>3. \A e \in Subtree(ds) : e \in Candidates(sweep) \ holding
  <2> TAKE e \in Subtree(ds)
  <2>1. e \in Rows /\ (e \in ds \/ \E a \in ds : Under(folder[a].path, folder[e].path))
    BY <1>2, SubtreeUnder
  <2> QED BY <1>2, <2>1
<1>4. \A f \in FileRows : file[f].parent \in Candidates(sweep) \ holding => f \in PurgedFiles(sweep)
  BY <1>1 DEF HoldsFile
<1> QED BY <1>1, <1>3, <1>4

\* The rows that stay keep their folders.
LEMMA PurgeKeeps ==
    ASSUME TreeInv, NEW w, PurgeDue(w), Purge(w)
    PROVE  TreeInv'
<1>0. TreeShape /\ PathsFollow /\ ParentsExist
  BY DEF TreeInv, TreeShape
<1>1. PICK gone : gone = Subtree(w.folders \cap Rows)
  OBVIOUS
<1>2. /\ gone \subseteq Rows \ Live
      /\ \A d \in Rows : folder[d].parent \in gone => d \in gone
      /\ \A f \in FileRows : file[f].parent \in gone => f \in w.files
  <2>1. ASSUME NEW sweep \in BOOLEAN,
               w = [op |-> "purge", files |-> PurgedFiles(sweep), folders |-> Deletable(sweep)]
        PROVE  /\ gone \subseteq Rows \ Live
               /\ \A f \in FileRows : file[f].parent \in gone => f \in w.files
    <3>1. w.folders \cap Rows = Deletable(sweep) /\ w.files = PurgedFiles(sweep)
      BY <2>1 DEF Deletable, Candidates
    <3>2. gone \subseteq Candidates(sweep) /\ \A f \in FileRows : file[f].parent \in gone => f \in PurgedFiles(sweep)
      BY <1>0, <1>1, <3>1, DeletableFacts DEF DeletableIsSafe
    <3>3. Candidates(sweep) \subseteq Rows \ Live
      BY DEF Candidates, Due, Live
    <3> QED BY <3>1, <3>2, <3>3
  <2>2. ASSUME w.folders = {} PROVE gone = {}
    <3>1. w.folders \cap Rows = {} /\ {} \in SUBSET Rows
      BY <2>2
    <3>2. Subtree({}) \subseteq {}
      BY <3>1, SubtreeLeast
    <3> QED BY <1>1, <3>1, <3>2
  <2>3. gone \subseteq Rows \ Live /\ \A f \in FileRows : file[f].parent \in gone => f \in w.files
    <3>1. CASE \E sweep \in BOOLEAN : w = [op |-> "purge", files |-> PurgedFiles(sweep), folders |-> Deletable(sweep)]
      BY <2>1, <3>1
    <3>2. CASE \E f \in FileRows \ LiveFiles : w = [op |-> "purge", files |-> {f}, folders |-> {}]
      BY <2>2, <3>2
    <3> QED BY <3>1, <3>2 DEF PurgeDue
  <2>4. \A d \in Rows : folder[d].parent \in gone => d \in gone
    BY <1>1, SubtreeClosed
  <2> QED BY <2>3, <2>4
<1>3. /\ habits' = habits
      /\ folder' = [d \in Folders |-> IF d \in gone THEN None ELSE folder[d]]
      /\ file' = [f \in Files |-> IF f \in w.files \/ f \notin FileRows THEN None
                                  ELSE IF file[f].parent \in gone THEN [file[f] EXCEPT !.parent = Root]
                                  ELSE file[f]]
  BY <1>1 DEF Purge, Done
<1>4. \A f \in Files : file'[f] = IF f \in FileRows \ w.files THEN file[f] ELSE None
  BY <1>2, <1>3
<1>5. /\ Rows' = Rows \ gone /\ Live' = Live /\ FileRows' = FileRows \ w.files
      /\ \A d \in Rows' : folder'[d] = folder[d]
      /\ \A f \in FileRows' : file'[f] = file[f]
  <2>1. Rows' = Rows \ gone /\ FileRows' = FileRows \ w.files
    BY <1>3, <1>4 DEF Rows, FileRows
  <2>2. \A d \in Rows' : folder'[d] = folder[d]
    BY <1>3, <2>1 DEF Rows
  <2>3. \A f \in FileRows' : file'[f] = file[f]
    BY <1>4, <2>1 DEF FileRows
  <2>4. Live' = Live
    BY <1>2, <2>1, <2>2 DEF Live
  <2> QED BY <2>1, <2>2, <2>3, <2>4
<1>6. LiveFiles' \subseteq LiveFiles
  BY <1>5 DEF LiveFiles
<1>7. TreeShape'
  <2>1. folder' \in [Folders -> FolderRow \cup {None}] /\ habits' \in Habits
    BY <1>0, <1>3 DEF TreeShape
  <2>2. file' \in [Files -> FileRow \cup {None}]
    <3>1. file' = [f \in Files |-> file'[f]]
      BY <1>3
    <3>2. \A f \in Files : file'[f] \in FileRow \cup {None}
      BY <1>0, <1>4 DEF TreeShape
    <3> QED BY <3>1, <3>2
  <2>3. ParentsExist'
    BY <1>0, <1>2, <1>5 DEF ParentsExist
  <2>4. \A f \in FileRows' : file'[f].parent \in Rows' \cup {Root}
    BY <1>0, <1>2, <1>5 DEF TreeShape
  <2> QED BY <2>1, <2>2, <2>3, <2>4 DEF TreeShape
<1>8. PathsFollow'
  <2> SUFFICES ASSUME NEW d \in Rows' PROVE (folder[d].path = Append(PathOf(folder[d].parent), folder[d].name))'
    BY DEF PathsFollow, Join
  <2>1. PICK p : p = folder[d].parent
    OBVIOUS
  <2>2. folder[d].path = Append(PathOf(p), folder[d].name) /\ p \in Rows' \cup {Root} /\ d \in Rows
    BY <1>0, <1>2, <1>5, <2>1 DEF ParentsExist, PathsFollow, Join
  <2>3. folder'[d] = folder[d] /\ PathOf(p)' = PathOf(p)
    BY <1>5, <2>2 DEF PathOf
  <2> QED BY <2>1, <2>2, <2>3
<1>9. NamesApart'
  BY <1>3, <1>5 DEF TreeInv, NamesApart
<1>10. Reachable'
  <2>1. Live' \subseteq Rows'
    BY DEF Live
  <2>2. LiveFiles' \subseteq FileRows'
    BY DEF LiveFiles
  <2> QED BY <1>5, <1>6, <2>1, <2>2 DEF TreeInv, Reachable
<1>11. OneOfAName'
  <2>1. Live' \subseteq Rows'
    BY DEF Live
  <2>2. LiveFiles' \subseteq FileRows'
    BY DEF LiveFiles
  <2>3. \A d, e \in Live' : folder'[d].path = folder'[e].path => d = e
    BY <1>5, <2>1 DEF TreeInv, OneOfAName
  <2>4. \A f \in LiveFiles', d \in Live' :
           ~(folder'[d].parent = file'[f].parent /\ folder'[d].name = file'[f].name)
    BY <1>5, <1>6, <2>1, <2>2 DEF TreeInv, OneOfAName, FolderClash
  <2> QED BY <2>3, <2>4 DEF OneOfAName, FolderClash
<1> QED BY <1>7, <1>8, <1>9, <1>10, <1>11 DEF TreeInv

-----------------------------------------------------------------------------
(* What changes the shape of the tree *)

\* A new folder, in a folder that is live, at a path nothing live has.
LEMMA MakeKeeps ==
    ASSUME TreeInv, NEW w, MakeDue(w), Make(w)
    PROVE  TreeInv'
<1>1. PICK n \in Folders, p \in Live \cup {Root}, name \in Names :
         /\ w = [op |-> "make", id |-> n, parent |-> p, name |-> name, path |-> Join(p, name)]
         /\ folder[n] = None /\ MayNameFolder(p, name)
         /\ ~PathTaken(Join(p, name), {}) /\ ~FileClash(p, name, {})
  BY DEF MakeDue
<1>2. /\ p \in Rows \cup {Root} /\ p \in Parents /\ n \notin Rows /\ n # Root /\ n # p
      /\ TreeShape /\ PathsFollow /\ ParentsExist
  BY <1>1, TreeAssumption DEF Live, Rows, Parents, TreeInv, TreeShape
<1>3. PICK path, row : path = Join(p, name) /\ row = [name |-> name, parent |-> p, path |-> path, state |-> "live"]
  OBVIOUS
<1>4. path \in Seq(Names)
  <2>1. PICK s : s = PathOf(p)
    OBVIOUS
  <2>2. s \in Seq(Names)
    BY <1>2, <2>1, TreePathOf
  <2>3. path = Append(s, name)
    BY <1>3, <2>1 DEF Join
  <2> QED BY <2>2, <2>3
<1>5. row \in FolderRow /\ row # None
  BY <1>2, <1>3, <1>4, TreeRowAssumption DEF FolderRow, States
<1>6. UNCHANGED <<file, habits>> /\ folder' = [folder EXCEPT ![n] = row]
  BY <1>1, <1>2, <1>3 DEF Make, Done
<1>7. folder'[n] = row /\ \A d \in Folders \ {n} : folder'[d] = folder[d]
  BY <1>2, <1>6 DEF TreeShape
<1>8. /\ Rows' = Rows \cup {n} /\ Live' = Live \cup {n} /\ FileRows' = FileRows /\ LiveFiles' = LiveFiles
      /\ \A d \in Rows : folder'[d] = folder[d]
  <2>1. Rows' = Rows \cup {n} /\ FileRows' = FileRows /\ LiveFiles' = LiveFiles
    BY <1>5, <1>6, <1>7 DEF Rows, FileRows, LiveFiles
  <2>2. \A d \in Rows : folder'[d] = folder[d]
    BY <1>2, <1>7 DEF Rows
  <2>3. Live' = Live \cup {n}
    BY <1>3, <1>7, <2>1, <2>2 DEF Live
  <2> QED BY <2>1, <2>2, <2>3
<1>9. \A q \in Rows \cup {Root} : PathOf(q)' = PathOf(q)
  BY <1>8 DEF PathOf
<1>10. TreeShape'
  <2>1. folder' \in [Folders -> FolderRow \cup {None}] /\ file' \in [Files -> FileRow \cup {None}] /\ habits' \in Habits
    BY <1>2, <1>5, <1>6 DEF TreeShape
  <2>2. ParentsExist'
    BY <1>2, <1>3, <1>7, <1>8 DEF ParentsExist
  <2>3. \A f \in FileRows' : file'[f].parent \in Rows' \cup {Root}
    BY <1>2, <1>6, <1>8 DEF TreeShape
  <2> QED BY <2>1, <2>2, <2>3 DEF TreeShape
<1>11. PathsFollow'
  <2> SUFFICES ASSUME NEW d \in Rows' PROVE (folder[d].path = Append(PathOf(folder[d].parent), folder[d].name))'
    BY DEF PathsFollow, Join
  <2>1. CASE d = n
    BY <1>2, <1>3, <1>7, <1>9, <2>1 DEF Join
  <2>2. CASE d # n
    <3>1. PICK q : q = folder[d].parent
      OBVIOUS
    <3>2. folder[d].path = Append(PathOf(q), folder[d].name) /\ q \in Rows \cup {Root} /\ d \in Rows
      BY <1>2, <1>8, <2>2, <3>1 DEF ParentsExist, PathsFollow, Join
    <3> QED BY <1>8, <1>9, <3>1, <3>2
  <2> QED BY <2>1, <2>2
<1>12. /\ "reuse" \in habits \/ \A d \in Rows : ~SamePlace(folder[d], row)
       /\ "cross" \in habits \/ \A f \in FileRows : ~SamePlace(row, file[f])
       /\ \A f \in LiveFiles : ~SamePlace(row, file[f])
       /\ \A d \in Live : folder[d].path # row.path
  BY <1>1, <1>3 DEF MayNameFolder, NameOfFolder, NameOfFile, FileClash, PathTaken, SamePlace
<1>13. NamesApart'
  BY <1>6, <1>7, <1>8, <1>12 DEF TreeInv, NamesApart, SamePlace
<1>14. Reachable'
  BY <1>3, <1>6, <1>7, <1>8 DEF TreeInv, Reachable, Live
<1>15. OneOfAName'
  <2>1. \A d \in Live : folder'[d] = folder[d] /\ d # n
    BY <1>2, <1>8 DEF Live
  <2>2. \A d, e \in Live' : folder'[d].path = folder'[e].path => d = e
    BY <1>7, <1>8, <1>12, <2>1 DEF TreeInv, OneOfAName
  <2>3. \A f \in LiveFiles', d \in Live' :
           ~(folder'[d].parent = file'[f].parent /\ folder'[d].name = file'[f].name)
    BY <1>6, <1>7, <1>8, <1>12, <2>1 DEF TreeInv, OneOfAName, FolderClash, SamePlace
  <2> QED BY <2>2, <2>3 DEF OneOfAName, FolderClash
<1> QED BY <1>10, <1>11, <1>13, <1>14, <1>15 DEF TreeInv

\* A renamed or moved folder takes the folders below it, by path, along: they are
\* those below it by parent link, so paths follow parents again.
LEMMA MoveKeeps ==
    ASSUME TreeInv, Tidy, NEW w, MoveDue(w), Move(w)
    PROVE  TreeInv'
<1>1. PICK m \in Rows, p \in Rows \cup {Root}, name \in Names :
         /\ w = [op |-> "move", id |-> m, parent |-> p, name |-> name,
                 old |-> folder[m].path, path |-> Join(p, name)]
         /\ "rename" \in habits
         /\ p # folder[m].parent =>
              p \in Live \cup {Root} /\ p # m /\ ~Under(folder[m].path, PathOf(p))
         /\ <<p, name>> # <<folder[m].parent, folder[m].name>> =>
              MayNameFolder(p, name) /\ ~FileClash(p, name, {})
  BY DEF MoveDue
<1>2. /\ TreeShape /\ PathsFollow /\ ParentsExist /\ "reuse" \notin habits
      /\ p \in Parents /\ m \in Folders /\ m # Root
  BY <1>1, TreeAssumption DEF Rows, Parents, TreeInv, TreeShape, Tidy
<1>3. PICK old, new : old = folder[m].path /\ new = Join(p, name)
  OBVIOUS
<1>4. /\ old \in Seq(Names) /\ new \in Seq(Names) /\ new = Append(PathOf(p), name)
      /\ PathOf(p) \in Seq(Names)
  <2>1. PICK s : s = PathOf(p)
    OBVIOUS
  <2>2. s \in Seq(Names)
    BY <1>2, <2>1, TreePathOf
  <2>3. new = Append(s, name)
    BY <1>3, <2>1 DEF Join
  <2>4. old \in Seq(Names)
    BY <1>2, <1>3, TreePaths
  <2> QED BY <2>1, <2>2, <2>3, <2>4
<1>5. \A d, e \in Rows : folder[d].path = folder[e].path => d = e
  BY <1>2, PathsTell DEF TreeInv
<1>6. p # m /\ ~Under(old, PathOf(p))
  <2>1. CASE p = folder[m].parent
    <3>1. Len(folder[m].path) = Len(PathOf(p)) + 1 /\ Len(PathOf(p)) \in Nat /\ PathOf(m) = folder[m].path
      BY <1>2, <2>1, TreePaths
    <3>2. ~(Len(PathOf(p)) > Len(old))
      BY <1>3, <3>1
    <3>3. p # m
      BY <3>1
    <3> QED BY <3>2, <3>3 DEF Under
  <2> QED BY <1>1, <1>3, <2>1
<1>7. PICK moved : moved = [e \in Folders |-> MovedPath(w, e)]
  OBVIOUS
<1>8. /\ moved[m] = new
      /\ \A e \in Rows \ {m} : moved[e] = IF Under(old, folder[e].path) THEN Rebased(new, old, folder[e].path)
                                          ELSE folder[e].path
  BY <1>1, <1>2, <1>3, <1>7 DEF MovedPath, Rebased, Rows
<1>9. \A e \in Rows : moved[e] \in Seq(Names)
  <2> TAKE e \in Rows
  <2>1. PICK q : q = folder[e].path
    OBVIOUS
  <2>2. q \in Seq(Names)
    BY <1>2, <2>1, TreePaths
  <2>3. Rebased(new, old, q) \in Seq(Names)
    BY <1>1, <1>4, <2>2, RebasedAppend
  <2> QED BY <1>4, <1>8, <2>1, <2>2, <2>3
<1>10. /\ UNCHANGED <<file, habits>>
       /\ folder' = [d \in Folders |->
                       IF d \notin Rows THEN None
                       ELSE [folder[d] EXCEPT !.path = moved[d],
                                              !.name = IF d = m THEN name ELSE folder[d].name,
                                              !.parent = IF d = m THEN p ELSE folder[d].parent]]
  <2>1. w.id = m /\ w.name = name /\ w.parent = p
    BY <1>1
  <2>2. \A d \in Folders : moved[d] = MovedPath(w, d)
    BY <1>7
  <2>3. \A d \in Rows : folder[d] \in [name : Names, parent : Parents, path : Seq(Names), state : States]
    BY <1>2 DEF TreeShape, Rows, FolderRow
  <2> QED BY <1>1, <2>1, <2>2, <2>3 DEF Move, Done
<1>11. ASSUME NEW d \in Rows
       PROVE  /\ folder'[d] \in FolderRow /\ folder'[d] # None
              /\ folder'[d].path = moved[d] /\ folder'[d].state = folder[d].state
              /\ folder'[d].name = IF d = m THEN name ELSE folder[d].name
              /\ folder'[d].parent = IF d = m THEN p ELSE folder[d].parent
  <2>1. PICK before, x, y, z : before = folder[d] /\ x = moved[d] /\ y = (IF d = m THEN name ELSE folder[d].name)
                               /\ z = (IF d = m THEN p ELSE folder[d].parent)
    OBVIOUS
  <2>2. before \in [name : Names, parent : Parents, path : Seq(Names), state : States]
    BY <1>2, <2>1 DEF TreeShape, Rows, FolderRow
  <2>3. x \in Seq(Names) /\ y \in Names /\ z \in Parents
    BY <1>2, <1>9, <2>1, <2>2
  <2>4. PICK row : row = [before EXCEPT !.path = x, !.name = y, !.parent = z]
    OBVIOUS
  <2>5. /\ row \in [name : Names, parent : Parents, path : Seq(Names), state : States]
        /\ row.path = x /\ row.name = y /\ row.parent = z /\ row.state = before.state
    BY <2>2, <2>3, <2>4
  <2>6. folder'[d] = row
    BY <1>10, <2>1, <2>4 DEF Rows
  <2> QED BY <2>1, <2>5, <2>6, TreeRowAssumption DEF FolderRow
<1>12. /\ Rows' = Rows /\ Live' = Live /\ FileRows' = FileRows /\ LiveFiles' = LiveFiles
       /\ folder' \in [Folders -> FolderRow \cup {None}]
  <2>1. \A d \in Folders \ Rows : folder'[d] = None
    BY <1>10
  <2>2. Rows' = Rows
    BY <1>11, <2>1 DEF Rows
  <2>3. folder' = [d \in Folders |-> folder'[d]] /\ \A d \in Folders : folder'[d] \in FolderRow \cup {None}
    BY <1>10, <1>11, <2>1
  <2>4. Live' = Live
    BY <1>11, <2>2 DEF Live
  <2>5. FileRows' = FileRows /\ LiveFiles' = LiveFiles
    BY <1>10 DEF FileRows, LiveFiles
  <2> QED BY <2>2, <2>3, <2>4, <2>5
<1>13. TreeShape'
  <2>1. ParentsExist'
    BY <1>2, <1>11, <1>12 DEF ParentsExist
  <2>2. \A f \in FileRows' : file'[f].parent \in Rows' \cup {Root}
    BY <1>2, <1>10, <1>12 DEF TreeShape
  <2>3. file' \in [Files -> FileRow \cup {None}] /\ habits' \in Habits
    BY <1>2, <1>10 DEF TreeShape
  <2> QED BY <1>12, <2>1, <2>2, <2>3 DEF TreeShape
<1>14. PathOf(Root)' = <<>> /\ PathOf(Root) = <<>> /\ \A e \in Rows : PathOf(e)' = moved[e] /\ PathOf(e) = folder[e].path
  BY <1>11, TreeAssumption DEF PathOf, Rows
<1>15. PathOf(p)' = PathOf(p)
  BY <1>1, <1>6, <1>8, <1>14
<1>16. ASSUME NEW e \in Rows, e # m
       PROVE  \E q : q = folder[e].parent /\ moved[e] = Append(PathOf(q)', folder[e].name)
  <2>1. PICK q, x : q = folder[e].parent /\ x = folder[e].name
    OBVIOUS
  <2>2. q \in Rows \cup {Root} /\ folder[e].path = Append(PathOf(q), x) /\ x \in Names
    BY <1>2, <2>1 DEF TreeShape, ParentsExist, PathsFollow, Join, FolderRow, Rows
  <2>3. PICK s : s = PathOf(q)
    OBVIOUS
  <2>4. s \in Seq(Names) /\ Len(s) \in Nat /\ Len(old) \in Nat
    BY <1>2, <1>4, <2>2, <2>3, TreePathOf
  <2>5. Under(old, Append(s, x)) <=> s = old \/ Under(old, s)
    BY <1>4, <2>2, <2>4, UnderAppend
  <2>6. /\ Rebased(new, old, old) = new
        /\ Len(s) >= Len(old) => Rebased(new, old, Append(s, x)) = Append(Rebased(new, old, s), x)
    <3>1. new \in Seq(Names) /\ old \in Seq(Names) /\ s \in Seq(Names) /\ x \in Names
      BY <1>4, <2>2, <2>4
    <3> QED BY ONLY <3>1, RebasedAppend
  <2>7. moved[e] = IF Under(old, Append(s, x)) THEN Rebased(new, old, Append(s, x)) ELSE Append(s, x)
    BY <1>8, <1>16, <2>2, <2>3
  <2>8. CASE q = m
    <3>1. s = old /\ PathOf(q)' = new
      BY <1>3, <1>8, <1>14, <2>3, <2>8
    <3>2. moved[e] = Append(new, x)
      BY <2>4, <2>5, <2>6, <2>7, <3>1
    <3> QED BY <2>1, <3>1, <3>2
  <2>9. CASE q # m
    <3>1. s # old
      <4>1. CASE q = Root
        <5>1. s = <<>>
          BY <1>14, <2>3, <4>1
        <5>2. Len(old) > 0
          <6>1. Len(old) = Len(PathOf(folder[m].parent)) + 1 /\ Len(PathOf(folder[m].parent)) \in Nat
            BY <1>2, <1>3, TreePaths
          <6> QED BY <6>1
        <5> QED BY <5>1, <5>2, EmptySeq
      <4>2. CASE q # Root
        BY <1>3, <1>5, <1>14, <2>2, <2>3, <2>9, <4>2
      <4> QED BY <4>1, <4>2
    <3>2. PathOf(q)' = IF Under(old, s) THEN Rebased(new, old, s) ELSE s
      <4>1. CASE q = Root
        <5>1. s = <<>> /\ PathOf(q)' = s
          BY <1>14, <2>3, <4>1
        <5>2. ~Under(old, s)
          BY <2>4, <5>1 DEF Under
        <5> QED BY <5>1, <5>2
      <4>2. CASE q # Root
        BY <1>8, <1>14, <2>2, <2>3, <2>9, <4>2
      <4> QED BY <4>1, <4>2
    <3>3. Under(old, s) => Len(s) >= Len(old)
      BY <2>4 DEF Under
    <3> QED BY <2>1, <2>5, <2>6, <2>7, <3>1, <3>2, <3>3
  <2> QED BY <2>8, <2>9
<1>17. PathsFollow'
  <2> SUFFICES ASSUME NEW d \in Rows PROVE (folder[d].path = Append(PathOf(folder[d].parent), folder[d].name))'
    BY <1>12 DEF PathsFollow, Join
  <2>1. CASE d = m
    BY <1>4, <1>8, <1>11, <1>15, <2>1
  <2>2. CASE d # m
    <3>1. PICK q : q = folder[d].parent /\ moved[d] = Append(PathOf(q)', folder[d].name)
      BY <1>16, <2>2
    <3>2. folder'[d].parent = q /\ folder'[d].name = folder[d].name /\ folder'[d].path = moved[d]
      BY <1>11, <2>2, <3>1
    <3> QED BY <3>1, <3>2
  <2> QED BY <2>1, <2>2
<1>18. /\ \A d, e \in Rows : SamePlace(folder[d], folder[e]) => d = e
       /\ "cross" \in habits \/ \A d \in Rows, f \in FileRows : ~SamePlace(folder[d], file[f])
       /\ \A d \in Live, f \in LiveFiles : ~SamePlace(folder[d], file[f])
  BY <1>2 DEF TreeInv, NamesApart, OneOfAName, FolderClash, SamePlace
<1>19. PICK row : row = folder'[m]
  OBVIOUS
<1>20. row.parent = p /\ row.name = name
  BY <1>11, <1>19
<1>21. /\ \A e \in Rows \ {m} : ~SamePlace(row, folder[e])
       /\ "cross" \in habits \/ \A f \in FileRows : ~SamePlace(row, file[f])
       /\ m \in Live => \A f \in LiveFiles : ~SamePlace(row, file[f])
  <2>1. CASE <<p, name>> = <<folder[m].parent, folder[m].name>>
    <3>1. row.parent = folder[m].parent /\ row.name = folder[m].name
      BY <1>20, <2>1
    <3> QED BY <1>18, <3>1 DEF SamePlace
  <2>2. CASE <<p, name>> # <<folder[m].parent, folder[m].name>>
    <3>1. MayNameFolder(p, name) /\ ~FileClash(p, name, {})
      BY <1>1, <2>2
    <3> QED BY <1>2, <1>20, <3>1 DEF MayNameFolder, NameOfFolder, NameOfFile, FileClash, SamePlace
  <2> QED BY <2>1, <2>2
<1>22. \A d \in Rows \ {m} : folder'[d].parent = folder[d].parent /\ folder'[d].name = folder[d].name
  BY <1>11
<1>23. \A d, e \in Rows : SamePlace(folder'[d], folder'[e]) => d = e
  BY <1>18, <1>19, <1>21, <1>22 DEF SamePlace
<1>24. "cross" \in habits \/ \A d \in Rows, f \in FileRows : ~SamePlace(folder'[d], file[f])
  BY <1>18, <1>19, <1>21, <1>22 DEF SamePlace
<1>25. NamesApart'
  <2>1. file' = file /\ habits' = habits
    BY <1>10
  <2>2. \A d, e \in Rows' : SamePlace(folder'[d], folder'[e]) => d = e
    BY <1>12, <1>23
  <2>3. "cross" \in habits' \/ \A d \in Rows', f \in FileRows' : ~SamePlace(folder'[d], file'[f])
    BY <1>12, <1>24, <2>1
  <2> QED BY <2>2, <2>3 DEF NamesApart, SamePlace
<1>26. \A d \in Live : folder[d].parent \in Live \cup {Root} /\ d \in Rows
  BY DEF TreeInv, Reachable, Live
<1>27. Reachable'
  <2>1. \A d \in Live' : folder'[d].parent \in Live' \cup {Root}
    BY <1>1, <1>11, <1>12, <1>26
  <2>2. \A f \in LiveFiles' : file'[f].parent \in Live' \cup {Root}
    BY <1>10, <1>12 DEF TreeInv, Reachable
  <2> QED BY <2>1, <2>2 DEF Reachable
<1>28. OneOfAName'
  <2>1. PICK fo : fo = folder'
    OBVIOUS
  <2>2. Grown(folder)' /\ RowsOf(folder)' = Rows'
    <3>1. (TreeShape /\ PathsFollow => Grown(folder) /\ RowsOf(folder) = Rows)'
      BY TreeGrown, PTL
    <3> QED BY <1>13, <1>17, <3>1
  <2>3. Grown(fo) /\ RowsOf(fo) = Rows
    BY <1>12, <2>1, <2>2 DEF Grown, RowsOf, PathIn
  <2>4. \A d, e \in RowsOf(fo) : fo[d].path = fo[e].path => d = e
    BY <1>23, <2>1, <2>3, PathsDiffer
  <2>5. \A d, e \in Live' : folder'[d].path = folder'[e].path => d = e
    BY <1>12, <1>26, <2>1, <2>3, <2>4
  <2>6. \A f \in LiveFiles', d \in Live' :
           ~(folder'[d].parent = file'[f].parent /\ folder'[d].name = file'[f].name)
    <3>1. \A d \in Live, f \in LiveFiles : ~SamePlace(folder'[d], file[f])
      <4> TAKE d \in Live, f \in LiveFiles
      <4>1. CASE d = m
        BY <1>19, <1>21, <4>1
      <4>2. CASE d # m
        BY <1>18, <1>22, <1>26, <4>2 DEF SamePlace
      <4> QED BY <4>1, <4>2
    <3>2. file' = file
      BY <1>10
    <3> QED BY <1>12, <3>1, <3>2 DEF SamePlace
  <2> QED BY <2>5, <2>6 DEF OneOfAName, FolderClash
<1> QED BY <1>13, <1>17, <1>25, <1>27, <1>28 DEF TreeInv

-----------------------------------------------------------------------------
(* From the reads to the write *)

\* A decision writes nothing yet: what it looked at is as it was.
Unread == UNCHANGED <<folder, file, habits>>

LEMMA UnreadSame ==
    ASSUME Unread
    PROVE  /\ Rows' = Rows /\ Live' = Live /\ FileRows' = FileRows /\ LiveFiles' = LiveFiles
           /\ \A p : PathOf(p)' = PathOf(p) /\ Up(p)' = Up(p) /\ TrashedUp(p)' = TrashedUp(p)
<1>1. /\ Rows' = Rows /\ Live' = Live /\ FileRows' = FileRows /\ LiveFiles' = LiveFiles
      /\ \A p : PathOf(p)' = PathOf(p)
  BY DEF Unread, Rows, Live, FileRows, LiveFiles, PathOf
<1>2. \A p : Up(p)' = Up(p)
  BY DEF Unread, Up
<1>3. \A p : TrashedUp(p)' = TrashedUp(p)
  BY <1>2 DEF Unread, TrashedUp
<1> QED BY <1>1, <1>2, <1>3

LEMMA UnreadChecks ==
    ASSUME Unread
    PROVE  /\ \A path, except : PathTaken(path, except)' <=> PathTaken(path, except)
           /\ \A p, name, except : FileClash(p, name, except)' <=> FileClash(p, name, except)
           /\ \A p, name : /\ FolderClash(p, name)' <=> FolderClash(p, name)
                           /\ MayNameFolder(p, name)' <=> MayNameFolder(p, name)
                           /\ MayNameFile(p, name)' <=> MayNameFile(p, name)
           /\ \A d : FolderRestorable(d)' <=> FolderRestorable(d)
           /\ \A f : FileRestorable(f)' <=> FileRestorable(f)
           /\ \A ds, fs : RestoredFolders(ds, fs)' = RestoredFolders(ds, fs)
           /\ \A sweep : PurgedFiles(sweep)' = PurgedFiles(sweep) /\ Deletable(sweep)' = Deletable(sweep)
<1>1. /\ folder' = folder /\ file' = file /\ habits' = habits
      /\ Rows' = Rows /\ Live' = Live /\ FileRows' = FileRows /\ LiveFiles' = LiveFiles
      /\ \A p : TrashedUp(p)' = TrashedUp(p)
  BY UnreadSame DEF Unread
<1>2. /\ \A path, except : PathTaken(path, except)' <=> PathTaken(path, except)
      /\ \A p, name, except : FileClash(p, name, except)' <=> FileClash(p, name, except)
      /\ \A p, name : FolderClash(p, name)' <=> FolderClash(p, name)
  BY <1>1 DEF PathTaken, FileClash, FolderClash
<1>3. \A p, name : /\ MayNameFolder(p, name)' <=> MayNameFolder(p, name)
                   /\ MayNameFile(p, name)' <=> MayNameFile(p, name)
  BY <1>1 DEF MayNameFolder, MayNameFile, NameOfFolder, NameOfFile
<1>4. \A p : ChainRestorable(p)' <=> ChainRestorable(p)
  BY <1>1, <1>2 DEF ChainRestorable
<1>5. \A d : FolderRestorable(d)' <=> FolderRestorable(d)
  BY <1>1, <1>2, <1>4 DEF FolderRestorable
<1>6. \A f : FileRestorable(f)' <=> FileRestorable(f)
  BY <1>1, <1>2, <1>4 DEF FileRestorable
<1>7. \A ds, fs : RestoredFolders(ds, fs)' = RestoredFolders(ds, fs)
  BY <1>1 DEF RestoredFolders
<1>8. \A sweep : PurgedFiles(sweep)' = PurgedFiles(sweep)
  BY <1>1 DEF PurgedFiles
<1>9. \A sweep, gone : HoldsFile(sweep, gone)' = HoldsFile(sweep, gone) /\ Candidates(sweep)' = Candidates(sweep)
  BY <1>1 DEF HoldsFile, Candidates
<1>10. \A sweep : Deletable(sweep)' = Deletable(sweep)
  BY <1>1, <1>8, <1>9 DEF Deletable
<1> QED BY <1>2, <1>3, <1>5, <1>6, <1>7, <1>8, <1>10

WriteDue(w) ==
    MakeDue(w) \/ MoveDue(w) \/ TrashDue(w) \/ AddDue(w) \/ MoveFileDue(w) \/ TrashFileDue(w)
    \/ RestoreDue(w) \/ PurgeDue(w)

LEMMA StillDue ==
    ASSUME Unread, NEW w, WriteDue(w)
    PROVE  WriteDue(w)'
<1>1. /\ folder' = folder /\ file' = file /\ habits' = habits
      /\ Rows' = Rows /\ Live' = Live /\ FileRows' = FileRows /\ LiveFiles' = LiveFiles
      /\ \A p : PathOf(p)' = PathOf(p)
      /\ \A p, name : Join(p, name)' = Join(p, name)
  BY UnreadSame DEF Unread, Join
<1>2. MakeDue(w) => MakeDue(w)'
  BY <1>1, UnreadChecks DEF MakeDue
<1>3. MoveDue(w) => MoveDue(w)'
  BY <1>1, UnreadChecks DEF MoveDue
<1>4. TrashDue(w) => TrashDue(w)'
  BY <1>1 DEF TrashDue
<1>5. AddDue(w) => AddDue(w)'
  BY <1>1, UnreadChecks DEF AddDue
<1>6. MoveFileDue(w) => MoveFileDue(w)'
  BY <1>1, UnreadChecks DEF MoveFileDue
<1>7. TrashFileDue(w) => TrashFileDue(w)'
  BY <1>1 DEF TrashFileDue
<1>8. ASSUME RestoreDue(w) PROVE RestoreDue(w)'
  <2>1. PICK ds \in SUBSET (Rows \ Live), fs \in SUBSET (FileRows \ LiveFiles) :
           /\ Cardinality(ds \cup fs) > 1 => "batch" \in habits
           /\ RestoredFolders(ds, fs) # ds => "deep" \in habits
           /\ w = [op |-> "restore",
                   folders |-> RestoredFolders({d \in ds : FolderRestorable(d)}, {f \in fs : FileRestorable(f)}),
                   files |-> {f \in fs : FileRestorable(f)}]
    BY <1>8 DEF RestoreDue
  <2>2. PICK back, backFiles : /\ back = {d \in ds : FolderRestorable(d)}
                               /\ backFiles = {f \in fs : FileRestorable(f)}
    OBVIOUS
  <2>3. /\ {d \in ds : FolderRestorable(d)}' = back /\ {f \in fs : FileRestorable(f)}' = backFiles
        /\ RestoredFolders(back, backFiles)' = RestoredFolders(back, backFiles)
        /\ RestoredFolders(ds, fs)' = RestoredFolders(ds, fs)
    BY <2>2, UnreadChecks
  <2>4. w = [op |-> "restore",
             folders |-> RestoredFolders({d \in ds : FolderRestorable(d)}, {f \in fs : FileRestorable(f)})',
             files |-> {f \in fs : FileRestorable(f)}']
    BY <2>1, <2>2, <2>3
  <2>5. ds \in SUBSET (Rows \ Live)' /\ fs \in SUBSET (FileRows \ LiveFiles)'
    BY <1>1
  <2> QED BY <1>1, <2>1, <2>3, <2>4, <2>5 DEF RestoreDue
<1>9. PurgeDue(w) => PurgeDue(w)'
  BY <1>1, UnreadChecks DEF PurgeDue
<1> QED BY <1>2, <1>3, <1>4, <1>5, <1>6, <1>7, <1>8, <1>9 DEF WriteDue

\* The guards of a decision say that what it decides may be written.
LEMMA DecidedIsDue ==
    ASSUME TreeInv, Decision
    PROVE  \E w : WriteDue(w) /\ Decide(w)
<1>0. /\ ParentsExist /\ Live \subseteq Rows /\ Rows \subseteq Folders /\ LiveFiles \subseteq FileRows
      /\ FileRows \subseteq Files /\ \A f \in FileRows : file[f].parent \in Rows \cup {Root} /\ file[f].parent \in Parents
  BY DEF TreeInv, TreeShape, Live, Rows, LiveFiles, FileRows, Parents
<1>1. ASSUME NEW d \in Folders, NEW p \in Parents, NEW name \in Names, DecideMake(d, p, name)
      PROVE  \E w : WriteDue(w) /\ Decide(w)
  <2>1. PICK w : w = [op |-> "make", id |-> d, parent |-> p, name |-> name, path |-> Join(p, name)]
    OBVIOUS
  <2>2. MakeDue(w) /\ Decide(w)
    BY <1>1, <2>1 DEF DecideMake, Unused, MakeDue
  <2> QED BY <2>2 DEF WriteDue
<1>2. ASSUME NEW d \in Folders, NEW p \in Parents, NEW name \in Names, DecideMove(d, p, name)
      PROVE  \E w : WriteDue(w) /\ Decide(w)
  <2>1. PICK w : w = [op |-> "move", id |-> d, parent |-> p, name |-> name,
                      old |-> folder[d].path, path |-> Join(p, name)]
    OBVIOUS
  <2>2. d \in Rows /\ p \in Rows \cup {Root} /\ Decide(w)
    BY <1>0, <1>2, <2>1 DEF DecideMove, ParentsExist
  <2>3. MoveDue(w)
    BY <1>2, <2>1, <2>2 DEF DecideMove, MoveDue
  <2> QED BY <2>2, <2>3 DEF WriteDue
<1>3. ASSUME NEW d \in Folders, DecideTrash(d)
      PROVE  \E w : WriteDue(w) /\ Decide(w)
  BY <1>3 DEF DecideTrash, TrashDue, WriteDue
<1>4. ASSUME NEW f \in Files, NEW p \in Parents, NEW name \in Names, DecideAdd(f, p, name)
      PROVE  \E w : WriteDue(w) /\ Decide(w)
  <2>1. PICK home, settled : /\ home = (IF p \in Live THEN p ELSE Root)
                             /\ settled = (IF FolderClash(home, name) THEN Suffixed ELSE name)
    OBVIOUS
  <2>2. PICK w : w = [op |-> "add", id |-> f, parent |-> home, name |-> settled]
    OBVIOUS
  <2>3. MayNameFile(home, settled) /\ Decide(w) /\ file[f] = None
    BY <1>4, <2>1, <2>2 DEF DecideAdd
  <2>4. home \in Live \cup {Root} /\ settled \in Names \cup {Suffixed}
    BY <2>1
  <2>5. \A d \in Live : folder[d].name \in Names
    BY DEF TreeInv, TreeShape, Live, Rows, FolderRow
  <2>6. ~FolderClash(home, settled)
    BY <2>1, <2>5, TreeAssumption DEF FolderClash
  <2>7. AddDue(w)
    BY <2>2, <2>3, <2>4, <2>6 DEF AddDue
  <2> QED BY <2>3, <2>7 DEF WriteDue
<1>5. ASSUME NEW f \in Files, NEW p \in Parents, NEW name \in Names, DecideMoveFile(f, p, name)
      PROVE  \E w : WriteDue(w) /\ Decide(w)
  <2>1. PICK w : w = [op |-> "movefile", id |-> f,
                      parent |-> IF p = file[f].parent THEN None ELSE p,
                      name |-> IF name = file[f].name THEN None ELSE name]
    OBVIOUS
  <2>2. f \in LiveFiles /\ Decide(w)
    BY <1>5, <2>1 DEF DecideMoveFile
  <2>3. MoveFileDue(w)
    BY <1>5, <2>1, <2>2 DEF DecideMoveFile, MoveFileDue
  <2> QED BY <2>2, <2>3 DEF WriteDue
<1>6. ASSUME NEW f \in Files, DecideTrashFile(f)
      PROVE  \E w : WriteDue(w) /\ Decide(w)
  BY <1>6 DEF DecideTrashFile, TrashFileDue, WriteDue
<1>7. ASSUME NEW f \in Files, DecideDeleteFile(f)
      PROVE  \E w : WriteDue(w) /\ Decide(w)
  BY <1>7 DEF DecideDeleteFile, PurgeDue, WriteDue
<1>8. ASSUME NEW ds \in SUBSET Folders, NEW fs \in SUBSET Files, DecideRestore(ds, fs)
      PROVE  \E w : WriteDue(w) /\ Decide(w)
  <2>1. PICK w : w = [op |-> "restore",
                      folders |-> RestoredFolders({d \in ds : FolderRestorable(d)}, {f \in fs : FileRestorable(f)}),
                      files |-> {f \in fs : FileRestorable(f)}]
    OBVIOUS
  <2>2. Decide(w) /\ ds \in SUBSET (Rows \ Live) /\ fs \in SUBSET (FileRows \ LiveFiles)
    BY <1>8, <2>1 DEF DecideRestore
  <2>3. RestoreDue(w)
    BY <1>8, <2>1, <2>2 DEF DecideRestore, RestoreDue
  <2> QED BY <2>2, <2>3 DEF WriteDue
<1>9. ASSUME NEW sweep \in BOOLEAN, DecidePurge(sweep)
      PROVE  \E w : WriteDue(w) /\ Decide(w)
  BY <1>9 DEF DecidePurge, PurgeDue, WriteDue
<1> QED BY <1>1, <1>2, <1>3, <1>4, <1>5, <1>6, <1>7, <1>8, <1>9 DEF Decision

\* Which write a request is for.
LEMMA DueKinds ==
    ASSUME NEW w
    PROVE  /\ MakeDue(w) => w.op = "make"
           /\ MoveDue(w) => w.op = "move"
           /\ TrashDue(w) => w.op = "trash"
           /\ AddDue(w) => w.op = "add"
           /\ MoveFileDue(w) => w.op = "movefile"
           /\ TrashFileDue(w) => w.op = "trashfile"
           /\ RestoreDue(w) => w.op = "restore"
           /\ PurgeDue(w) => w.op = "purge"
<1>1. MakeDue(w) => w.op = "make"
  BY DEF MakeDue
<1>2. MoveDue(w) => w.op = "move"
  BY DEF MoveDue
<1>3. TrashDue(w) => w.op = "trash"
  BY DEF TrashDue
<1>4. AddDue(w) => w.op = "add"
  BY DEF AddDue
<1>5. MoveFileDue(w) => w.op = "movefile"
  BY DEF MoveFileDue
<1>6. TrashFileDue(w) => w.op = "trashfile"
  BY DEF TrashFileDue
<1>7. RestoreDue(w) => w.op = "restore"
  BY DEF RestoreDue
<1>8. PurgeDue(w) => w.op = "purge"
  BY DEF PurgeDue
<1> QED BY <1>1, <1>2, <1>3, <1>4, <1>5, <1>6, <1>7, <1>8

LEMMA WriteKeeps ==
    ASSUME TreeInv, Tidy, NEW w, WriteDue(w),
           Make(w) \/ Move(w) \/ Trash(w) \/ Add(w) \/ MoveFile(w) \/ TrashFile(w) \/ Restore(w) \/ Purge(w)
    PROVE  TreeInv'
<1>1. CASE Make(w)
  <2>1. w.op = "make"
    BY <1>1 DEF Make
  <2>2. MakeDue(w)
    BY <2>1, DueKinds DEF WriteDue
  <2> QED BY <1>1, <2>2, MakeKeeps
<1>2. CASE Move(w)
  <2>1. w.op = "move"
    BY <1>2 DEF Move
  <2>2. MoveDue(w)
    BY <2>1, DueKinds DEF WriteDue
  <2> QED BY <1>2, <2>2, MoveKeeps
<1>3. CASE Trash(w)
  <2>1. w.op = "trash"
    BY <1>3 DEF Trash
  <2>2. TrashDue(w)
    BY <2>1, DueKinds DEF WriteDue
  <2> QED BY <1>3, <2>2, TrashKeeps
<1>4. CASE Add(w)
  <2>1. w.op = "add"
    BY <1>4 DEF Add
  <2>2. AddDue(w)
    BY <2>1, DueKinds DEF WriteDue
  <2> QED BY <1>4, <2>2, AddKeeps
<1>5. CASE MoveFile(w)
  <2>1. w.op = "movefile"
    BY <1>5 DEF MoveFile
  <2>2. MoveFileDue(w)
    BY <2>1, DueKinds DEF WriteDue
  <2> QED BY <1>5, <2>2, MoveFileKeeps
<1>6. CASE TrashFile(w)
  <2>1. w.op = "trashfile"
    BY <1>6 DEF TrashFile
  <2>2. TrashFileDue(w)
    BY <2>1, DueKinds DEF WriteDue
  <2> QED BY <1>6, <2>2, TrashFileKeeps
<1>7. CASE Restore(w)
  <2>1. w.op = "restore"
    BY <1>7 DEF Restore
  <2>2. RestoreDue(w)
    BY <2>1, DueKinds DEF WriteDue
  <2> QED BY <1>7, <2>2, RestoreKeeps
<1>8. CASE Purge(w)
  <2>1. w.op = "purge"
    BY <1>8 DEF Purge
  <2>2. PurgeDue(w)
    BY <2>1, DueKinds DEF WriteDue
  <2> QED BY <1>8, <2>2, PurgeKeeps
<1> QED BY <1>1, <1>2, <1>3, <1>4, <1>5, <1>6, <1>7, <1>8

LEMMA UnreadKeeps ==
    ASSUME TreeInv, Unread
    PROVE  TreeInv'
<1>1. /\ folder' = folder /\ file' = file /\ habits' = habits
      /\ Rows' = Rows /\ Live' = Live /\ FileRows' = FileRows /\ LiveFiles' = LiveFiles
      /\ \A p : PathOf(p)' = PathOf(p)
  BY UnreadSame DEF Unread
<1>2. TreeShape' /\ PathsFollow'
  BY <1>1 DEF TreeInv, TreeShape, ParentsExist, PathsFollow, Join
<1>3. NamesApart' /\ Reachable' /\ OneOfAName'
  BY <1>1 DEF TreeInv, NamesApart, Reachable, OneOfAName, FolderClash
<1> QED BY <1>2, <1>3 DEF TreeInv

-----------------------------------------------------------------------------
(* The inductive invariant *)

TreeIInv == TreeInv /\ Pending /\ Cardinality(todo) <= InFlight

LEMMA HabitsAreTidy ==
    ASSUME Orderly, TreeInv
    PROVE  Tidy
  BY DEF Orderly, TreeInv, TreeShape, Tidy

LEMMA TreeStarts ==
    ASSUME Init
    PROVE  TreeIInv
<1>1. folder = [d \in Folders |-> None] /\ file = [f \in Files |-> None] /\ todo = {} /\ habits \in Habits
  BY DEF Init
<1>2. Rows = {} /\ FileRows = {} /\ Live = {} /\ LiveFiles = {}
  BY <1>1 DEF Rows, FileRows, Live, LiveFiles
<1>3. TreeShape
  <2>1. folder \in [Folders -> FolderRow \cup {None}] /\ file \in [Files -> FileRow \cup {None}]
    BY <1>1
  <2> QED BY <1>1, <1>2, <2>1 DEF TreeShape, ParentsExist
<1>4. TreeInv
  BY <1>2, <1>3 DEF TreeInv, PathsFollow, NamesApart, Reachable, OneOfAName
<1>5. Cardinality(todo) <= InFlight
  BY <1>1, FS_EmptySet, TreeAssumption
<1> QED BY <1>1, <1>4, <1>5 DEF TreeIInv, Pending

LEMMA TreeKeeps ==
    ASSUME Orderly, TreeIInv, [Next]_vars
    PROVE  TreeIInv'
<1>1. TreeInv /\ Pending /\ Tidy /\ Cardinality(todo) <= InFlight /\ InFlight \in Nat /\ InFlight <= 1
  BY HabitsAreTidy, TreeAssumption DEF TreeIInv, Orderly
<1>2. todo = {} \/ \E w : todo = {w} /\ WriteDue(w)
  BY <1>1 DEF Pending, WriteDue
<1>3. CASE UNCHANGED vars
  <2>1. Unread /\ todo' = todo
    BY <1>3 DEF vars, Unread
  <2>2. TreeInv'
    BY <1>1, <2>1, UnreadKeeps
  <2>3. Pending'
    BY <1>2, <2>1, StillDue DEF Pending, WriteDue
  <2> QED BY <1>1, <2>1, <2>2, <2>3 DEF TreeIInv
<1>4. CASE Decision
  <2>1. PICK w : WriteDue(w) /\ Decide(w)
    BY <1>1, <1>4, DecidedIsDue
  <2>2. Unread
    BY <2>1 DEF Decide, Unread
  <2>3. todo = {}
    <3>1. ~\E v : todo = {v}
      BY <1>1, <2>1, FS_Singleton DEF Decide
    <3> QED BY <1>2, <3>1
  <2>4. todo' = {w} /\ 0 < InFlight
    BY <2>1, <2>3, FS_EmptySet DEF Decide
  <2>5. Cardinality(todo') <= InFlight
    BY <1>1, <2>4, FS_Singleton
  <2>6. WriteDue(w)'
    BY <2>1, <2>2, StillDue
  <2>7. Pending'
    BY <2>4, <2>6 DEF Pending, WriteDue
  <2>8. TreeInv'
    BY <1>1, <2>2, UnreadKeeps
  <2> QED BY <2>5, <2>7, <2>8 DEF TreeIInv
<1>5. CASE Write
  <2>1. PICK w \in todo : Make(w) \/ Move(w) \/ Trash(w) \/ Add(w) \/ MoveFile(w) \/ TrashFile(w)
                          \/ Restore(w) \/ Purge(w)
    BY <1>5 DEF Write
  <2>2. WriteDue(w) /\ todo = {w}
    BY <1>2, <2>1
  <2>3. Done(w)
    BY <2>1 DEF Make, Move, Trash, Add, MoveFile, TrashFile, Restore, Purge
  <2>4. todo' = {}
    BY <2>2, <2>3 DEF Done
  <2>5. TreeInv'
    BY <1>1, <2>1, <2>2, WriteKeeps
  <2> QED BY <1>1, <2>4, <2>5, FS_EmptySet DEF TreeIInv, Pending
<1>6. CASE Expire
  <2>1. todo' = {}
    BY <1>6 DEF Expire
  <2>2. TreeInv'
    BY <1>1, <1>6, ExpireKeeps
  <2> QED BY <1>1, <2>1, <2>2, FS_EmptySet DEF TreeIInv, Pending
<1> QED BY <1>3, <1>4, <1>5, <1>6 DEF Next

LEMMA TreeIsKept ==
    ASSUME Orderly
    PROVE  AccessSpec => []TreeIInv
<1>1. AccessInit => TreeIInv
  BY TreeStarts DEF AccessInit
<1>2. AccessNext => [Next]_vars
  BY DEF AccessNext, TreeStep, GiveGrant, RevokeGrant, AddMember, RemoveMember, DeleteGroup
<1>3. [AccessNext]_accessVars => [Next]_vars
  BY <1>2 DEF accessVars
<1>4. TreeIInv /\ [AccessNext]_accessVars => TreeIInv'
  BY <1>3, TreeKeeps
<1> QED BY <1>1, <1>4, PTL DEF AccessSpec

\* A folder is below another by path just where it is by parent link, among the
\* live ones.
LEMMA UnderTransitive ==
    ASSUME NEW S, NEW p \in Seq(S), NEW q \in Seq(S), NEW r \in Seq(S), Under(p, q), Under(q, r)
    PROVE  Under(p, r)
<1>1. /\ Len(q) > Len(p) /\ Len(r) > Len(q) /\ Len(p) \in Nat /\ Len(q) \in Nat /\ Len(r) \in Nat
      /\ SubSeq(q, 1, Len(p)) = p /\ SubSeq(r, 1, Len(q)) = q
  BY DEF Under
<1>2. SubSeq(r, 1, Len(p)) \in Seq(S) /\ Len(SubSeq(r, 1, Len(p))) = Len(p)
  BY <1>1
<1>3. \A i \in 1..Len(p) : SubSeq(r, 1, Len(p))[i] = r[i] /\ SubSeq(q, 1, Len(p))[i] = q[i]
  BY <1>1
<1>4. \A i \in 1..Len(q) : SubSeq(r, 1, Len(q))[i] = r[i]
  BY <1>1
<1>5. \A i \in 1..Len(p) : SubSeq(r, 1, Len(p))[i] = p[i]
  BY <1>1, <1>3, <1>4
<1>6. SubSeq(r, 1, Len(p)) = p
  BY <1>2, <1>5, SeqEqual
<1> QED BY <1>1, <1>6 DEF Under

LEMMA UpIsUnder ==
    ASSUME TreeInv, NEW d \in Live, NEW x \in Live
    PROVE  x \in Up(d) <=> folder[x].path = folder[d].path \/ Under(folder[x].path, folder[d].path)
<1>1. TreeShape /\ PathsFollow /\ ParentsExist /\ Reachable /\ Live \subseteq Rows /\ d \in Rows
  BY DEF TreeInv, TreeShape, Live
<1>2. \A e \in Rows : folder[e].path \in Seq(Names)
  BY <1>1, TreePaths
<1>3. ASSUME x \in Up(d) PROVE folder[x].path = folder[d].path \/ Under(folder[x].path, folder[d].path)
  <2> DEFINE T == {e \in Rows : folder[e].path = folder[d].path \/ Under(folder[e].path, folder[d].path)}
  <2>1. d \in T \cup {Root}
    BY <1>1
  <2>2. ASSUME NEW e \in T, folder[e].parent # Root PROVE folder[e].parent \in T
    <3>1. PICK q : q = folder[e].parent
      OBVIOUS
    <3>2. e \in Rows /\ q \in Rows /\ PathOf(q) = folder[q].path
      BY <1>1, <2>2, <3>1, TreePaths
    <3>3. Under(folder[q].path, folder[e].path)
      BY <1>1, <1>2, <3>1, <3>2, TreePaths
    <3>4. Under(folder[q].path, folder[d].path)
      BY <1>1, <1>2, <2>2, <3>2, <3>3, UnderTransitive
    <3> QED BY <3>1, <3>2, <3>4
  <2>3. \A e \in T \cap Rows : folder[e].parent \in T \cup {Root}
    BY <2>2
  <2> HIDE DEF T
  <2>4. Up(d) \subseteq T
    BY <1>1, <2>1, <2>3, UpLeast
  <2> QED BY <1>3, <2>4 DEF T
<1>4. \A e \in Live : Under(folder[x].path, folder[e].path) \/ folder[x].path = folder[e].path => x \in Up(e)
  <2> DEFINE M == {n \in Nat : \E e \in Live : /\ Under(folder[x].path, folder[e].path) \/ folder[x].path = folder[e].path
                                               /\ x \notin Up(e) /\ Len(folder[e].path) = n}
  <2>1. SUFFICES ASSUME M # {} PROVE FALSE
    <3>1. \A e \in Live : Len(folder[e].path) \in Nat
      BY <1>1, <1>2
    <3> QED BY <3>1
  <2>2. PICK n \in M : \A k \in M : n <= k
    <3>1. M \in SUBSET Nat
      OBVIOUS
    <3> HIDE DEF M
    <3> QED BY <2>1, <3>1, NatMinimum
  <2>3. PICK e \in Live : /\ Under(folder[x].path, folder[e].path) \/ folder[x].path = folder[e].path
                          /\ x \notin Up(e) /\ Len(folder[e].path) = n
    BY <2>2
  <2>4. PICK q : q = folder[e].parent
    OBVIOUS
  <2>5. e \in Rows /\ q \in Live \cup {Root} /\ Up(e) = {e} \cup Up(q)
    BY <1>1, <2>4, UpStep DEF Reachable
  <2>6. Under(folder[x].path, folder[e].path)
    BY <2>3, <2>5 DEF TreeInv, OneOfAName
  <2>7. PathOf(q) = folder[x].path \/ Under(folder[x].path, PathOf(q))
    BY <1>1, <1>2, <2>4, <2>5, <2>6, TreePaths
  <2>8. /\ Len(folder[x].path) > 0 /\ Len(folder[x].path) \in Nat
        /\ Len(folder[e].path) = Len(PathOf(q)) + 1 /\ Len(PathOf(q)) \in Nat
    <3>1. Len(folder[x].path) = Len(PathOf(folder[x].parent)) + 1 /\ Len(PathOf(folder[x].parent)) \in Nat
      BY <1>1, TreePaths
    <3>2. Len(folder[e].path) = Len(PathOf(q)) + 1 /\ Len(PathOf(q)) \in Nat
      BY <1>1, <2>4, <2>5, TreePaths
    <3> QED BY <3>1, <3>2
  <2>9. CASE q = Root
    <3>1. PathOf(q) = <<>> /\ Len(PathOf(q)) = 0
      BY <2>9 DEF PathOf
    <3>2. ~Under(folder[x].path, PathOf(q))
      BY <2>8, <3>1 DEF Under
    <3> QED BY <2>7, <2>8, <3>1, <3>2
  <2>10. CASE q # Root
    <3>1. q \in Live /\ PathOf(q) = folder[q].path
      BY <2>5, <2>10 DEF PathOf
    <3>2. x \in Up(q)
      <4>1. Len(folder[q].path) \in Nat /\ ~(n <= Len(folder[q].path))
        BY <2>3, <2>8, <3>1
      <4>2. Len(folder[q].path) \notin M
        BY <2>2, <4>1
      <4> QED BY <2>7, <3>1, <4>1, <4>2
    <3> QED BY <2>3, <2>5, <3>2
  <2> QED BY <2>9, <2>10
<1> QED BY <1>3, <1>4

\* The grants that reach a live folder are those on the way up.
LEMMA GrantsReach ==
    ASSUME TreeInv, NEW u, NEW d \in Live
    PROVE  ReachingFolder(u, d) = {g \in GrantsOf(u) : g.on \in Up(d)}
<1>1. Up(d) \subseteq Live /\ Live \subseteq Folders
  BY UpLive DEF TreeInv, Live, Rows
<1>2. \A x \in Live : x # Abroad /\ (Covers(x, d) <=> x \in Up(d))
  <2> TAKE x \in Live
  <2>1. x # Abroad
    BY <1>1, AccessAssumption
  <2>2. GrantPaths(x) = {folder[x].path}
    BY <2>1 DEF GrantPaths
  <2>3. x \in Up(d) <=> folder[x].path = folder[d].path \/ Under(folder[x].path, folder[d].path)
    BY UpIsUnder
  <2> QED BY <2>1, <2>2, <2>3 DEF Covers
<1>3. ~Covers(Abroad, d)
  BY DEF Covers
<1> QED BY <1>1, <1>2, <1>3 DEF ReachingFolder, OnFolder, GrantLive

LEMMA LevelsFollow ==
    ASSUME TreeInv
    PROVE  LevelFollowsTree
<1>0. TreeShape /\ Reachable /\ ParentsExist
  BY DEF TreeInv, TreeShape
<1> SUFFICES ASSUME NEW u \in Guests
             PROVE  /\ \A f \in FileRows :
                          FileLevel(u, f) = IF file[f].state # "live" \/ TrashedUp(file[f].parent) # {} THEN None
                                            ELSE Strongest(GrantsAbove(u, f, file[f].parent))
                    /\ \A d \in Rows :
                          FolderLevel(u, d) = IF TrashedUp(d) # {} THEN None
                                              ELSE Strongest(GrantsAbove(u, d, folder[d].parent))
  BY DEF LevelFollowsTree
<1>1. ASSUME NEW d \in Rows
      PROVE  FolderLevel(u, d) = IF TrashedUp(d) # {} THEN None
                                 ELSE Strongest(GrantsAbove(u, d, folder[d].parent))
  <2>1. CASE d \in Live
    <3>1. TrashedUp(d) = {} /\ Up(d) = {d} \cup Up(folder[d].parent)
      BY <1>0, <2>1, UpLive, UpStep
    <3>2. ReachingFolder(u, d) = GrantsAbove(u, d, folder[d].parent)
      BY <2>1, <3>1, GrantsReach DEF GrantsAbove
    <3> QED BY <2>1, <3>1, <3>2 DEF FolderLevel, Live
  <2>2. CASE d \notin Live
    <3>1. folder[d].state # "live" /\ d \in Up(d)
      BY <1>0, <2>2, UpStep DEF Live
    <3> QED BY <3>1 DEF TrashedUp, FolderLevel
  <2> QED BY <2>1, <2>2
<1>2. Up(Root) = {}
  BY <1>0, UpLeast
<1>3. ASSUME NEW f \in FileRows
      PROVE  FileLevel(u, f) = IF file[f].state # "live" \/ TrashedUp(file[f].parent) # {} THEN None
                               ELSE Strongest(GrantsAbove(u, f, file[f].parent))
  <2>1. CASE f \in LiveFiles
    <3>1. PICK p : p = file[f].parent
      OBVIOUS
    <3>2. p \in Live \cup {Root} /\ file[f].state = "live"
      BY <1>0, <2>1, <3>1 DEF Reachable, LiveFiles
    <3>3. TrashedUp(p) = {}
      BY <1>0, <3>2, UpLive
    <3>4. (IF p = Root THEN {} ELSE ReachingFolder(u, p)) = {g \in GrantsOf(u) : g.on \in Up(p)}
      BY <1>2, <3>2, GrantsReach
    <3>5. {g \in GrantsOf(u) : g.on = f} \cup (IF p = Root THEN {} ELSE ReachingFolder(u, p)) = GrantsAbove(u, f, p)
      BY <3>4 DEF GrantsAbove
    <3> QED BY <3>1, <3>2, <3>3, <3>5 DEF FileLevel
  <2>2. CASE f \notin LiveFiles
    BY <2>2 DEF FileLevel, LiveFiles
  <2> QED BY <2>1, <2>2
<1> QED BY <1>1, <1>3

\* Every row has its type, parents exist, and the parent links form a forest: no folder
\* is on the way up from its parent.
THEOREM TreeTypeCorrect ==
    ASSUME Orderly
    PROVE  AccessSpec => []TypeOK
<1>1. TreeIInv => TypeOK
  <2> SUFFICES ASSUME TreeIInv PROVE TypeOK
    OBVIOUS
  <2>1. TreeShape /\ PathsFollow /\ ParentsExist /\ Cardinality(todo) <= InFlight
    BY DEF TreeIInv, TreeInv, TreeShape
  <2>2. ASSUME NEW d \in Rows PROVE d \notin Up(folder[d].parent)
    <3>1. PICK p : p = folder[d].parent
      OBVIOUS
    <3>2. p \in Rows \cup {Root} /\ Len(folder[d].path) = Len(PathOf(p)) + 1 /\ Len(PathOf(p)) \in Nat
      BY <2>1, <3>1, TreePaths
    <3>3. \A e \in Up(p) : Len(folder[e].path) <= Len(PathOf(p))
      BY <2>1, <3>2, UpShorter
    <3> QED BY <3>1, <3>2, <3>3
  <2> QED BY <2>1, <2>2 DEF TypeOK, TreeShape, ParentsExist
<1> QED BY <1>1, TreeIsKept, PTL

\* Makes, moves, uploads and restores leave no two live folders at one path and no live
\* file under the name of a folder beside it.
THEOREM NamesAreHeldOnce ==
    ASSUME Orderly
    PROVE  AccessSpec => []OneOfAName
<1>1. TreeIInv => OneOfAName
  BY DEF TreeIInv, TreeInv
<1> QED BY <1>1, TreeIsKept, PTL

\* The path of a live folder is its parent's and its own name, and nothing live sits in
\* a trashed folder.
THEOREM TreeStaysSound ==
    ASSUME Orderly
    PROVE  AccessSpec => []TreeSound
<1>1. TreeIInv => TreeSound
  <2> SUFFICES ASSUME TreeIInv PROVE TreeSound
    OBVIOUS
  <2>1. PathsFollow /\ ParentsExist /\ Reachable /\ Live \subseteq Rows
    BY DEF TreeIInv, TreeInv, TreeShape, Live
  <2> QED BY <2>1 DEF TreeSound, PathMatchesParent, PathsFollow, ParentsExist
<1> QED BY <1>1, TreeIsKept, PTL

\* Emptying the trash and the sweep, whichever of the two comes next, take no folder that
\* is to stay along the parent links and uproot no file that is to stay.
THEOREM DeletingIsSafe ==
    ASSUME Orderly
    PROVE  AccessSpec => []DeletableIsSafe
<1>1. TreeIInv => DeletableIsSafe
  BY DeletableFacts DEF TreeIInv, TreeInv
<1> QED BY <1>1, TreeIsKept, PTL

\* The level of access computed from the paths is the one the tree gives, and nothing in
\* the trash is within a guest's reach.
THEOREM LevelsFollowTheTree ==
    ASSUME Orderly
    PROVE  AccessSpec => []LevelFollowsTree
<1>1. TreeIInv => LevelFollowsTree
  BY LevelsFollow DEF TreeIInv
<1> QED BY <1>1, TreeIsKept, PTL

-----------------------------------------------------------------------------
(* Who is seen looking at a file *)

SocketStates == {"new", "open", "closing", "closed"}
PresenceType ==
    /\ socket \in [Viewers -> SocketStates]
    /\ viewing \in [Watched -> SUBSET Viewers]

PresenceInv == PresenceType /\ ViewersShown

\* A socket in a room whose viewers changed was told; nothing changed in the others.
LEMMA ToldRight ==
    ASSUME PresenceInv, PresenceType', NEW now \in [Watched -> SUBSET Viewers], NEW changed \in SUBSET Watched,
           viewing' = now, shown' = Told(now, changed),
           \A f \in Watched \ changed : now[f] = viewing[f],
           \A w \in Viewers : socket'[w] = "open" => socket[w] = "open",
           \A w \in Viewers : socket'[w] \in {"new", "closed"} =>
              w \notin pushed' /\ \A f \in Watched : w \notin now[f]
    PROVE  ViewersShown'
<1>1. ASSUME NEW f \in Watched, NEW w \in now[f], socket'[w] = "open"
      PROVE  shown'[w][f] = ViewersOf(now[f])
  <2>1. w \in Viewers /\ socket[w] = "open"
    BY <1>1
  <2>2. shown'[w][f] = IF f \in changed THEN ViewersOf(now[f]) ELSE shown[w][f]
    BY <1>1, <2>1 DEF Told
  <2>3. f \notin changed => w \in viewing[f] /\ shown[w][f] = ViewersOf(viewing[f]) /\ viewing[f] = now[f]
    BY <1>1, <2>1 DEF PresenceInv, ViewersShown
  <2> QED
    BY <2>2, <2>3
<1> QED
  BY <1>1 DEF ViewersShown, ViewersOf

\* Every handler leaves the rooms told.
LEMMA PresenceStep == PresenceInv /\ [PresenceNext]_presenceVars => PresenceInv'
<1> SUFFICES ASSUME PresenceInv, [PresenceNext]_presenceVars PROVE PresenceInv'
  OBVIOUS
<1>0. PresenceType /\ ViewersShown
  BY DEF PresenceInv
<1>1. ASSUME NEW w \in Viewers, Attach(w)
      PROVE  PresenceInv'
  <2>1. PresenceType'
    BY <1>0, <1>1 DEF Attach, PresenceType, SocketStates
  <2>2. \A f \in Watched : w \notin viewing[f]
    BY <1>0, <1>1 DEF Attach, ViewersShown
  <2>3. \A v \in Viewers \ {w} : socket'[v] = socket[v]
    BY <1>0, <1>1 DEF Attach, PresenceType
  <2>4. socket'[w] = "open"
    BY <1>0, <1>1 DEF Attach, PresenceType
  <2>5. /\ \A f \in Watched : viewing'[f] \in SUBSET Viewers /\ viewing'[f] = viewing[f]
        /\ shown' = shown /\ pushed' = pushed \cup {w}
    BY <1>0, <1>1, <2>1 DEF Attach, PresenceType
  <2> QED
    BY <1>0, <2>1, <2>2, <2>3, <2>4, <2>5 DEF PresenceInv, ViewersShown, ViewersOf
<1>2. ASSUME NEW w \in Viewers, NEW f \in Watched, JoinFile(w, f)
      PROVE  PresenceInv'
  <2> DEFINE now == Without(w, Watched \ {f})
  <2>1. now \in [Watched -> SUBSET Viewers] /\ viewing' = now /\ socket' = socket /\ pushed' = pushed
    BY <1>0, <1>2 DEF JoinFile, PresenceType, Without
  <2>2. PresenceType'
    BY <1>0, <2>1 DEF PresenceType
  <2>3. \A g \in Watched : now[g] \subseteq viewing[g] /\ (g = f => now[g] = viewing[g])
    BY DEF Without
  <2>4. shown' = Told(now, Watched \ {f})
    BY <1>2 DEF JoinFile
  <2>5. \A v \in Viewers : socket[v] \in {"new", "closed"} =>
          v \notin pushed /\ \A g \in Watched : v \notin now[g]
    BY <1>0, <2>3 DEF ViewersShown
  <2> HIDE DEF now
  <2> QED
    BY <2>1, <2>2, <2>3, <2>4, <2>5, ToldRight DEF PresenceInv
<1>3. ASSUME NEW w \in Viewers, NEW f \in Watched, Checked(w, f)
      PROVE  PresenceInv'
  <2> DEFINE now == [viewing EXCEPT ![f] = @ \cup {w}]
  <2>1. CASE UNCHANGED <<viewing, shown, socket, pushed>>
    BY <1>0, <2>1 DEF PresenceInv, PresenceType, ViewersShown, ViewersOf
  <2>2. CASE /\ socket[w] = "open" /\ viewing' = now /\ shown' = Told(now, {f})
             /\ UNCHANGED <<socket, pushed>>
    <3>1. now \in [Watched -> SUBSET Viewers]
      BY <1>0 DEF PresenceType
    <3>2. PresenceType'
      BY <1>0, <2>2, <3>1 DEF PresenceType
    <3>3. \A g \in Watched : now[g] = IF g = f THEN viewing[g] \cup {w} ELSE viewing[g]
      BY <1>0 DEF PresenceType
    <3>4. \A v \in Viewers : socket[v] \in {"new", "closed"} =>
            v \notin pushed /\ \A g \in Watched : v \notin now[g]
      BY <1>0, <2>2, <3>3 DEF ViewersShown
    <3> HIDE DEF now
    <3> QED
      BY <2>2, <3>1, <3>2, <3>3, <3>4, ToldRight DEF PresenceInv
  <2> QED
    BY <1>3, <2>1, <2>2 DEF Checked
<1>4. ASSUME NEW w \in Viewers, NEW f \in Watched, Depart(w, f)
      PROVE  PresenceInv'
  <2> DEFINE now == Without(w, {f})
  <2>1. now \in [Watched -> SUBSET Viewers] /\ viewing' = now /\ socket' = socket /\ pushed' = pushed
    BY <1>0, <1>4 DEF Depart, PresenceType, Without
  <2>2. PresenceType'
    BY <1>0, <2>1 DEF PresenceType
  <2>3. \A g \in Watched : now[g] \subseteq viewing[g] /\ (g # f => now[g] = viewing[g])
    BY DEF Without
  <2>4. shown' = Told(now, {f})
    BY <1>4 DEF Depart
  <2>5. \A v \in Viewers : socket[v] \in {"new", "closed"} =>
          v \notin pushed /\ \A g \in Watched : v \notin now[g]
    BY <1>0, <2>3 DEF ViewersShown
  <2> HIDE DEF now
  <2> QED
    BY <2>1, <2>2, <2>3, <2>4, <2>5, ToldRight DEF PresenceInv
<1>5. ASSUME NEW w \in Viewers, Lose(w)
      PROVE  PresenceInv'
  <2>1. PresenceType' /\ \A v \in Viewers : socket'[v] = IF v = w THEN "closing" ELSE socket[v]
    BY <1>0, <1>5 DEF Lose, PresenceType, SocketStates
  <2>2. UNCHANGED <<viewing, shown, pushed>> /\ \A f \in Watched : viewing[f] \in SUBSET Viewers
    BY <1>0, <1>5 DEF Lose, PresenceType
  <2> QED
    BY <1>0, <2>1, <2>2 DEF PresenceInv, ViewersShown, ViewersOf
<1>6. ASSUME NEW w \in Viewers, Detach(w)
      PROVE  PresenceInv'
  <2> DEFINE now == Without(w, Watched)
  <2>1. now \in [Watched -> SUBSET Viewers] /\ viewing' = now /\ pushed' = pushed \ {w}
    BY <1>0, <1>6 DEF Detach, PresenceType, Without
  <2>2. PresenceType' /\ \A v \in Viewers : socket'[v] = IF v = w THEN "closed" ELSE socket[v]
    BY <1>0, <1>6, <2>1 DEF Detach, PresenceType, SocketStates
  <2>3. \A g \in Watched : now[g] = viewing[g] \ {w} /\ (g \notin LeftBy(w, Watched) => now[g] = viewing[g])
    BY DEF Without, LeftBy
  <2>4. shown' = Told(now, LeftBy(w, Watched)) /\ LeftBy(w, Watched) \in SUBSET Watched
    BY <1>6 DEF Detach, LeftBy
  <2>5. \A v \in Viewers : socket'[v] \in {"new", "closed"} =>
          v \notin pushed' /\ \A g \in Watched : v \notin now[g]
    BY <1>0, <2>1, <2>2, <2>3 DEF ViewersShown
  <2> HIDE DEF now
  <2> QED
    BY <2>1, <2>2, <2>3, <2>4, <2>5, ToldRight DEF PresenceInv
<1>7. CASE UNCHANGED presenceVars
  BY <1>0, <1>7 DEF presenceVars, PresenceInv, PresenceType, ViewersShown, ViewersOf
<1> QED
  BY <1>1, <1>2, <1>3, <1>4, <1>5, <1>6, <1>7 DEF PresenceNext

\* Every connected socket in a room was told last exactly the users who are in it
\* now, however joins whose access check is still awaited, leaves and closings
\* interleave, also with several joins of one socket pending.
THEOREM ViewersAreShown == PresenceSpec => []ViewersShown
<1>1. PresenceInit => PresenceInv
  BY DEF PresenceInit, PresenceInv, PresenceType, SocketStates, ViewersShown
<1>2. PresenceInv => ViewersShown
  BY DEF PresenceInv
<1> QED
  BY <1>1, <1>2, PresenceStep, PTL DEF PresenceSpec

-----------------------------------------------------------------------------
(* Public links: what a step does to the requests *)

USE DEF LoadPcs, DropPcs, Kinds

LinksType ==
    /\ share \in [Links -> Share \cup {NoFile}]
    /\ live \in [Kinds -> BOOLEAN]
    /\ load \in [Loads -> Request(LoadPcs)]
    /\ drop \in [Drops -> Request(DropPcs)]

\* One download goes on to pc; the others stay as they are.
LoadGoes(r, pc) ==
    /\ load' \in [Loads -> Request(LoadPcs)]
    /\ \A q \in Loads \ {r} : load'[q] = load[q]
    /\ load'[r].pc = pc /\ load'[r].link = load[r].link
    /\ load'[r].seen = load[r].seen /\ load'[r].since = load[r].since

DropGoes(r, pc) ==
    /\ drop' \in [Drops -> Request(DropPcs)]
    /\ \A q \in Drops \ {r} : drop'[q] = drop[q]
    /\ drop'[r].pc = pc /\ drop'[r].link = drop[r].link
    /\ drop'[r].seen = drop[r].seen /\ drop'[r].since = drop[r].since

\* A download that goes to another statement keeps its link and what it read.
LEMMA LoadGoing ==
    ASSUME LinksType, NEW r \in Loads, NEW pc \in LoadPcs, LoadTo(r, pc)
    PROVE  LoadGoes(r, pc)
  BY DEF LinksType, LoadTo, LoadGoes, Request

\* So does an upload to a drop-box.
LEMMA DropGoing ==
    ASSUME LinksType, NEW r \in Drops, NEW pc \in DropPcs, DropTo(r, pc)
    PROVE  DropGoes(r, pc)
  BY DEF LinksType, DropTo, DropGoes, Request

\* A request that looks a link up
LEMMA LoadReading ==
    ASSUME LinksType, NEW r \in Loads, NEW l \in Links, LoadRead(r, l)
    PROVE  /\ load' \in [Loads -> Request(LoadPcs)]
           /\ \A q \in Loads \ {r} : load'[q] = load[q]
           /\ load'[r].pc = "read" /\ load'[r].link = l /\ share[l] \in Share
           /\ load'[r].seen.cap = share[l].cap /\ load'[r].seen.kind = share[l].kind
           /\ load'[r].since = live[share[l].kind] /\ load'[r].seen \in Seen
<1> DEFINE s == share[l]
           seen == [kind |-> s.kind, cap |-> s.cap, expired |-> s.expired,
                    full |-> s.cap # NoCap /\ s.downloads >= s.cap]
           row == [pc |-> "read", link |-> l, since |-> live[s.kind], seen |-> seen]
<1>1. s \in Share
  BY DEF LinksType, LoadRead
<1>2. seen \in Seen /\ seen.cap = s.cap /\ seen.kind = s.kind
  BY <1>1 DEF Share, Seen
<1>3. live[s.kind] \in BOOLEAN
  BY <1>1 DEF LinksType, Share
<1> HIDE DEF seen
<1>4. row \in Request(LoadPcs) /\ row.pc = "read" /\ row.link = l /\ row.seen = seen /\ row.since = live[s.kind]
  BY <1>2, <1>3 DEF Request
<1>5. load' = [load EXCEPT ![r] = row]
  BY DEF LoadRead, seen
<1> HIDE DEF row
<1> QED
  BY <1>1, <1>2, <1>4, <1>5 DEF LinksType

\* An upload that looks a link up
LEMMA DropReading ==
    ASSUME LinksType, NEW r \in Drops, NEW l \in Links, DropRead(r, l)
    PROVE  /\ drop' \in [Drops -> Request(DropPcs)]
           /\ \A q \in Drops \ {r} : drop'[q] = drop[q]
           /\ drop'[r].pc = "read" /\ drop'[r].link = l
           /\ drop'[r].since = live["folder"] /\ drop'[r].seen \in Seen
<1> DEFINE s == share[l]
           seen == [kind |-> "folder", cap |-> NoCap, expired |-> s.expired,
                    full |-> MaxUploads > 0 /\ s.uploads >= MaxUploads]
           row == [pc |-> "read", link |-> l, since |-> live["folder"], seen |-> seen]
<1>1. s \in Share
  BY DEF LinksType, DropRead
<1>2. seen \in Seen
  BY <1>1 DEF Share, Seen
<1>3. live["folder"] \in BOOLEAN
  BY DEF LinksType
<1> HIDE DEF seen
<1>4. row \in Request(DropPcs) /\ row.pc = "read" /\ row.link = l /\ row.seen = seen /\ row.since = live["folder"]
  BY <1>2, <1>3 DEF Request
<1>5. drop' = [drop EXCEPT ![r] = row]
  BY DEF DropRead, seen
<1> HIDE DEF row
<1> QED
  BY <1>2, <1>4, <1>5 DEF LinksType

\* What the trash does to the requests under way: those that had seen the target
\* remember it.
LEMMA Toggling ==
    ASSUME LinksType, NEW kind \in Kinds, Toggle(kind)
    PROVE  /\ load' \in [Loads -> Request(LoadPcs)] /\ drop' \in [Drops -> Request(DropPcs)]
           /\ \A r \in Loads : /\ load'[r].pc = load[r].pc /\ load'[r].link = load[r].link
                               /\ load'[r].seen = load[r].seen
                               /\ load[r].since => load'[r].since
                               /\ load[r].seen # NoFile /\ load[r].seen.kind = kind => load'[r].since
           /\ \A r \in Drops : /\ drop'[r].pc = drop[r].pc /\ drop'[r].link = drop[r].link
                               /\ drop'[r].seen = drop[r].seen
                               /\ drop[r].since => drop'[r].since
                               /\ drop[r].seen # NoFile /\ kind = "folder" => drop'[r].since
           /\ \A k \in Kinds \ {kind} : live'[k] = live[k]
           /\ live' \in [Kinds -> BOOLEAN]
<1>1. ASSUME NEW r \in Loads
      PROVE  /\ load'[r] \in Request(LoadPcs)
             /\ load'[r].pc = load[r].pc /\ load'[r].link = load[r].link
             /\ load'[r].seen = load[r].seen
             /\ load[r].since => load'[r].since
             /\ load[r].seen # NoFile /\ load[r].seen.kind = kind => load'[r].since
  <2> DEFINE row == [load[r] EXCEPT !.since = TRUE]
  <2>1. load[r] \in Request(LoadPcs)
    BY DEF LinksType
  <2>2. /\ row \in Request(LoadPcs) /\ row.pc = load[r].pc /\ row.link = load[r].link
        /\ row.seen = load[r].seen /\ row.since = TRUE
    BY <2>1 DEF Request
  <2>3. load'[r] = IF load[r].seen # NoFile /\ load[r].seen.kind = kind THEN row ELSE load[r]
    BY DEF Toggle
  <2> HIDE DEF row
  <2> QED
    BY <2>1, <2>2, <2>3
<1>2. ASSUME NEW r \in Drops
      PROVE  /\ drop'[r] \in Request(DropPcs)
             /\ drop'[r].pc = drop[r].pc /\ drop'[r].link = drop[r].link
             /\ drop'[r].seen = drop[r].seen
             /\ drop[r].since => drop'[r].since
             /\ drop[r].seen # NoFile /\ kind = "folder" => drop'[r].since
  <2> DEFINE row == [drop[r] EXCEPT !.since = TRUE]
  <2>1. drop[r] \in Request(DropPcs)
    BY DEF LinksType
  <2>2. /\ row \in Request(DropPcs) /\ row.pc = drop[r].pc /\ row.link = drop[r].link
        /\ row.seen = drop[r].seen /\ row.since = TRUE
    BY <2>1 DEF Request
  <2>3. drop'[r] = IF drop[r].seen # NoFile /\ kind = "folder" THEN row ELSE drop[r]
    BY DEF Toggle
  <2> HIDE DEF row
  <2> QED
    BY <2>1, <2>2, <2>3
<1>3. /\ DOMAIN load' = Loads /\ load' = [r \in Loads |-> load'[r]]
      /\ DOMAIN drop' = Drops /\ drop' = [r \in Drops |-> drop'[r]]
  BY DEF Toggle
<1>4. load' \in [Loads -> Request(LoadPcs)] /\ drop' \in [Drops -> Request(DropPcs)]
  BY <1>1, <1>2, <1>3
<1>5. /\ \A k \in Kinds \ {kind} : live'[k] = live[k]
      /\ live' \in [Kinds -> BOOLEAN]
  BY DEF Toggle, LinksType
<1> QED
  BY <1>1, <1>2, <1>4, <1>5

\* A count of the row moves, if the row is there.
LEMMA RowType ==
    ASSUME NEW s \in Share, NEW n \in Nat
    PROVE  /\ [s EXCEPT !.downloads = n] \in Share /\ [s EXCEPT !.uploads = n] \in Share
           /\ [s EXCEPT !.expired = ~s.expired] \in Share
  BY DEF Share

\* The requests as they were, but for what they remember of the trash.
SameLoads ==
    /\ load' \in [Loads -> Request(LoadPcs)]
    /\ \A r \in Loads : /\ load'[r].pc = load[r].pc /\ load'[r].link = load[r].link
                        /\ load'[r].seen = load[r].seen /\ (load[r].since => load'[r].since)
SameDrops ==
    /\ drop' \in [Drops -> Request(DropPcs)]
    /\ \A r \in Drops : /\ drop'[r].pc = drop[r].pc /\ drop'[r].link = drop[r].link
                        /\ drop'[r].seen = drop[r].seen /\ (drop[r].since => drop'[r].since)

\* What the owner does to a row: nothing, delete it, change what does not count, or
\* make it anew when no request knows it.
OwnerRow(l) ==
    \/ share'[l] = share[l]
    \/ share'[l] = NoFile
    \/ /\ share[l] # NoFile /\ share'[l].cap = share[l].cap
       /\ share'[l].downloads = share[l].downloads /\ share'[l].uploads = share[l].uploads
    \/ /\ share'[l].downloads = 0 /\ share'[l].uploads = 0
       /\ \A r \in Loads : load[r].link # l
       /\ \A r \in Drops : drop[r].link # l

\* What the owner does changes rows and the trash, and no request.
LEMMA OwnerEffects ==
    ASSUME LinksType, OwnerStep
    PROVE  /\ share' \in [Links -> Share \cup {NoFile}] /\ live' \in [Kinds -> BOOLEAN]
           /\ SameLoads /\ SameDrops /\ UNCHANGED <<stored, lapsed>>
           /\ \A l \in Links : OwnerRow(l)
<1>1. UNCHANGED <<load, drop>> => SameLoads /\ SameDrops
  BY DEF LinksType, SameLoads, SameDrops
<1>2. ASSUME NEW l \in Links, NEW kind \in Kinds, NEW cap \in Caps, CreateShare(l, kind, cap)
      PROVE  /\ share' \in [Links -> Share \cup {NoFile}] /\ live' \in [Kinds -> BOOLEAN]
             /\ UNCHANGED <<load, drop, stored, lapsed>> /\ \A k \in Links : OwnerRow(k)
  <2> DEFINE row == [kind |-> kind, cap |-> cap, downloads |-> 0, uploads |-> 0, expired |-> FALSE]
  <2>1. row \in Share /\ row.downloads = 0 /\ row.uploads = 0
    BY LinkAssumption DEF Share
  <2>2. share' = [share EXCEPT ![l] = row]
    BY <1>2 DEF CreateShare
  <2> HIDE DEF row
  <2>3. UNCHANGED <<live, load, drop, stored, lapsed>>
        /\ (\A r \in Loads : load[r].link # l) /\ \A r \in Drops : drop[r].link # l
    BY <1>2 DEF CreateShare, Untouched
  <2> QED
    BY <2>1, <2>2, <2>3 DEF LinksType, OwnerRow
<1>3. ASSUME NEW l \in Links, Expiry(l)
      PROVE  /\ share' \in [Links -> Share \cup {NoFile}] /\ live' \in [Kinds -> BOOLEAN]
             /\ UNCHANGED <<load, drop, stored, lapsed>> /\ \A k \in Links : OwnerRow(k)
  <2> DEFINE row == [share[l] EXCEPT !.expired = ~share[l].expired]
  <2>1. share[l] \in Share /\ share[l] # NoFile
    BY <1>3 DEF Expiry, LinksType
  <2>2. row \in Share /\ row.downloads = share[l].downloads /\ row.uploads = share[l].uploads /\ row.cap = share[l].cap
    BY <2>1 DEF Share
  <2>3. share' = [share EXCEPT ![l] = row] /\ UNCHANGED <<live, load, drop, stored, lapsed>>
    BY <1>3 DEF Expiry, Untouched
  <2> HIDE DEF row
  <2> QED
    BY <2>1, <2>2, <2>3 DEF LinksType, OwnerRow
<1>4. ASSUME NEW l \in Links, Revoke(l)
      PROVE  /\ share' \in [Links -> Share \cup {NoFile}] /\ live' \in [Kinds -> BOOLEAN]
             /\ UNCHANGED <<load, drop, stored, lapsed>> /\ \A k \in Links : OwnerRow(k)
  BY <1>4 DEF Revoke, Untouched, LinksType, OwnerRow
<1>5. ASSUME NEW kind \in Kinds, Toggle(kind)
      PROVE  /\ UNCHANGED <<share, stored, lapsed>> /\ live' \in [Kinds -> BOOLEAN] /\ SameLoads /\ SameDrops
  BY <1>5, Toggling DEF Toggle, SameLoads, SameDrops
<1>6. OwnFile => UNCHANGED <<share, live, load, drop, stored, lapsed>> /\ live' \in [Kinds -> BOOLEAN]
  BY DEF OwnFile, LinksType
<1>7. UNCHANGED share => share' \in [Links -> Share \cup {NoFile}] /\ \A l \in Links : OwnerRow(l)
  BY DEF LinksType, OwnerRow
<1> QED
  BY <1>1, <1>2, <1>3, <1>4, <1>5, <1>6, <1>7 DEF OwnerStep

\* What an upload's steps do: the row's count of uploads may move.
UploadRow(l) ==
    \/ share'[l] = share[l]
    \/ /\ share[l] # NoFile /\ share'[l].cap = share[l].cap /\ share'[l].downloads = share[l].downloads

\* A link's counter of uploads changes nothing else of it.
LEMMA CountUploads ==
    ASSUME LinksType, NEW l \in Links, share[l] # NoFile, NEW n \in Nat, share' = [share EXCEPT ![l].uploads = n]
    PROVE  /\ share' \in [Links -> Share \cup {NoFile}]
           /\ \A k \in Links \ {l} : share'[k] = share[k]
           /\ share'[l] \in Share /\ share'[l].uploads = n
           /\ share'[l].cap = share[l].cap /\ share'[l].downloads = share[l].downloads
<1> DEFINE row == [share[l] EXCEPT !.uploads = n]
<1>1. share[l] \in Share
  BY DEF LinksType
<1>2. row \in Share /\ row.uploads = n /\ row.cap = share[l].cap /\ row.downloads = share[l].downloads
  BY <1>1 DEF Share
<1>3. share' = [share EXCEPT ![l] = row]
  OBVIOUS
<1> HIDE DEF row
<1> QED
  BY <1>1, <1>2, <1>3 DEF LinksType

\* A link's counter of downloads changes nothing else of it.
LEMMA CountDownloads ==
    ASSUME LinksType, NEW l \in Links, share[l] # NoFile, NEW n \in Nat, share' = [share EXCEPT ![l].downloads = n]
    PROVE  /\ share' \in [Links -> Share \cup {NoFile}]
           /\ \A k \in Links \ {l} : share'[k] = share[k]
           /\ share'[l] \in Share /\ share'[l].downloads = n
           /\ share'[l].cap = share[l].cap /\ share'[l].uploads = share[l].uploads
<1> DEFINE row == [share[l] EXCEPT !.downloads = n]
<1>1. share[l] \in Share
  BY DEF LinksType
<1>2. row \in Share /\ row.downloads = n /\ row.cap = share[l].cap /\ row.uploads = share[l].uploads
  BY <1>1 DEF Share
<1>3. share' = [share EXCEPT ![l] = row]
  OBVIOUS
<1> HIDE DEF row
<1> QED
  BY <1>1, <1>2, <1>3 DEF LinksType

\* A request that has begun knows a link and what it read of it.
Begun ==
    /\ \A r \in Loads : load[r].pc # "idle" => load[r].link \in Links /\ load[r].seen \in Seen
    /\ \A r \in Drops : drop[r].pc # "idle" => drop[r].link \in Links /\ drop[r].seen \in Seen

\* The steps of one upload: where it stands and what follows.
DropTook(r, from, to) == drop[r].pc = from /\ DropGoes(r, to)

\* What a step of an upload may change
LEMMA DropEffects ==
    ASSUME LinksType, Begun, NEW r \in Drops, DropStep(r)
    PROVE  /\ UNCHANGED <<live, load, other>>
           /\ share' \in [Links -> Share \cup {NoFile}]
           /\ \A l \in Links : UploadRow(l)
           /\ \E pc \in DropPcs \ {"idle", "read"} : DropGoes(r, pc)
           /\ drop[r].pc \notin {"idle", "refused"} /\ drop[r].link \in Links
<1>0. drop[r].pc \notin {"idle", "refused"} /\ drop[r].link \in Links
  BY DEF DropStep, DropCheck, DropClaim, DropFolder, DropName, DropReserve, DropPut, DropCreate,
     DropRelease, DropGiveBack, DropRemove, Begun
<1>1. UNCHANGED <<live, load, other>>
  BY DEF DropStep, DropCheck, DropClaim, DropFolder, DropName, DropReserve, DropPut, DropCreate,
     DropRelease, DropGiveBack, DropRemove, DropOnly
<1>2. \E pc \in DropPcs \ {"idle", "read"} : DropTo(r, pc)
  BY DEF DropStep, DropCheck, DropClaim, DropFolder, DropName, DropReserve, DropPut, DropCreate,
     DropRelease, DropGiveBack, DropRemove
<1>3. share' \in [Links -> Share \cup {NoFile}] /\ \A l \in Links : UploadRow(l)
  <2> DEFINE k == drop[r].link
  <2>1. CASE UNCHANGED share
    BY <2>1 DEF LinksType, UploadRow
  <2>2. ASSUME NEW n \in Nat, share[k] # NoFile, share' = [share EXCEPT ![k].uploads = n]
        PROVE  share' \in [Links -> Share \cup {NoFile}] /\ \A l \in Links : UploadRow(l)
    BY <1>0, <2>2, CountUploads DEF UploadRow
  <2>3. CASE DropClaim(r) \/ DropGiveBack(r)
    <3>1. share[k] # NoFile => share[k].uploads \in Nat
      BY <1>0 DEF LinksType, Share
    <3>2. share[k] # NoFile /\ share[k].uploads > 0 => share[k].uploads - 1 \in Nat
      BY <3>1
    <3>3. \/ UNCHANGED share
          \/ share[k] # NoFile /\ share' = [share EXCEPT ![k].uploads = share[k].uploads + 1]
          \/ share[k] # NoFile /\ share[k].uploads > 0 /\ share' = [share EXCEPT ![k].uploads = share[k].uploads - 1]
      BY <2>3 DEF DropClaim, DropGiveBack
    <3>4. share[k] # NoFile => share[k].uploads + 1 \in Nat
      BY <3>1
    <3> QED
      BY <2>1, <2>2, <3>2, <3>3, <3>4
  <2>4. CASE ~(DropClaim(r) \/ DropGiveBack(r))
    BY <2>1, <2>4 DEF DropStep, DropCheck, DropFolder, DropName, DropReserve, DropPut, DropCreate, DropRelease, DropRemove
  <2> QED
    BY <2>3, <2>4
<1> QED
  BY <1>0, <1>1, <1>2, <1>3, DropGoing

\* What a step of a download may change
LEMMA LoadEffects ==
    ASSUME LinksType, Begun, NEW r \in Loads, LoadStep(r)
    PROVE  /\ UNCHANGED <<live, drop, used, other, stored, lapsed>>
           /\ share' \in [Links -> Share \cup {NoFile}]
           /\ \A l \in Links : \/ share'[l] = share[l]
                               \/ share[l] # NoFile /\ share'[l].uploads = share[l].uploads
           /\ \/ /\ load[r].pc = "read" /\ UNCHANGED share
                 /\ LoadGoes(r, "refused") \/ (LoadGoes(r, "authorized") /\ live[load[r].seen.kind])
              \/ LoadClaim(r) /\ load[r].pc = "authorized" /\ (LoadGoes(r, "refused") \/ LoadGoes(r, "served"))
           /\ load[r].link \in Links
<1>1. CASE LoadAuthorize(r)
  <2>1. load[r].pc = "read" /\ UNCHANGED share /\ UNCHANGED <<live, drop, used, other, stored, lapsed>>
    BY <1>1 DEF LoadAuthorize, LoadOnly
  <2>2. LoadGoes(r, "refused") \/ (LoadGoes(r, "authorized") /\ live[load[r].seen.kind])
    <3>1. LoadTo(r, "refused") \/ (LoadTo(r, "authorized") /\ live[load[r].seen.kind])
      BY <1>1 DEF LoadAuthorize
    <3>2. LoadTo(r, "refused") => LoadGoes(r, "refused")
      BY LoadGoing
    <3>3. LoadTo(r, "authorized") => LoadGoes(r, "authorized")
      BY LoadGoing
    <3> QED
      BY <3>1, <3>2, <3>3
  <2> QED
    BY <2>1, <2>2 DEF LinksType, Begun
<1>2. CASE LoadClaim(r)
  <2> DEFINE k == load[r].link
  <2>1. load[r].pc = "authorized" /\ k \in Links /\ UNCHANGED <<live, drop, used, other, stored, lapsed>>
    BY <1>2 DEF LoadClaim, LoadOnly, Begun
  <2>2. LoadGoes(r, "refused") \/ LoadGoes(r, "served")
    BY <1>2, LoadGoing DEF LoadClaim
  <2>3. \/ UNCHANGED share
        \/ share[k] # NoFile /\ share' = [share EXCEPT ![k].downloads = share[k].downloads + 1]
    BY <1>2 DEF LoadClaim
  <2>4. share[k] # NoFile => share[k].downloads + 1 \in Nat
    BY <2>1 DEF LinksType, Share
  <2>5. /\ share' \in [Links -> Share \cup {NoFile}]
        /\ \A l \in Links : \/ share'[l] = share[l]
                            \/ share[l] # NoFile /\ share'[l].uploads = share[l].uploads
    BY <2>1, <2>3, <2>4, CountDownloads DEF LinksType
  <2> QED
    BY <1>2, <2>1, <2>2, <2>5
<1> QED
  BY <1>1, <1>2 DEF LoadStep

\* Only an upload that is refused, or has only its object left to remove, has left
\* anything behind.
LapsesEnded ==
    \A r \in Drops :
        /\ \A x \in {"slot", "bytes", "object"} :
             <<r, x>> \in lapsed => drop[r].pc \in {"owesNothing", "refused"}
        /\ <<r, "bytes">> \in lapsed => drop[r].pc = "refused"

\* What a step of an upload leaves behind
LapsesMore(r, what) == \A q \in Drops, x \in {"slot", "bytes", "object"} :
    <<q, x>> \in lapsed' <=> <<q, x>> \in lapsed \/ (q = r /\ x \in what)

\* An undo that failed adds what it did not give back.
LEMMA Lapsing ==
    ASSUME NEW r \in Drops, NEW what, Lapse(r, what)
    PROVE  LapsesMore(r, what)
  BY DEF Lapse, LapsesMore

\* Nothing lapses, or something of a request that ends.
LEMMA DropLapses ==
    ASSUME LinksType, Begun, LapsesEnded, NEW r \in Drops, DropStep(r)
    PROVE  \/ UNCHANGED lapsed
           \/ \E what \in SUBSET {"slot", "bytes", "object"} :
                LapsesMore(r, what) /\ ((DropGoes(r, "owesNothing") /\ "bytes" \notin what) \/ DropGoes(r, "refused"))
<1>1. CASE DropCheck(r) \/ DropClaim(r) \/ DropFolder(r) \/ DropReserve(r) \/ DropPut(r) \/ DropCreate(r)
  BY <1>1 DEF DropCheck, DropClaim, DropFolder, DropReserve, DropPut, DropCreate
<1>2. \A pc \in {"owesNothing", "refused"} : DropTo(r, pc) => DropGoes(r, pc)
  BY DropGoing
<1>3. CASE DropName(r)
  BY <1>2, <1>3, Lapsing DEF DropName
<1>4. CASE DropRelease(r)
  <2> DEFINE what == {"slot", "bytes"} \cup IF r \in stored THEN {"object"} ELSE {}
  <2>1. what \in SUBSET {"slot", "bytes", "object"}
    OBVIOUS
  <2>2. UNCHANGED lapsed \/ (DropTo(r, "refused") /\ Lapse(r, what))
    BY <1>4 DEF DropRelease
  <2> QED
    BY <1>2, <2>1, <2>2, Lapsing
<1>5. CASE DropGiveBack(r)
  <2>1. Lapse(r, {"slot"}) => LapsesMore(r, {"slot"})
    BY Lapsing
  <2> QED
    BY <1>2, <1>5, <2>1 DEF DropGiveBack
<1>6. CASE DropRemove(r)
  BY <1>2, <1>6, Lapsing DEF DropRemove
<1> QED
  BY <1>1, <1>3, <1>4, <1>5, <1>6 DEF DropStep

\* Every step keeps that only ended uploads have left something behind.
LEMMA LapsesStep == LinksType /\ Begun /\ LapsesEnded /\ [ShareNext]_shareVars => LapsesEnded'
<1> SUFFICES ASSUME LinksType, Begun, LapsesEnded, [ShareNext]_shareVars PROVE LapsesEnded'
  OBVIOUS
<1>1. CASE OwnerStep
  BY <1>1, OwnerEffects DEF SameDrops, LapsesEnded
<1>2. ASSUME NEW r \in Loads, LoadStep(r) \/ \E l \in Links : LoadRead(r, l)
      PROVE  LapsesEnded'
  <2>1. UNCHANGED <<drop, lapsed>>
    BY <1>2, LoadEffects DEF LoadRead, LoadOnly
  <2> QED
    BY <2>1 DEF LapsesEnded
<1>3. ASSUME NEW r \in Drops, DropStep(r)
      PROVE  LapsesEnded'
  <2>1. CASE \E what \in SUBSET {"slot", "bytes", "object"} :
                LapsesMore(r, what) /\ ((DropGoes(r, "owesNothing") /\ "bytes" \notin what) \/ DropGoes(r, "refused"))
    <3>1. drop[r].pc # "refused"
      BY <1>3, DropEffects
    <3> QED
      BY <2>1, <3>1 DEF LapsesMore, LapsesEnded, DropGoes
  <2>2. CASE UNCHANGED lapsed
    <3>1. PICK pc \in DropPcs : DropGoes(r, pc)
      BY <1>3, DropEffects
    <3>2. drop[r].pc = "owesNothing" => pc = "refused"
      BY <1>3, <3>1, DropGoing DEF DropStep, DropCheck, DropClaim, DropFolder, DropName, DropReserve,
         DropPut, DropCreate, DropRelease, DropGiveBack, DropRemove, DropGoes
    <3>3. drop[r].pc # "refused"
      BY <1>3, DropEffects
    <3> QED
      BY <2>2, <3>1, <3>2, <3>3 DEF LapsesEnded, DropGoes
  <2> QED
    BY <1>3, <2>1, <2>2, DropLapses
<1>4. ASSUME NEW r \in Drops, NEW l \in Links, DropRead(r, l)
      PROVE  LapsesEnded'
  <2>1. UNCHANGED lapsed /\ drop[r].pc = "idle"
    BY <1>4 DEF DropRead
  <2> QED
    BY <1>4, <2>1, DropReading DEF LapsesEnded
<1>5. CASE UNCHANGED shareVars
  BY <1>5 DEF shareVars, LapsesEnded
<1> QED
  BY <1>1, <1>2, <1>3, <1>4, <1>5 DEF ShareNext, Downloads, Uploads

\* Every step keeps the types, and what a request that began has.
LEMMA LinksTypeStep == LinksType /\ Begun /\ [ShareNext]_shareVars => LinksType' /\ Begun'
<1> SUFFICES ASSUME LinksType, Begun, [ShareNext]_shareVars PROVE LinksType' /\ Begun'
  OBVIOUS
<1>1. CASE OwnerStep
  BY <1>1, OwnerEffects DEF LinksType, SameLoads, SameDrops, Begun
<1>2. ASSUME NEW r \in Loads, LoadStep(r)
      PROVE  LinksType' /\ Begun'
  <2>1. \E pc \in LoadPcs \ {"idle"} : LoadGoes(r, pc)
    BY <1>2, LoadEffects
  <2>2. UNCHANGED <<live, drop>> /\ share' \in [Links -> Share \cup {NoFile}] /\ load[r].pc # "idle"
    BY <1>2, LoadEffects
  <2> QED
    BY <2>1, <2>2 DEF LinksType, Begun, LoadGoes
<1>3. ASSUME NEW r \in Loads, NEW l \in Links, LoadRead(r, l)
      PROVE  LinksType' /\ Begun'
  <2>1. UNCHANGED <<share, live, drop>>
    BY <1>3 DEF LoadRead, LoadOnly
  <2> QED
    BY <1>3, <2>1, LoadReading DEF LinksType, Begun
<1>4. ASSUME NEW r \in Drops, DropStep(r)
      PROVE  LinksType' /\ Begun'
  BY <1>4, DropEffects DEF LinksType, Begun, DropGoes
<1>5. ASSUME NEW r \in Drops, NEW l \in Links, DropRead(r, l)
      PROVE  LinksType' /\ Begun'
  <2>1. UNCHANGED <<share, live, load>>
    BY <1>5 DEF DropRead, DropOnly
  <2> QED
    BY <1>5, <2>1, DropReading DEF LinksType, Begun
<1>6. CASE UNCHANGED shareVars
  BY <1>6 DEF shareVars, LinksType, Begun
<1> QED
  BY <1>1, <1>2, <1>3, <1>4, <1>5, <1>6 DEF ShareNext, Downloads, Uploads

\* They hold before any request began.
LEMMA LinksInit == ShareInit => LinksType /\ Begun
<1> SUFFICES ASSUME ShareInit PROVE LinksType /\ Begun
  OBVIOUS
<1>1. Idle \in Request(LoadPcs) /\ Idle \in Request(DropPcs) /\ Idle.pc = "idle"
  BY DEF Idle, Request
<1> QED
  BY <1>1 DEF ShareInit, LinksType, Begun

-----------------------------------------------------------------------------
(* Trashing un-shares *)

\* What is live when a request looks was live since the request began.
Remembered ==
    /\ \A r \in Loads : /\ load[r].pc \in {"authorized", "served"} => load[r].since
                        /\ load[r].pc = "read" /\ live[load[r].seen.kind] => load[r].since
    /\ \A r \in Drops : /\ drop[r].pc \notin {"idle", "read", "refused"} => drop[r].since
                        /\ drop[r].pc = "read" /\ live["folder"] => drop[r].since

\* What was live at a request's look stays remembered.
LEMMA RememberedStep == LinksType /\ Begun /\ Remembered /\ [ShareNext]_shareVars => Remembered'
<1> SUFFICES ASSUME LinksType, Begun, Remembered, [ShareNext]_shareVars PROVE Remembered'
  OBVIOUS
<1>1. CASE UNCHANGED <<load, drop, live>>
  BY <1>1 DEF Remembered
<1>2. ASSUME NEW kind \in Kinds, Toggle(kind)
      PROVE  Remembered'
  <2>1. ASSUME NEW r \in Loads
        PROVE  /\ load'[r].pc \in {"authorized", "served"} => load'[r].since
               /\ load'[r].pc = "read" /\ live'[load'[r].seen.kind] => load'[r].since
    <3>1. /\ load'[r].pc = load[r].pc /\ load'[r].seen = load[r].seen
          /\ load[r].since => load'[r].since
          /\ load[r].seen # NoFile /\ load[r].seen.kind = kind => load'[r].since
          /\ \A k \in Kinds \ {kind} : live'[k] = live[k]
      BY <1>2, Toggling
    <3>2. load[r].pc = "read" => load[r].seen # NoFile /\ load[r].seen.kind \in Kinds
      BY RowAssumption DEF Begun, Seen
    <3> QED
      BY <3>1, <3>2 DEF Remembered
  <2>2. ASSUME NEW r \in Drops
        PROVE  /\ drop'[r].pc \notin {"idle", "read", "refused"} => drop'[r].since
               /\ drop'[r].pc = "read" /\ live'["folder"] => drop'[r].since
    <3>1. /\ drop'[r].pc = drop[r].pc
          /\ drop[r].since => drop'[r].since
          /\ drop[r].seen # NoFile /\ kind = "folder" => drop'[r].since
          /\ \A k \in Kinds \ {kind} : live'[k] = live[k]
      BY <1>2, Toggling
    <3>2. drop[r].pc = "read" => drop[r].seen # NoFile
      BY RowAssumption DEF Begun
    <3> QED
      BY <3>1, <3>2 DEF Remembered
  <2> QED
    BY <2>1, <2>2 DEF Remembered
<1>3. CASE OwnerStep
  <2>1. (\E l \in Links : (\E kind \in Kinds, cap \in Caps : CreateShare(l, kind, cap)) \/ Expiry(l) \/ Revoke(l)) \/ OwnFile
           => UNCHANGED <<load, drop, live>>
    BY DEF CreateShare, Expiry, Revoke, Untouched, OwnFile
  <2> QED
    BY <1>1, <1>2, <1>3, <2>1 DEF OwnerStep
<1>4. ASSUME NEW r \in Loads, LoadStep(r)
      PROVE  Remembered'
  <2>1. UNCHANGED <<live, drop>>
    BY <1>4, LoadEffects
  <2>2. \/ LoadGoes(r, "refused")
        \/ LoadGoes(r, "authorized") /\ load[r].pc = "read" /\ live[load[r].seen.kind]
        \/ LoadGoes(r, "served") /\ load[r].pc = "authorized"
    BY <1>4, LoadEffects
  <2> QED
    BY <2>1, <2>2 DEF Remembered, LoadGoes
<1>5. ASSUME NEW r \in Loads, NEW l \in Links, LoadRead(r, l)
      PROVE  Remembered'
  <2>1. UNCHANGED <<live, drop>>
    BY <1>5 DEF LoadRead, LoadOnly
  <2> QED
    BY <1>5, <2>1, LoadReading DEF Remembered
<1>6. ASSUME NEW r \in Drops, DropStep(r)
      PROVE  Remembered'
  <2>1. UNCHANGED <<live, load>>
    BY <1>6, DropEffects
  <2>2. PICK pc \in DropPcs : DropGoes(r, pc) /\ pc \notin {"idle", "read"}
    BY <1>6, DropEffects
  <2>3. drop[r].pc = "read" => pc = "refused" \/ live["folder"]
    <3>1. CASE DropCheck(r)
      BY <2>2, <3>1 DEF DropCheck, DropTo, DropGoes, LinksType, Request
    <3>2. CASE ~DropCheck(r)
      BY <1>6, <3>2 DEF DropStep, DropClaim, DropFolder, DropName, DropReserve, DropPut, DropCreate,
         DropRelease, DropGiveBack, DropRemove
    <3> QED
      BY <3>1, <3>2
  <2>4. drop[r].pc \notin {"idle", "refused"}
    BY <1>6, DropEffects
  <2> QED
    BY <2>1, <2>2, <2>3, <2>4 DEF Remembered, DropGoes
<1>7. ASSUME NEW r \in Drops, NEW l \in Links, DropRead(r, l)
      PROVE  Remembered'
  <2>1. UNCHANGED <<live, load>>
    BY <1>7 DEF DropRead, DropOnly
  <2> QED
    BY <1>7, <2>1, DropReading DEF Remembered
<1>8. CASE UNCHANGED shareVars
  BY <1>1, <1>8 DEF shareVars
<1> QED
  BY <1>3, <1>4, <1>5, <1>6, <1>7, <1>8 DEF ShareNext, Downloads, Uploads

\* What was in the trash when a request began, and stayed there, is neither served
\* nor added to, whatever the owner and other requests do between its statements.
THEOREM TrashIsUnshared == ShareSpec => []TrashUnshares
<1>1. ShareInit => LinksType /\ Begun /\ Remembered
  BY LinksInit DEF ShareInit, Remembered, Idle
<1>2. LinksType /\ Begun /\ Remembered /\ [ShareNext]_shareVars => (LinksType /\ Begun /\ Remembered)'
  BY LinksTypeStep, RememberedStep
<1>3. Remembered => TrashUnshares
  BY DEF Remembered, TrashUnshares
<1> QED
  BY <1>1, <1>2, <1>3, PTL DEF ShareSpec

-----------------------------------------------------------------------------
(* The limits of a link *)

\* The downloads served from a link are finitely many.
LEMMA ServedFinite ==
    ASSUME NEW l \in Links
    PROVE  IsFiniteSet(Served(l)) /\ Cardinality(Served(l)) \in Nat
  BY LinkAssumption, FS_Subset, FS_CardinalityType DEF Served

\* So are the uploads that hold a slot of it.
LEMMA HoldersFinite ==
    ASSUME NEW l \in Links
    PROVE  IsFiniteSet(Holders(l)) /\ Cardinality(Holders(l)) \in Nat
  BY LinkAssumption, FS_Subset, FS_CardinalityType DEF Holders

\* Every request of one link read the same limit, the one the link still has if it
\* is there; the row counts the downloads served and stays within the limit.
CapsAgree ==
    \A r \in Loads : load[r].pc # "idle" =>
        /\ share[load[r].link] # NoFile => load[r].seen.cap = share[load[r].link].cap
        /\ \A q \in Loads : load[q].pc # "idle" /\ load[q].link = load[r].link => load[q].seen.cap = load[r].seen.cap
Counted ==
    \A l \in Links : share[l] # NoFile =>
        /\ Cardinality(Served(l)) <= share[l].downloads
        /\ share[l].cap # NoCap => share[l].downloads <= share[l].cap
LoadInv == CapsAgree /\ Counted /\ DownloadLimit

\* Steps that serve nothing
LEMMA LoadInvCalm ==
    ASSUME LinksType, Begun, LoadInv, LinksType',
           \A l \in Links : Served(l)' = Served(l),
           \A r \in Loads : load[r].pc # "idle" => load'[r].link = load[r].link /\ load'[r].seen = load[r].seen
                                                   /\ load'[r].pc # "idle",
           \A r \in Loads : load[r].pc = "idle" /\ load'[r].pc # "idle" =>
              load'[r].link \in Links /\ share[load'[r].link] # NoFile /\ load'[r].seen.cap = share[load'[r].link].cap
                /\ share' = share,
           \A r, q \in Loads : load[r].pc = "idle" /\ load'[r].pc # "idle" /\ load[q].pc = "idle" /\ load'[q].pc # "idle"
              => r = q,
           \A l \in Links : \/ share'[l] = NoFile
                            \/ /\ share[l] # NoFile /\ share'[l].cap = share[l].cap
                               /\ share'[l].downloads = share[l].downloads
                            \/ share'[l].downloads = 0 /\ \A r \in Loads : load[r].link # l /\ load'[r].link # l
    PROVE  LoadInv'
<1>1. CapsAgree'
  <2> SUFFICES ASSUME NEW r \in Loads, load'[r].pc # "idle"
               PROVE  /\ share'[load'[r].link] # NoFile => load'[r].seen.cap = share'[load'[r].link].cap
                      /\ \A q \in Loads : load'[q].pc # "idle" /\ load'[q].link = load'[r].link
                           => load'[q].seen.cap = load'[r].seen.cap
    BY DEF CapsAgree
  <2>1. load'[r].link \in Links
    BY DEF Begun
  <2>2. CASE load[r].pc = "idle"
    <3>1. ASSUME NEW q \in Loads, load'[q].pc # "idle", load'[q].link = load'[r].link
          PROVE  load'[q].seen.cap = load'[r].seen.cap
      <4>1. CASE load[q].pc = "idle"
        BY <2>2, <3>1, <4>1
      <4>2. CASE load[q].pc # "idle"
        BY <2>2, <3>1, <4>2 DEF LoadInv, CapsAgree
      <4> QED
        BY <4>1, <4>2
    <3> QED
      BY <2>2, <3>1
  <2>3. CASE load[r].pc # "idle"
    <3>0. load'[r].link = load[r].link /\ load'[r].seen = load[r].seen
      BY <2>3
    <3>1. ASSUME NEW q \in Loads, load'[q].pc # "idle", load'[q].link = load'[r].link
          PROVE  load'[q].seen.cap = load'[r].seen.cap
      <4>1. CASE load[q].pc = "idle"
        BY <2>3, <3>0, <3>1, <4>1 DEF LoadInv, CapsAgree
      <4>2. CASE load[q].pc # "idle"
        BY <2>3, <3>0, <3>1, <4>2 DEF LoadInv, CapsAgree
      <4> QED
        BY <4>1, <4>2
    <3>2. share'[load'[r].link] # NoFile => load'[r].seen.cap = share'[load'[r].link].cap
      BY <2>1, <2>3, <3>0 DEF LoadInv, CapsAgree
    <3> QED
      BY <3>1, <3>2
  <2> QED
    BY <2>2, <2>3
<1>2. Counted'
  <2> SUFFICES ASSUME NEW l \in Links, share'[l] # NoFile
               PROVE  /\ Cardinality(Served(l)') <= share'[l].downloads
                      /\ share'[l].cap # NoCap => share'[l].downloads <= share'[l].cap
    BY DEF Counted
  <2>1. Served(l)' = Served(l)
    OBVIOUS
  <2>2. CASE /\ share[l] # NoFile /\ share'[l].cap = share[l].cap
             /\ share'[l].downloads = share[l].downloads
    BY <2>1, <2>2 DEF LoadInv, Counted
  <2>3. CASE share'[l].downloads = 0 /\ \A r \in Loads : load[r].link # l
    <3>1. Served(l) = {}
      BY <2>3 DEF Served
    <3>2. share'[l].cap # NoCap => share'[l].cap \in Nat
      BY DEF LinksType, Share
    <3> QED
      BY <2>1, <2>3, <3>1, <3>2, FS_EmptySet
  <2> QED
    BY <2>2, <2>3
<1>3. DownloadLimit'
  <2> SUFFICES ASSUME NEW l \in Links, NEW r \in Loads, r \in Served(l)', load'[r].seen.cap # NoCap
               PROVE  Cardinality(Served(l)') <= load'[r].seen.cap
    BY DEF DownloadLimit
  <2>1. Served(l)' = Served(l)
    OBVIOUS
  <2>2. r \in Served(l) /\ load'[r].seen = load[r].seen
    BY <2>1 DEF Served
  <2> QED
    BY <2>1, <2>2 DEF LoadInv, DownloadLimit
<1> QED
  BY <1>1, <1>2, <1>3 DEF LoadInv

\* A claim counts the download it serves.
LEMMA LoadInvClaim ==
    ASSUME LinksType, Begun, LoadInv, NEW r \in Loads, LoadClaim(r), LoadGoes(r, "served")
    PROVE  LoadInv'
<1>0. PICK l \in Links : l = load[r].link /\ load[r].pc = "authorized"
  BY DEF LoadClaim, Begun
<1>1. /\ \A k \in Links \ {l} : Served(k)' = Served(k)
      /\ Served(l)' = Served(l) \cup {r} /\ r \notin Served(l)
  BY <1>0 DEF Served, LoadGoes
<1>2. Cardinality(Served(l)') = Cardinality(Served(l)) + 1
  BY <1>0, <1>1, ServedFinite, FS_AddElement
<1>3. \A q \in Loads : load'[q].link = load[q].link /\ load'[q].seen = load[q].seen
                       /\ (load'[q].pc # "idle" <=> load[q].pc # "idle")
  BY <1>0 DEF LoadGoes
<1>4. ~LoadTo(r, "refused")
  <2>1. ASSUME LoadTo(r, "refused") PROVE FALSE
    <3>1. load'[r].pc = "refused"
      BY <2>1, LoadGoing DEF LoadGoes
    <3> QED
      BY <3>1 DEF LoadGoes
  <2> QED
    BY <2>1
<1>5. /\ load[r].seen.cap = NoCap \/ (share[l] # NoFile /\ share[l].downloads < load[r].seen.cap)
      /\ share' = IF share[l] = NoFile THEN share ELSE [share EXCEPT ![l].downloads = share[l].downloads + 1]
  BY <1>0, <1>4 DEF LoadClaim
<1>6. /\ \A k \in Links \ {l} : share'[k] = share[k]
      /\ share[l] = NoFile => share'[l] = NoFile
      /\ share[l] # NoFile => /\ share'[l].cap = share[l].cap
                              /\ share'[l].downloads = share[l].downloads + 1
                              /\ share[l].downloads \in Nat
  <2>1. CASE share[l] = NoFile
    BY <1>5, <2>1
  <2>2. CASE share[l] # NoFile
    <3>1. share[l].downloads \in Nat
      BY <1>0, <2>2 DEF LinksType, Share
    <3>2. share[l].downloads + 1 \in Nat
      BY <3>1
    <3>3. share' = [share EXCEPT ![l].downloads = share[l].downloads + 1]
      BY <1>5, <2>2
    <3> QED
      BY <1>0, <2>2, <3>1, <3>2, <3>3, CountDownloads
  <2> QED
    BY <2>1, <2>2
<1>7. share[l] # NoFile => load[r].seen.cap = share[l].cap
  BY <1>0 DEF LoadInv, CapsAgree
<1>8. load[r].seen.cap # NoCap => load[r].seen.cap \in Nat
  BY <1>0 DEF Begun, Seen
<1>9. CapsAgree'
  <2> SUFFICES ASSUME NEW q \in Loads, load'[q].pc # "idle"
               PROVE  /\ share'[load'[q].link] # NoFile => load'[q].seen.cap = share'[load'[q].link].cap
                      /\ \A o \in Loads : load'[o].pc # "idle" /\ load'[o].link = load'[q].link
                           => load'[o].seen.cap = load'[q].seen.cap
    BY DEF CapsAgree
  <2>1. load[q].link \in Links /\ load[q].pc # "idle"
    BY <1>3 DEF Begun
  <2> QED
    BY <1>3, <1>6, <2>1 DEF LoadInv, CapsAgree
<1>10. Counted'
  <2> SUFFICES ASSUME NEW k \in Links, share'[k] # NoFile
               PROVE  /\ Cardinality(Served(k)') <= share'[k].downloads
                      /\ share'[k].cap # NoCap => share'[k].downloads <= share'[k].cap
    BY DEF Counted
  <2>1. CASE k # l
    BY <1>1, <1>6, <2>1 DEF LoadInv, Counted
  <2>2. CASE k = l
    <3>1. /\ share[l] # NoFile /\ Cardinality(Served(l)) <= share[l].downloads
          /\ Cardinality(Served(l)) \in Nat
      BY <1>0, <1>6, <2>2, ServedFinite DEF LoadInv, Counted
    <3>2. Cardinality(Served(l)') <= share'[l].downloads
      BY <1>2, <1>6, <3>1
    <3>3. share'[l].cap # NoCap => share'[l].downloads <= share'[l].cap
      BY <1>5, <1>6, <1>7, <1>8, <3>1
    <3> QED
      BY <2>2, <3>2, <3>3
  <2> QED
    BY <2>1, <2>2
<1>11. DownloadLimit'
  <2> SUFFICES ASSUME NEW k \in Links, NEW q \in Loads, q \in Served(k)', load'[q].seen.cap # NoCap
               PROVE  Cardinality(Served(k)') <= load'[q].seen.cap
    BY DEF DownloadLimit
  <2>1. CASE k # l
    <3>1. Served(k)' = Served(k) /\ q \in Served(k)
      BY <1>1, <2>1
    <3> QED
      BY <1>3, <3>1 DEF LoadInv, DownloadLimit
  <2>2. CASE k = l
    <3>1. load'[q].link = l /\ load'[q].pc = "served"
      BY <2>2 DEF Served
    <3>2. load[q].link = l /\ load[q].pc # "idle" /\ load'[q].seen = load[q].seen
      BY <1>3, <3>1
    <3>3. load[q].seen.cap = load[r].seen.cap
      BY <1>0, <3>2 DEF LoadInv, CapsAgree
    <3>4. share[l] # NoFile /\ share[l].downloads < load[r].seen.cap
      BY <1>5, <3>2, <3>3
    <3>5. Cardinality(Served(l)) <= share[l].downloads /\ Cardinality(Served(l)) \in Nat
      BY <1>0, <3>4, ServedFinite DEF LoadInv, Counted
    <3>6. load[r].seen.cap \in Nat /\ share[l].downloads \in Nat
      BY <1>6, <1>8, <3>2, <3>3, <3>4
    <3>7. Cardinality(Served(l)') <= load[r].seen.cap
      BY <1>2, <3>4, <3>5, <3>6
    <3> QED
      BY <2>2, <3>2, <3>3, <3>7
  <2> QED
    BY <2>1, <2>2
<1> QED
  BY <1>9, <1>10, <1>11 DEF LoadInv

\* The counter of downloads covers what was served, after every step.
LEMMA LoadInvStep == LinksType /\ Begun /\ LoadInv /\ [ShareNext]_shareVars => LoadInv'
<1> SUFFICES ASSUME LinksType, Begun, LoadInv, [ShareNext]_shareVars PROVE LoadInv'
  OBVIOUS
<1>0. LinksType'
  BY LinksTypeStep
<1>1. ASSUME \A r \in Loads : load'[r].pc = load[r].pc /\ load'[r].link = load[r].link /\ load'[r].seen = load[r].seen,
             \A l \in Links : OwnerRow(l) \/ UploadRow(l)
      PROVE  LoadInv'
  <2>1. \A l \in Links : Served(l)' = Served(l)
    BY <1>1 DEF Served
  <2>2. \A l \in Links : \/ share'[l] = NoFile
                         \/ /\ share[l] # NoFile /\ share'[l].cap = share[l].cap
                            /\ share'[l].downloads = share[l].downloads
                         \/ share'[l].downloads = 0 /\ \A r \in Loads : load[r].link # l /\ load'[r].link # l
    BY <1>1 DEF OwnerRow, UploadRow
  <2> QED
    BY <1>0, <1>1, <2>1, <2>2, LoadInvCalm
<1>2. CASE OwnerStep
  <2>1. SameLoads /\ \A l \in Links : OwnerRow(l)
    BY <1>2, OwnerEffects
  <2> QED
    BY <1>1, <2>1 DEF SameLoads
<1>3. ASSUME NEW r \in Loads, NEW pc \in {"refused", "authorized"}, LoadGoes(r, pc), UNCHANGED share,
             load[r].pc \in {"read", "authorized"}
      PROVE  LoadInv'
  <2>1. \A l \in Links : Served(l)' = Served(l)
    BY <1>3 DEF Served, LoadGoes
  <2>2. \A q \in Loads : /\ load'[q].link = load[q].link /\ load'[q].seen = load[q].seen
                         /\ (load'[q].pc # "idle" <=> load[q].pc # "idle")
    BY <1>3 DEF LoadGoes
  <2> QED
    BY <1>0, <1>3, <2>1, <2>2, LoadInvCalm
<1>4. ASSUME NEW r \in Loads, LoadStep(r)
      PROVE  LoadInv'
  <2>1. CASE LoadClaim(r) /\ LoadGoes(r, "served")
    BY <2>1, LoadInvClaim
  <2>2. CASE LoadClaim(r) /\ LoadGoes(r, "refused")
    <3>1. ~LoadTo(r, "served")
      <4>1. ASSUME LoadTo(r, "served") PROVE FALSE
        <5>1. load'[r].pc = "served"
          BY <4>1, LoadGoing DEF LoadGoes
        <5> QED
          BY <2>2, <5>1 DEF LoadGoes
      <4> QED
        BY <4>1
    <3>2. UNCHANGED share /\ load[r].pc = "authorized"
      BY <2>2, <3>1 DEF LoadClaim
    <3> QED
      BY <1>3, <2>2, <3>2
  <2>3. CASE /\ load[r].pc = "read" /\ UNCHANGED share
             /\ LoadGoes(r, "refused") \/ LoadGoes(r, "authorized")
    BY <1>3, <2>3
  <2> QED
    BY <1>4, <2>1, <2>2, <2>3, LoadEffects
<1>5. ASSUME NEW r \in Loads, NEW l \in Links, LoadRead(r, l)
      PROVE  LoadInv'
  <2>1. UNCHANGED share /\ load[r].pc = "idle" /\ share[l] # NoFile
    BY <1>5 DEF LoadRead
  <2>2. /\ \A q \in Loads \ {r} : load'[q] = load[q]
        /\ load'[r].pc = "read" /\ load'[r].link = l /\ load'[r].seen.cap = share[l].cap
    BY <1>5, LoadReading
  <2>3. \A k \in Links : Served(k)' = Served(k)
    BY <2>1, <2>2 DEF Served
  <2> QED
    BY <1>0, <2>1, <2>2, <2>3, LoadInvCalm
<1>6. ASSUME NEW r \in Drops, DropStep(r)
      PROVE  LoadInv'
  <2>1. UNCHANGED load /\ \A l \in Links : UploadRow(l)
    BY <1>6, DropEffects
  <2> QED
    BY <1>1, <2>1
<1>7. ASSUME NEW r \in Drops, NEW l \in Links, DropRead(r, l)
      PROVE  LoadInv'
  <2>1. UNCHANGED <<load, share>>
    BY <1>7 DEF DropRead, DropOnly
  <2> QED
    BY <1>1, <2>1 DEF UploadRow
<1>8. CASE UNCHANGED shareVars
  BY <1>1, <1>8 DEF shareVars, UploadRow
<1> QED
  BY <1>2, <1>4, <1>5, <1>6, <1>7, <1>8 DEF ShareNext, Downloads, Uploads

\* The row counts the uploads that hold a slot, and no more hold one than allowed.
LEMMA SlotsCalm ==
    ASSUME LinksType, SlotsExact, MaxUploads > 0,
           \A l \in Links : Holders(l)' = Holders(l),
           \A l \in Links : \/ share'[l] = NoFile
                            \/ share[l] # NoFile /\ share'[l].uploads = share[l].uploads
                            \/ share'[l].uploads = 0 /\ \A r \in Drops : drop[r].link # l
    PROVE  SlotsExact'
<1> SUFFICES ASSUME NEW l \in Links
             PROVE  /\ share'[l] # NoFile => share'[l].uploads = Cardinality(Holders(l)')
                    /\ Cardinality(Holders(l)') <= MaxUploads
  BY DEF SlotsExact
<1>1. Holders(l)' = Holders(l)
  OBVIOUS
<1>2. (share[l] # NoFile => share[l].uploads = Cardinality(Holders(l))) /\ Cardinality(Holders(l)) <= MaxUploads
  BY DEF SlotsExact
<1>3. CASE share'[l] = NoFile \/ (share[l] # NoFile /\ share'[l].uploads = share[l].uploads)
  BY <1>1, <1>2, <1>3
<1>4. CASE share'[l].uploads = 0 /\ \A r \in Drops : drop[r].link # l
  <2>1. Holders(l) = {}
    BY <1>4 DEF Holders
  <2> QED
    BY <1>1, <1>2, <1>4, <2>1, FS_EmptySet
<1> QED
  BY <1>3, <1>4

HoldPcs == {"claimed", "found", "named", "reserved", "put", "created", "owesBytes", "owesSlot"}

\* The counter of uploads is what holds a slot, after every step.
LEMMA SlotsStep == LinksType /\ Begun /\ LapsesEnded /\ SlotsExact /\ [ShareNext]_shareVars => SlotsExact'
<1> SUFFICES ASSUME LinksType, Begun, LapsesEnded, SlotsExact, [ShareNext]_shareVars, MaxUploads > 0 PROVE SlotsExact'
  BY DEF SlotsExact
<1>0. MaxUploads \in Nat
  BY LinkAssumption
<1>1. ASSUME \A l \in Links : OwnerRow(l) \/ (share[l] # NoFile /\ share'[l].uploads = share[l].uploads),
             UNCHANGED lapsed, \A r \in Drops : drop'[r].pc = drop[r].pc /\ drop'[r].link = drop[r].link
      PROVE  SlotsExact'
  <2>1. \A l \in Links : Holders(l)' = Holders(l)
    BY <1>1 DEF Holders
  <2>2. \A l \in Links : \/ share'[l] = NoFile
                         \/ share[l] # NoFile /\ share'[l].uploads = share[l].uploads
                         \/ share'[l].uploads = 0 /\ \A r \in Drops : drop[r].link # l
    BY <1>1 DEF OwnerRow
  <2> QED
    BY <2>1, <2>2, SlotsCalm
<1>2. CASE OwnerStep
  <2>1. SameDrops /\ UNCHANGED lapsed /\ \A l \in Links : OwnerRow(l)
    BY <1>2, OwnerEffects
  <2> QED
    BY <1>1, <2>1 DEF SameDrops
<1>3. ASSUME NEW r \in Loads, LoadStep(r)
      PROVE  SlotsExact'
  <2>1. /\ UNCHANGED <<drop, lapsed>>
        /\ \A l \in Links : share'[l] = share[l] \/ (share[l] # NoFile /\ share'[l].uploads = share[l].uploads)
    BY <1>3, LoadEffects
  <2> QED
    BY <1>1, <2>1 DEF OwnerRow
<1>4. ASSUME NEW r \in Loads, NEW l \in Links, LoadRead(r, l)
      PROVE  SlotsExact'
  <2>1. UNCHANGED <<drop, share, lapsed>>
    BY <1>4 DEF LoadRead, LoadOnly
  <2> QED
    BY <1>1, <2>1 DEF OwnerRow
<1>5. ASSUME NEW r \in Drops, NEW l \in Links, DropRead(r, l)
      PROVE  SlotsExact'
  <2>1. UNCHANGED <<share, lapsed>> /\ drop[r].pc = "idle"
    BY <1>5 DEF DropRead
  <2>2. \A k \in Links : Holders(k)' = Holders(k)
    <3>1. <<r, "slot">> \notin lapsed /\ UNCHANGED lapsed
      BY <2>1 DEF LapsesEnded
    <3>2. \A q \in Drops \ {r} : drop'[q] = drop[q]
      BY <1>5, DropReading
    <3>3. drop'[r].pc = "read"
      BY <1>5, DropReading
    <3> QED
      BY <2>1, <3>1, <3>2, <3>3 DEF Holders
  <2> QED
    BY <2>1, <2>2, SlotsCalm
<1>6. ASSUME NEW r \in Drops, NEW pc \in DropPcs, DropGoes(r, pc), UNCHANGED share,
             \/ UNCHANGED lapsed /\ (drop[r].pc \in HoldPcs <=> pc \in HoldPcs)
             \/ drop[r].pc \in HoldPcs /\ \E what : LapsesMore(r, what) /\ "slot" \in what
             \/ drop[r].pc \notin HoldPcs /\ pc \notin HoldPcs /\ \E what : LapsesMore(r, what) /\ "slot" \notin what
      PROVE  SlotsExact'
  <2>1. \A q \in Drops : /\ drop'[q].link = drop[q].link
                         /\ (drop'[q].pc \in HoldPcs \/ <<q, "slot">> \in lapsed'
                               <=> drop[q].pc \in HoldPcs \/ <<q, "slot">> \in lapsed)
    BY <1>6 DEF DropGoes, LapsesMore
  <2>2. \A k \in Links : Holders(k)' = Holders(k)
    BY <2>1 DEF Holders, HoldPcs
  <2> QED
    BY <1>6, <2>2, SlotsCalm
<1>7. ASSUME NEW r \in Drops, DropClaim(r)
      PROVE  SlotsExact'
  <2>0. PICK l \in Links : l = drop[r].link /\ drop[r].pc = "checked"
    BY <1>7 DEF DropClaim, Begun
  <2>0a. UNCHANGED lapsed /\ \A x \in {"slot", "bytes", "object"} : <<r, x>> \notin lapsed
    BY <1>7, <2>0 DEF DropClaim, LapsesEnded
  <2>1. CASE DropTo(r, "refused") /\ UNCHANGED share
    BY <1>6, <2>0, <2>0a, <2>1, DropGoing DEF HoldPcs
  <2>2. CASE /\ DropTo(r, "claimed") /\ share[l] # NoFile /\ share[l].uploads < MaxUploads
             /\ share' = [share EXCEPT ![l].uploads = share[l].uploads + 1]
    <3>1. DropGoes(r, "claimed")
      BY <2>2, DropGoing
    <3>2. /\ \A k \in Links \ {l} : Holders(k)' = Holders(k)
          /\ Holders(l)' = Holders(l) \cup {r} /\ r \notin Holders(l)
      BY <2>0, <2>0a, <3>1 DEF Holders, DropGoes
    <3>3. Cardinality(Holders(l)') = Cardinality(Holders(l)) + 1
      BY <3>2, HoldersFinite, FS_AddElement
    <3>4. share[l].uploads \in Nat /\ share[l].uploads + 1 \in Nat
      BY <2>2 DEF LinksType, Share
    <3>5. (\A k \in Links \ {l} : share'[k] = share[k]) /\ share'[l].uploads = share[l].uploads + 1
      BY <2>2, <3>4, CountUploads
    <3>6. ASSUME NEW k \in Links
          PROVE  /\ share'[k] # NoFile => share'[k].uploads = Cardinality(Holders(k)')
                 /\ Cardinality(Holders(k)') <= MaxUploads
      <4>1. CASE k # l
        BY <3>2, <3>5, <4>1 DEF SlotsExact
      <4>2. CASE k = l
        <5>1. share[l].uploads = Cardinality(Holders(l))
          BY <2>2 DEF SlotsExact
        <5> QED
          BY <1>0, <2>2, <3>3, <3>4, <3>5, <4>2, <5>1
      <4> QED
        BY <4>1, <4>2
    <3> QED
      BY <3>6 DEF SlotsExact
  <2> QED
    BY <1>0, <1>7, <2>0, <2>1, <2>2 DEF DropClaim
<1>8a. ASSUME NEW r \in Drops, DropGiveBack(r), Lapse(r, {"slot"}), UNCHANGED share
      PROVE  SlotsExact'
  <2>1. PICK pc \in {"owesNothing", "refused"} : DropGoes(r, pc)
    BY <1>8a, DropGoing DEF DropGiveBack
  <2>2. drop[r].pc \in HoldPcs /\ LapsesMore(r, {"slot"})
    BY <1>8a, Lapsing DEF DropGiveBack, HoldPcs
  <2> QED
    BY <1>6, <1>8a, <2>1, <2>2
<1>8. ASSUME NEW r \in Drops, DropGiveBack(r), UNCHANGED lapsed,
             share' = IF MaxUploads > 0 /\ share[drop[r].link] # NoFile /\ share[drop[r].link].uploads > 0
                        THEN [share EXCEPT ![drop[r].link].uploads = @ - 1] ELSE share
      PROVE  SlotsExact'
  <2>0. PICK l \in Links : l = drop[r].link /\ drop[r].pc = "owesSlot"
    BY <1>8 DEF DropGiveBack, Begun
  <2>0a. <<r, "slot">> \notin lapsed
    BY <2>0 DEF LapsesEnded
  <2>1. PICK pc \in {"owesNothing", "refused"} : DropGoes(r, pc)
    BY <1>8, DropGoing DEF DropGiveBack
  <2>2. /\ \A k \in Links \ {l} : Holders(k)' = Holders(k)
        /\ Holders(l)' = Holders(l) \ {r} /\ r \in Holders(l)
    BY <1>8, <2>0, <2>0a, <2>1 DEF Holders, DropGoes
  <2>3. /\ Cardinality(Holders(l)') = Cardinality(Holders(l)) - 1
        /\ Cardinality(Holders(l)) \in Nat
    BY <2>2, HoldersFinite, FS_RemoveElement
  <2>3a. Cardinality(Holders(l)) > 0
    BY <2>2, <2>3, HoldersFinite, FS_EmptySet
  <2>4. share[l] # NoFile => share[l].uploads = Cardinality(Holders(l))
    BY DEF SlotsExact
  <2>5. /\ \A k \in Links \ {l} : share'[k] = share[k]
        /\ share[l] = NoFile => share'[l] = NoFile
        /\ share[l] # NoFile => share'[l].uploads = share[l].uploads - 1
    <3>1. CASE share[l] = NoFile
      BY <1>8, <2>0, <3>1
    <3>2. CASE share[l] # NoFile
      <4>1. share[l].uploads > 0 /\ share[l].uploads - 1 \in Nat
        BY <2>3, <2>3a, <2>4, <3>2
      <4>2. share' = [share EXCEPT ![l].uploads = share[l].uploads - 1]
        BY <1>0, <1>8, <2>0, <3>2, <4>1
      <4> QED
        BY <3>2, <4>1, <4>2, CountUploads
    <3> QED
      BY <3>1, <3>2
  <2>6. ASSUME NEW k \in Links
        PROVE  /\ share'[k] # NoFile => share'[k].uploads = Cardinality(Holders(k)')
               /\ Cardinality(Holders(k)') <= MaxUploads
    <3>1. CASE k # l
      BY <2>2, <2>5, <3>1 DEF SlotsExact
    <3>2. CASE k = l
      <4>1. Cardinality(Holders(l)) <= MaxUploads
        BY DEF SlotsExact
      <4> QED
        BY <1>0, <2>3, <2>4, <2>5, <3>2, <4>1
    <3> QED
      BY <3>1, <3>2
  <2> QED
    BY <2>6 DEF SlotsExact
<1>9. ASSUME NEW r \in Drops, DropStep(r), ~DropClaim(r), ~DropGiveBack(r)
      PROVE  SlotsExact'
  <2>1. UNCHANGED share
    BY <1>9 DEF DropStep, DropCheck, DropFolder, DropName, DropReserve, DropPut, DropCreate, DropRelease, DropRemove
  <2>2. \/ drop[r].pc = "read" /\ (DropTo(r, "checked") \/ DropTo(r, "refused")) /\ UNCHANGED lapsed
        \/ drop[r].pc \in HoldPcs /\ (\E pc \in HoldPcs : DropTo(r, pc)) /\ UNCHANGED lapsed
        \/ /\ drop[r].pc \in HoldPcs /\ DropTo(r, "refused")
           /\ \E what : Lapse(r, what) /\ "slot" \in what
        \/ drop[r].pc = "owesNothing" /\ DropTo(r, "refused") /\ (UNCHANGED lapsed \/ Lapse(r, {"object"}))
    <3>1. CASE DropCheck(r) \/ DropFolder(r) \/ DropReserve(r) \/ DropPut(r) \/ DropCreate(r)
      BY <3>1 DEF DropCheck, DropFolder, DropReserve, DropPut, DropCreate, HoldPcs
    <3>2. CASE DropName(r)
      BY <3>2 DEF DropName, HoldPcs
    <3>3. CASE DropRelease(r)
      BY <3>3 DEF DropRelease, HoldPcs
    <3>4. CASE DropRemove(r)
      BY <3>4 DEF DropRemove
    <3> QED
      BY <1>9, <3>1, <3>2, <3>3, <3>4 DEF DropStep
  <2>3. CASE \/ drop[r].pc = "read" /\ (DropTo(r, "checked") \/ DropTo(r, "refused")) /\ UNCHANGED lapsed
             \/ drop[r].pc \in HoldPcs /\ (\E pc \in HoldPcs : DropTo(r, pc)) /\ UNCHANGED lapsed
             \/ drop[r].pc = "owesNothing" /\ DropTo(r, "refused") /\ UNCHANGED lapsed
    <3>1. PICK pc \in DropPcs : DropTo(r, pc) /\ (drop[r].pc \in HoldPcs <=> pc \in HoldPcs) /\ UNCHANGED lapsed
      BY <2>3 DEF HoldPcs
    <3> QED
      BY <1>6, <2>1, <3>1, DropGoing
  <2>4. CASE /\ drop[r].pc \in HoldPcs /\ DropTo(r, "refused")
             /\ \E what : Lapse(r, what) /\ "slot" \in what
    BY <1>6, <2>1, <2>4, DropGoing, Lapsing
  <2>5. CASE drop[r].pc = "owesNothing" /\ DropTo(r, "refused") /\ Lapse(r, {"object"})
    <3>1. LapsesMore(r, {"object"}) /\ "slot" \notin {"object"} /\ DropGoes(r, "refused")
      BY <2>5, Lapsing, DropGoing
    <3> QED
      BY <1>6, <2>1, <2>5, <3>1 DEF HoldPcs
  <2> QED
    BY <2>2, <2>3, <2>4, <2>5
<1>10. CASE UNCHANGED shareVars
  BY <1>1, <1>10 DEF shareVars, OwnerRow
<1> QED
  BY <1>2, <1>3, <1>4, <1>5, <1>7, <1>8, <1>8a, <1>9, <1>10 DEF ShareNext, Downloads, Uploads, DropGiveBack

\* The limits of a link hold for any number of downloads and uploads at once, and no
\* refused or failed upload costs the link anything but one whose slot was never
\* given back, because the undo failed or nothing caught the error.
THEOREM LimitsAreKept == ShareSpec => []LimitsKept
<1>1. ShareInit => LinksType /\ Begun /\ LapsesEnded /\ LoadInv /\ SlotsExact
  <2> SUFFICES ASSUME ShareInit PROVE LapsesEnded /\ LoadInv /\ SlotsExact
    BY LinksInit
  <2>1. LoadInv
    BY DEF ShareInit, Idle, LoadInv, CapsAgree, Counted, DownloadLimit, Served
  <2>1a. LapsesEnded
    BY DEF ShareInit, LapsesEnded
  <2>2. \A l \in Links : Holders(l) = {} /\ share[l] = NoFile
    BY DEF ShareInit, Idle, Holders
  <2>3. SlotsExact
    BY <2>2, FS_EmptySet, LinkAssumption DEF SlotsExact
  <2> QED
    BY <2>1, <2>1a, <2>3
<1>2. LinksType /\ Begun /\ LapsesEnded /\ LoadInv /\ SlotsExact /\ [ShareNext]_shareVars
        => (LinksType /\ Begun /\ LapsesEnded /\ LoadInv /\ SlotsExact)'
  BY LinksTypeStep, LapsesStep, LoadInvStep, SlotsStep
<1>3. LoadInv /\ SlotsExact => LimitsKept
  BY DEF LoadInv, LimitsKept
<1> QED
  BY <1>1, <1>2, <1>3, PTL DEF ShareSpec

-----------------------------------------------------------------------------
(* The owner's books *)

PaidPcs == {"reserved", "put", "created", "owesBytes"}
StoredPcs == {"put", "created", "owesBytes", "owesSlot", "owesNothing"}

\* The owner is charged for the uploads under way or done; an object is of an
\* upload that made it, or has yet to remove it, or failed to.
ShareBooks ==
    /\ used \in Nat /\ other \in Nat /\ used <= Quota
    /\ used = other + DropSize * Cardinality(Paid)
    /\ stored \subseteq Drops
    /\ \A r \in stored : drop[r].pc \in StoredPcs \/ <<r, "object">> \in lapsed

\* The uploads that were paid for are finitely many.
LEMMA PaidFinite == IsFiniteSet(Paid) /\ Cardinality(Paid) \in Nat
  BY LinkAssumption, FS_Subset, FS_CardinalityType DEF Paid

\* A step that pays and frees nothing keeps the books.
LEMMA BooksCalm ==
    ASSUME ShareBooks, Paid' = Paid, UNCHANGED <<used, other>>, stored' \subseteq Drops,
           \A r \in stored' : drop'[r].pc \in StoredPcs \/ <<r, "object">> \in lapsed'
    PROVE  ShareBooks'
  BY DEF ShareBooks

\* One more upload of the same size
LEMMA OneMore == \A n, d \in Nat : d * (n + 1) = d * n + d
  OBVIOUS

\* Every step keeps the books of the drop-box.
LEMMA ShareBooksStep == LinksType /\ Begun /\ LapsesEnded /\ ShareBooks /\ [ShareNext]_shareVars => ShareBooks'
<1> SUFFICES ASSUME LinksType, Begun, LapsesEnded, ShareBooks, [ShareNext]_shareVars PROVE ShareBooks'
  OBVIOUS
<1>0. /\ DropSize \in Nat /\ DropSize > 0 /\ Quota \in Nat /\ used \in Nat /\ other \in Nat
      /\ stored \subseteq Drops /\ used <= Quota
      /\ used = other + DropSize * Cardinality(Paid)
  BY LinkAssumption DEF ShareBooks
<1>00. DropSize * Cardinality(Paid) \in Nat
  BY <1>0, PaidFinite
<1>1. ASSUME \A r \in Drops : drop'[r].pc = drop[r].pc, UNCHANGED <<stored, lapsed>>
      PROVE  Paid' = Paid /\ \A r \in stored' : drop'[r].pc \in StoredPcs \/ <<r, "object">> \in lapsed'
  BY <1>1 DEF Paid, ShareBooks
<1>2. CASE OwnerStep
  <2>1. (\A r \in Drops : drop'[r].pc = drop[r].pc) /\ UNCHANGED <<stored, lapsed>>
    BY <1>2, OwnerEffects DEF SameDrops
  <2>2. Paid' = Paid /\ \A r \in stored' : drop'[r].pc \in StoredPcs \/ <<r, "object">> \in lapsed'
    BY <1>1, <2>1
  <2>3. CASE OwnFile
    <3>1. /\ used' \in Nat /\ other' \in Nat /\ used' <= Quota
          /\ used' = other' + DropSize * Cardinality(Paid)
      BY <1>0, <1>00, <2>3 DEF OwnFile
    <3> QED
      BY <1>0, <2>1, <2>2, <3>1 DEF ShareBooks
  <2>4. CASE ~OwnFile
    <3>1. UNCHANGED <<used, other>>
      BY <1>2, <2>4 DEF OwnerStep, CreateShare, Expiry, Revoke, Toggle, Untouched
    <3> QED
      BY <1>0, <2>1, <2>2, <3>1, BooksCalm
  <2> QED
    BY <2>3, <2>4
<1>3. ASSUME UNCHANGED <<drop, used, other, stored, lapsed>>
      PROVE  ShareBooks'
  BY <1>0, <1>1, <1>3, BooksCalm
<1>4. ASSUME NEW r \in Loads, LoadStep(r) \/ \E l \in Links : LoadRead(r, l)
      PROVE  ShareBooks'
  <2>1. UNCHANGED <<drop, used, other, stored, lapsed>>
    BY <1>4, LoadEffects DEF LoadRead, LoadOnly
  <2> QED
    BY <1>3, <2>1
<1>5. ASSUME NEW r \in Drops, NEW l \in Links, DropRead(r, l)
      PROVE  ShareBooks'
  <2>1. UNCHANGED <<used, other, stored, lapsed>> /\ drop[r].pc = "idle"
    BY <1>5 DEF DropRead, DropOnly
  <2>2. (\A q \in Drops \ {r} : drop'[q] = drop[q]) /\ drop'[r].pc = "read"
    BY <1>5, DropReading
  <2>3. Paid' = Paid
    BY <2>1, <2>2 DEF Paid, PaidPcs
  <2>4. r \notin stored
    BY <2>1 DEF ShareBooks, StoredPcs, LapsesEnded
  <2>5. \A q \in stored' : drop'[q].pc \in StoredPcs \/ <<q, "object">> \in lapsed'
    BY <2>1, <2>2, <2>4 DEF ShareBooks
  <2> QED
    BY <1>0, <2>1, <2>3, <2>5, BooksCalm
<1>6. ASSUME NEW r \in Drops, NEW pc \in DropPcs, DropGoes(r, pc), UNCHANGED <<used, other>>,
             NEW what, LapsesMore(r, what),
             drop[r].pc \in PaidPcs <=> pc \in PaidPcs \/ "bytes" \in what, <<r, "bytes">> \notin lapsed,
             stored' \subseteq stored \cup {r},
             r \in stored' => pc \in StoredPcs \/ "object" \in what \/ <<r, "object">> \in lapsed
      PROVE  ShareBooks'
  <2>1. \A q \in Drops : drop'[q].pc \in PaidPcs \/ <<q, "bytes">> \in lapsed'
                          <=> drop[q].pc \in PaidPcs \/ <<q, "bytes">> \in lapsed
    BY <1>6 DEF DropGoes, LapsesMore
  <2>2. Paid' = Paid
    BY <2>1 DEF Paid, PaidPcs
  <2>3. stored' \subseteq Drops
    BY <1>0, <1>6
  <2>4. \A q \in stored' : drop'[q].pc \in StoredPcs \/ <<q, "object">> \in lapsed'
    BY <1>6, <2>3 DEF ShareBooks, DropGoes, LapsesMore
  <2> QED
    BY <1>0, <1>6, <2>2, <2>3, <2>4, BooksCalm
<1>6a. UNCHANGED lapsed => \A r \in Drops : LapsesMore(r, {})
  BY DEF LapsesMore
<1>6b. \A r \in Drops, x \in {"slot", "bytes", "object"} :
         drop[r].pc \notin {"owesNothing", "refused"} => <<r, x>> \notin lapsed
  BY DEF LapsesEnded
<1>7. ASSUME NEW r \in Drops, DropReserve(r), used' # used
      PROVE  ShareBooks'
  <2>0. drop[r].pc = "named" /\ UNCHANGED lapsed
    BY <1>7 DEF DropReserve
  <2>0a. ~(DropTo(r, "owesSlot") /\ UNCHANGED used)
    BY <1>0, <1>7
  <2>1. drop[r].pc = "named" /\ UNCHANGED <<other, stored, lapsed>> /\ DropTo(r, "reserved") /\ used' = used + DropSize
    BY <1>7, <2>0a DEF DropReserve, DropOnly
  <2>2. DropGoes(r, "reserved")
    BY <2>1, DropGoing
  <2>3. Paid' = Paid \cup {r} /\ r \notin Paid
    BY <1>6b, <2>1, <2>2 DEF Paid, DropGoes, PaidPcs
  <2>4. Cardinality(Paid') = Cardinality(Paid) + 1
    BY <2>3, PaidFinite, FS_AddElement
  <2>5. DropSize * (Cardinality(Paid) + 1) = DropSize * Cardinality(Paid) + DropSize
    BY <1>0, PaidFinite, OneMore
  <2>6. used' = other' + DropSize * Cardinality(Paid')
    BY <1>0, <1>00, <2>1, <2>4, <2>5
  <2>7. r \notin stored
    BY <2>1 DEF ShareBooks, StoredPcs, LapsesEnded
  <2>8. \A q \in stored' : drop'[q].pc \in StoredPcs \/ <<q, "object">> \in lapsed'
    BY <2>1, <2>2, <2>7 DEF ShareBooks, DropGoes
  <2>9. used' \in Nat /\ used' <= Quota
    BY <1>0, <1>7, <2>1, <2>0a DEF DropReserve
  <2> QED
    BY <1>0, <2>1, <2>6, <2>8, <2>9 DEF ShareBooks
<1>8. ASSUME NEW r \in Drops, DropRelease(r), UNCHANGED lapsed, DropTo(r, "owesSlot")
      PROVE  ShareBooks'
  <2>1. drop[r].pc = "owesBytes" /\ UNCHANGED <<other, stored, lapsed>> /\ DropTo(r, "owesSlot")
        /\ used' = IF used >= DropSize THEN used - DropSize ELSE 0
    <3>1. ~DropTo(r, "refused")
      BY <1>8, DropGoing DEF DropGoes
    <3> QED
      BY <1>8, <3>1 DEF DropRelease, DropOnly
  <2>2. DropGoes(r, "owesSlot")
    BY <2>1, DropGoing
  <2>3. Paid' = Paid \ {r} /\ r \in Paid
    BY <1>6b, <2>1, <2>2 DEF Paid, DropGoes, PaidPcs
  <2>4. Cardinality(Paid') = Cardinality(Paid) - 1 /\ IsFiniteSet(Paid')
    BY <2>3, PaidFinite, FS_RemoveElement
  <2>5. Cardinality(Paid') \in Nat
    BY <2>4, FS_CardinalityType
  <2>6. DropSize * (Cardinality(Paid') + 1) = DropSize * Cardinality(Paid') + DropSize
    BY <1>0, <2>5, OneMore
  <2>7. DropSize * Cardinality(Paid') \in Nat
    BY <1>0, <2>5
  <2>8. Cardinality(Paid) = Cardinality(Paid') + 1
    BY <2>4, PaidFinite
  <2>9. used = other + (DropSize * Cardinality(Paid') + DropSize)
    BY <1>0, <2>6, <2>8
  <2>10. used' = other' + DropSize * Cardinality(Paid') /\ used' \in Nat /\ used' <= Quota
    BY <1>0, <2>1, <2>7, <2>9
  <2>11. \A q \in stored' : drop'[q].pc \in StoredPcs \/ <<q, "object">> \in lapsed'
    BY <2>1, <2>2 DEF ShareBooks, DropGoes, StoredPcs
  <2> QED
    BY <1>0, <2>1, <2>10, <2>11 DEF ShareBooks
<1>9. ASSUME NEW r \in Drops, DropRelease(r), UNCHANGED used, DropTo(r, "refused"),
             Lapse(r, {"slot", "bytes"} \cup IF r \in stored THEN {"object"} ELSE {})
      PROVE  ShareBooks'
  <2> DEFINE what == {"slot", "bytes"} \cup IF r \in stored THEN {"object"} ELSE {}
  <2>1. drop[r].pc = "owesBytes" /\ UNCHANGED <<used, other, stored>> /\ DropGoes(r, "refused")
    BY <1>9, DropGoing DEF DropRelease, DropOnly
  <2>2. LapsesMore(r, what) /\ "bytes" \in what /\ (r \in stored => "object" \in what)
    BY <1>9, Lapsing
  <2> HIDE DEF what
  <2> QED
    BY <1>6, <1>6b, <2>1, <2>2 DEF PaidPcs
<1>10. ASSUME NEW r \in Drops, DropStep(r), ~DropRelease(r), ~(DropReserve(r) /\ used' # used)
      PROVE  ShareBooks'
  <2>1. r \in stored => drop[r].pc \in StoredPcs \/ <<r, "object">> \in lapsed
    BY DEF ShareBooks
  <2>2. UNCHANGED <<used, other>>
    BY <1>10 DEF DropStep, DropCheck, DropClaim, DropFolder, DropName, DropReserve, DropPut, DropCreate,
       DropGiveBack, DropRemove, DropOnly
  <2>3. CASE DropCheck(r) \/ DropClaim(r) \/ DropFolder(r) \/ DropName(r) \/ DropReserve(r)
    <3>1. drop[r].pc \in {"read", "checked", "claimed", "found", "named"} /\ UNCHANGED stored
      BY <2>3 DEF DropCheck, DropClaim, DropFolder, DropName, DropReserve
    <3>2. PICK pc \in {"checked", "refused", "claimed", "found", "named", "owesSlot"} : DropTo(r, pc)
      <4>1. DropReserve(r) => DropTo(r, "owesSlot")
        <5>1. DropReserve(r) /\ used + DropSize <= Quota /\ used' = used + DropSize => FALSE
          BY <1>0, <1>10
        <5> QED
          BY <5>1 DEF DropReserve
      <4> QED
        BY <1>10, <2>3, <4>1 DEF DropCheck, DropClaim, DropFolder, DropName
    <3>3. DropGoes(r, pc) /\ r \notin stored
      BY <1>6b, <2>1, <3>1, <3>2, DropGoing DEF StoredPcs
    <3>4. \E what : LapsesMore(r, what) /\ "bytes" \notin what
      BY <1>6a, <2>3, Lapsing DEF DropCheck, DropClaim, DropFolder, DropName, DropReserve
    <3> QED
      BY <1>6, <1>6b, <2>2, <3>1, <3>2, <3>3, <3>4 DEF PaidPcs
  <2>4. CASE DropPut(r)
    <3>0. drop[r].pc = "reserved" /\ LapsesMore(r, {}) /\ <<r, "bytes">> \notin lapsed
      BY <1>6a, <1>6b, <2>4 DEF DropPut
    <3>1. CASE DropTo(r, "put") /\ stored' = stored \cup {r}
      BY <1>6, <2>2, <3>0, <3>1, DropGoing DEF PaidPcs, StoredPcs
    <3>2. CASE DropTo(r, "owesBytes") /\ UNCHANGED stored
      BY <1>6, <2>2, <3>0, <3>2, DropGoing DEF PaidPcs, StoredPcs
    <3> QED
      BY <2>4, <3>1, <3>2 DEF DropPut
  <2>5. CASE DropCreate(r)
    <3>0. drop[r].pc = "put" /\ LapsesMore(r, {}) /\ <<r, "bytes">> \notin lapsed /\ UNCHANGED stored
      BY <1>6a, <1>6b, <2>5 DEF DropCreate
    <3>1. PICK pc \in {"created", "owesBytes"} : DropGoes(r, pc)
      BY <2>5, DropGoing DEF DropCreate
    <3> QED
      BY <1>6, <2>2, <3>0, <3>1 DEF PaidPcs, StoredPcs
  <2>6. CASE DropGiveBack(r)
    <3>1. drop[r].pc = "owesSlot" /\ UNCHANGED stored /\ <<r, "bytes">> \notin lapsed
      BY <1>6b, <2>6 DEF DropGiveBack
    <3>2. PICK pc \in {"owesNothing", "refused"} : DropGoes(r, pc) /\ (r \in stored => pc = "owesNothing")
      BY <2>6, DropGoing DEF DropGiveBack
    <3>3. \E what : LapsesMore(r, what) /\ "bytes" \notin what
      <4>1. LapsesMore(r, {}) \/ LapsesMore(r, {"slot"})
        BY <1>6a, <2>6, Lapsing DEF DropGiveBack
      <4> QED
        BY <4>1
    <3> QED
      BY <1>6, <2>2, <3>1, <3>2, <3>3 DEF PaidPcs, StoredPcs
  <2>7. CASE DropRemove(r)
    <3>0. drop[r].pc = "owesNothing" /\ DropGoes(r, "refused")
      BY <2>7, DropGoing DEF DropRemove
    <3>1. CASE <<r, "bytes">> \notin lapsed
      <4>1. CASE stored' = stored \ {r} /\ UNCHANGED lapsed
        <5>1. LapsesMore(r, {}) /\ r \notin stored' /\ stored' \subseteq stored
          BY <1>6a, <4>1
        <5> QED
          BY <1>6, <2>2, <3>0, <3>1, <5>1 DEF PaidPcs
      <4>2. CASE Lapse(r, {"object"}) /\ UNCHANGED stored
        <5>1. LapsesMore(r, {"object"}) /\ "bytes" \notin {"object"}
          BY <4>2, Lapsing
        <5> QED
          BY <1>6, <2>2, <3>0, <3>1, <4>2, <5>1 DEF PaidPcs
      <4> QED
        BY <2>7, <4>1, <4>2 DEF DropRemove
    <3>2. CASE <<r, "bytes">> \in lapsed
      BY <3>0, <3>2 DEF LapsesEnded
    <3> QED
      BY <3>1, <3>2
  <2> QED
    BY <1>10, <2>3, <2>4, <2>5, <2>6, <2>7 DEF DropStep
<1>11. CASE UNCHANGED shareVars
  BY <1>3, <1>11 DEF shareVars
<1>12. ASSUME NEW r \in Drops, DropRelease(r)
       PROVE  ShareBooks'
  BY <1>8, <1>9, <1>12 DEF DropRelease
<1> QED
  BY <1>2, <1>4, <1>5, <1>7, <1>10, <1>11, <1>12 DEF ShareNext, Downloads, Uploads

\* An owner pays for exactly what others put in a drop-box or are putting there,
\* within the quota, whichever of an upload's statements fails; no object is left
\* without a file.  What an undo that failed or never ran leaves is excepted by name.
THEOREM DropBooksExact == ShareSpec => []BooksExact
<1>1. ShareInit => LinksType /\ Begun /\ LapsesEnded /\ ShareBooks
  <2> SUFFICES ASSUME ShareInit PROVE LapsesEnded /\ ShareBooks
    BY LinksInit
  <2>1. Paid = {}
    BY DEF ShareInit, Idle, Paid
  <2>2. DropSize * Cardinality(Paid) = 0
    BY <2>1, FS_EmptySet, LinkAssumption
  <2> QED
    BY <2>2, LinkAssumption DEF ShareInit, ShareBooks, LapsesEnded
<1>2. LinksType /\ Begun /\ LapsesEnded /\ ShareBooks /\ [ShareNext]_shareVars
        => (LinksType /\ Begun /\ LapsesEnded /\ ShareBooks)'
  BY LinksTypeStep, LapsesStep, ShareBooksStep
<1>3. ShareBooks => BooksExact
  BY DEF ShareBooks, BooksExact, StoredPcs
<1> QED
  BY <1>1, <1>2, <1>3, PTL DEF ShareSpec

=============================================================================
