----------------------- MODULE ArchiveInspectionProofs -----------------------
(* What an accepted package is, for any archives, names, links and control   *)
(* paths, and any number of rewrites.                                        *)
(*                                                                           *)
(* What is proved about the state is short: what has been listed is the      *)
(* archive, and Inspect has seen what it went past.  The rest is about one   *)
(* archive: where each of its entries is unpacked (Spot), and what the scan  *)
(* of a link's target computes.                                              *)
EXTENDS ArchiveInspection, FiniteSetTheorems, FunctionTheorems,
        SequenceTheorems, WellFoundedInduction, TLAPS

---------------------------------------------------------------------------
(* Induction over an interval, stated with a set so that it can be cited.    *)
LEMMA LeastNumber ==
  ASSUME NEW T, T \subseteq Nat, T # {}
  PROVE  \E x \in T : \A y \in T : x <= y
<1> DEFINE Less == OpToRel(<, Nat)
<1>1. IsWellFoundedOn(Less, Nat)
  BY NatLessThanWellFounded
<1>2. \A x, y \in Nat : <<y, x>> \in Less <=> y < x
  BY DEF OpToRel
<1> HIDE DEF Less
<1>3. PICK x \in T : \A y \in T : <<y, x>> \notin Less
  BY <1>1, WFMin
<1>4. \A y \in T : ~(y < x)
  BY <1>2, <1>3
<1>5. \A y \in T : x <= y
  BY <1>4
<1> QED
  BY <1>5

LEMMA IntervalInduction ==
  ASSUME NEW n \in Nat, NEW S, 0 \in S,
         \A i \in 1 .. n : i - 1 \in S => i \in S
  PROVE  0 .. n \subseteq S
<1> SUFFICES ASSUME (0 .. n) \ S # {} PROVE FALSE
  OBVIOUS
<1>1. PICK x \in (0 .. n) \ S : \A y \in (0 .. n) \ S : x <= y
  BY LeastNumber, (0 .. n) \ S \subseteq Nat
<1>2. x # 0 /\ x - 1 \in 0 .. n /\ x - 1 \notin (0 .. n) \ S
  BY <1>1
<1> QED
  BY <1>1, <1>2

---------------------------------------------------------------------------
(* The recursive definitions define what they say: a function with the       *)
(* equation exists up to every length.                                       *)
LEMMA NormalizeEquation ==
  ASSUME NEW name \in Path
  PROVE  \E f : /\ f[0] = << >>
                /\ \A i \in 1 .. Len(name) : f[i] = Keep(f[i - 1], name[i])
                /\ Normalize(name) = f[Len(name)]
<1> DEFINE n == Len(name)
           first == << >>
           Part(g, i) == IF i = 0 THEN first ELSE Keep(g[i - 1], name[i])
           upTo == {m \in 0 .. n : \E g : g = [i \in 0 .. m |-> Part(g, i)]}
<1>1. n \in Nat
  BY DEF Path
<1> HIDE DEF n, first
<1>2. 0 \in upTo
  <2> DEFINE g == [i \in 0 .. 0 |-> first]
  <2>1. g = [i \in 0 .. 0 |-> Part(g, i)]
    OBVIOUS
  <2> HIDE DEF g, Part
  <2>2. \E f : f = [i \in 0 .. 0 |-> Part(f, i)]
    BY <2>1, Zenon
  <2> QED
    BY <1>1, <2>2
<1>3. ASSUME NEW m \in 1 .. n, m - 1 \in upTo PROVE m \in upTo
  <2>1. PICK g : g = [i \in 0 .. m - 1 |-> Part(g, i)]
    BY <1>3
  <2> DEFINE h == [i \in 0 .. m |-> IF i = m THEN Part(g, m) ELSE g[i]]
  <2>2. ASSUME NEW i \in 0 .. m PROVE h[i] = Part(h, i)
    <3>1. i # 0 => i - 1 \in 0 .. m - 1 /\ h[i - 1] = g[i - 1]
      BY <1>1
    <3>2. i # m => i \in 0 .. m - 1 /\ h[i] = g[i] /\ g[i] = Part(g, i)
      BY <1>1, <2>1
    <3>3. Part(g, i) = Part(h, i)
      BY <3>1
    <3> QED
      BY <3>2, <3>3
  <2>3. h = [i \in 0 .. m |-> Part(h, i)]
    BY <2>2
  <2> HIDE DEF h, Part
  <2>4. \E f : f = [i \in 0 .. m |-> Part(f, i)]
    BY <2>3, Zenon
  <2> QED
    BY <1>1, <2>4
<1> HIDE DEF upTo
<1>4. n \in upTo
  <2>1. 0 .. n \subseteq upTo
    BY <1>1, <1>2, <1>3, IntervalInduction
  <2> QED
    BY <1>1, <2>1
<1>5. \E g : g = [i \in 0 .. n |-> Part(g, i)]
  BY <1>4, Zenon DEF upTo
<1>6. PICK f : f = [i \in 0 .. n |-> Part(f, i)] /\ Normalize(name) = f[n]
  BY <1>5, Zenon DEF Normalize, n, first
<1>7. f[0] = first /\ \A i \in 1 .. n : f[i] = Keep(f[i - 1], name[i])
  BY <1>1, <1>6
<1> HIDE DEF Part
<1> QED
  BY <1>6, <1>7 DEF n, first

LEMMA ResolveEquation ==
  ASSUME NEW from, NEW target \in Path
  PROVE  \E f : /\ f[0] = [inside |-> TRUE, path |-> from]
                /\ \A i \in 1 .. Len(target) : f[i] = Follow(f[i - 1], target[i])
                /\ Resolve(from, target) = f[Len(target)]
<1> DEFINE n == Len(target)
           first == [inside |-> TRUE, path |-> from]
           Part(g, i) == IF i = 0 THEN first ELSE Follow(g[i - 1], target[i])
           upTo == {m \in 0 .. n : \E g : g = [i \in 0 .. m |-> Part(g, i)]}
<1>1. n \in Nat
  BY DEF Path
<1> HIDE DEF n, first
<1>2. 0 \in upTo
  <2> DEFINE g == [i \in 0 .. 0 |-> first]
  <2>1. g = [i \in 0 .. 0 |-> Part(g, i)]
    OBVIOUS
  <2> HIDE DEF g, Part
  <2>2. \E f : f = [i \in 0 .. 0 |-> Part(f, i)]
    BY <2>1, Zenon
  <2> QED
    BY <1>1, <2>2
<1>3. ASSUME NEW m \in 1 .. n, m - 1 \in upTo PROVE m \in upTo
  <2>1. PICK g : g = [i \in 0 .. m - 1 |-> Part(g, i)]
    BY <1>3
  <2> DEFINE h == [i \in 0 .. m |-> IF i = m THEN Part(g, m) ELSE g[i]]
  <2>2. ASSUME NEW i \in 0 .. m PROVE h[i] = Part(h, i)
    <3>1. i # 0 => i - 1 \in 0 .. m - 1 /\ h[i - 1] = g[i - 1]
      BY <1>1
    <3>2. i # m => i \in 0 .. m - 1 /\ h[i] = g[i] /\ g[i] = Part(g, i)
      BY <1>1, <2>1
    <3>3. Part(g, i) = Part(h, i)
      BY <3>1
    <3> QED
      BY <3>2, <3>3
  <2>3. h = [i \in 0 .. m |-> Part(h, i)]
    BY <2>2
  <2> HIDE DEF h, Part
  <2>4. \E f : f = [i \in 0 .. m |-> Part(f, i)]
    BY <2>3, Zenon
  <2> QED
    BY <1>1, <2>4
<1> HIDE DEF upTo
<1>4. n \in upTo
  <2>1. 0 .. n \subseteq upTo
    BY <1>1, <1>2, <1>3, IntervalInduction
  <2> QED
    BY <1>1, <2>1
<1>5. \E g : g = [i \in 0 .. n |-> Part(g, i)]
  BY <1>4, Zenon DEF upTo
<1>6. PICK f : f = [i \in 0 .. n |-> Part(f, i)] /\ Resolve(from, target) = f[n]
  BY <1>5, Zenon DEF Resolve, n, first
<1>7. f[0] = first /\ \A i \in 1 .. n : f[i] = Follow(f[i - 1], target[i])
  BY <1>1, <1>6
<1> HIDE DEF Part
<1> QED
  BY <1>6, <1>7 DEF n, first

LEMMA TreesEquation ==
  ASSUME NEW entries \in Seq(Entry)
  PROVE  \E f : /\ f[0] = << >>
                /\ \A i \in 1 .. Len(entries) : f[i] = Unpack(f[i - 1], entries[i])
                /\ Trees(entries) = f
<1> DEFINE n == Len(entries)
           first == << >>
           Part(g, i) == IF i = 0 THEN first ELSE Unpack(g[i - 1], entries[i])
           upTo == {m \in 0 .. n : \E g : g = [i \in 0 .. m |-> Part(g, i)]}
<1>1. n \in Nat
  BY DEF Path
<1> HIDE DEF n, first
<1>2. 0 \in upTo
  <2> DEFINE g == [i \in 0 .. 0 |-> first]
  <2>1. g = [i \in 0 .. 0 |-> Part(g, i)]
    OBVIOUS
  <2> HIDE DEF g, Part
  <2>2. \E f : f = [i \in 0 .. 0 |-> Part(f, i)]
    BY <2>1, Zenon
  <2> QED
    BY <1>1, <2>2
<1>3. ASSUME NEW m \in 1 .. n, m - 1 \in upTo PROVE m \in upTo
  <2>1. PICK g : g = [i \in 0 .. m - 1 |-> Part(g, i)]
    BY <1>3
  <2> DEFINE h == [i \in 0 .. m |-> IF i = m THEN Part(g, m) ELSE g[i]]
  <2>2. ASSUME NEW i \in 0 .. m PROVE h[i] = Part(h, i)
    <3>1. i # 0 => i - 1 \in 0 .. m - 1 /\ h[i - 1] = g[i - 1]
      BY <1>1
    <3>2. i # m => i \in 0 .. m - 1 /\ h[i] = g[i] /\ g[i] = Part(g, i)
      BY <1>1, <2>1
    <3>3. Part(g, i) = Part(h, i)
      BY <3>1
    <3> QED
      BY <3>2, <3>3
  <2>3. h = [i \in 0 .. m |-> Part(h, i)]
    BY <2>2
  <2> HIDE DEF h, Part
  <2>4. \E f : f = [i \in 0 .. m |-> Part(f, i)]
    BY <2>3, Zenon
  <2> QED
    BY <1>1, <2>4
<1> HIDE DEF upTo
<1>4. n \in upTo
  <2>1. 0 .. n \subseteq upTo
    BY <1>1, <1>2, <1>3, IntervalInduction
  <2> QED
    BY <1>1, <2>1
<1>5. \E g : g = [i \in 0 .. n |-> Part(g, i)]
  BY <1>4, Zenon DEF upTo
<1>6. PICK f : f = [i \in 0 .. n |-> Part(f, i)] /\ Trees(entries) = f
  BY <1>5, Zenon DEF Trees, n, first
<1>7. f[0] = first /\ \A i \in 1 .. n : f[i] = Unpack(f[i - 1], entries[i])
  BY <1>1, <1>6
<1> HIDE DEF Part
<1> QED
  BY <1>6, <1>7 DEF n, first

(* A normalized name is a name.                                              *)
LEMMA NormalizeIsPath ==
  ASSUME NEW name \in Path
  PROVE  Normalize(name) \in Path
<1>1. PICK f : /\ f[0] = << >>
               /\ \A i \in 1 .. Len(name) : f[i] = Keep(f[i - 1], name[i])
               /\ Normalize(name) = f[Len(name)]
  BY NormalizeEquation
<1> DEFINE paths == {i \in 0 .. Len(name) : f[i] \in Path}
<1>2. Len(name) \in Nat /\ \A i \in 1 .. Len(name) : name[i] \in Parts
  BY DEF Path
<1>3. 0 \in paths
  <2>1. << >> \in Path
    BY DEF Path
  <2> QED
    BY <1>1, <1>2, <2>1
<1>4. ASSUME NEW i \in 1 .. Len(name), i - 1 \in paths PROVE i \in paths
  <2>1. f[i - 1] \in Path /\ name[i] \in Parts
    BY <1>2, <1>4
  <2>2. Keep(f[i - 1], name[i]) \in Path
    BY <2>1 DEF Keep, Path
  <2> QED
    BY <1>1, <1>2, <2>2
<1> HIDE DEF paths
<1>5. 0 .. Len(name) \subseteq paths
  BY <1>2, <1>3, <1>4, IntervalInduction
<1> USE DEF paths
<1> QED
  BY <1>1, <1>2, <1>5

---------------------------------------------------------------------------
(* A target's parts are counted one by one.                                  *)
LEMMA OneMore ==
  ASSUME NEW k \in Nat \ {0}, NEW all, NEW some, all = some \/ all = some \cup {k},
         some \subseteq 1 .. k - 1
  PROVE  /\ Cardinality(some) \in Nat
         /\ all = some => Cardinality(all) = Cardinality(some)
         /\ k \in all => Cardinality(all) = Cardinality(some) + 1
<1>1. 1 \in Int /\ k - 1 \in Int
  OBVIOUS
<1>2. IsFiniteSet(1 .. k - 1)
  BY <1>1, FS_Interval
<1>3. IsFiniteSet(some) /\ Cardinality(some) \in Nat
  BY <1>2, FS_Subset, FS_CardinalityType
<1>4. k \notin some
  OBVIOUS
<1> QED
  BY <1>3, <1>4, FS_AddElement

LEMMA CountedParts ==
  ASSUME NEW target, NEW k \in Nat \ {0}
  PROVE  /\ Ups(target, k - 1) \in Nat /\ Downs(target, k - 1) \in Nat
         /\ Ups(target, k) = Ups(target, k - 1) + (IF target[k] = ".." THEN 1 ELSE 0)
         /\ Downs(target, k) = Downs(target, k - 1)
              + (IF target[k] \in {"/", ".", ".."} THEN 0 ELSE 1)
<1> DEFINE up(n) == {j \in 1 .. n : target[j] = ".."}
           down(n) == {j \in 1 .. n : target[j] \notin {"/", ".", ".."}}
<1>1. up(k - 1) \subseteq 1 .. k - 1 /\ down(k - 1) \subseteq 1 .. k - 1
  OBVIOUS
<1>2. /\ target[k] = ".." => up(k) = up(k - 1) \cup {k} /\ k \in up(k)
      /\ target[k] # ".." => up(k) = up(k - 1)
  OBVIOUS
<1>3. /\ target[k] \notin {"/", ".", ".."} => down(k) = down(k - 1) \cup {k} /\ k \in down(k)
      /\ target[k] \in {"/", ".", ".."} => down(k) = down(k - 1)
  OBVIOUS
<1> HIDE DEF up, down
<1>4. /\ Cardinality(up(k - 1)) \in Nat
      /\ Cardinality(up(k)) = Cardinality(up(k - 1))
           + (IF target[k] = ".." THEN 1 ELSE 0)
  BY <1>1, <1>2, OneMore
<1>5. /\ Cardinality(down(k - 1)) \in Nat
      /\ Cardinality(down(k)) = Cardinality(down(k - 1))
           + (IF target[k] \in {"/", ".", ".."} THEN 0 ELSE 1)
  BY <1>1, <1>3, OneMore
<1>6. \A n : Ups(target, n) = Cardinality(up(n)) /\ Downs(target, n) = Cardinality(down(n))
  BY DEF Ups, Downs, up, down
<1> QED
  BY <1>4, <1>5, <1>6

LEMMA NoneYet ==
  ASSUME NEW target
  PROVE  Ups(target, 0) = 0 /\ Downs(target, 0) = 0
<1>1. 1 .. 0 = {}
  OBVIOUS
<1> QED
  BY <1>1, FS_EmptySet DEF Ups, Downs

(* One part of a target.                                                     *)
Reached == [inside : BOOLEAN, path : Path]

LEMMA FollowOne ==
  ASSUME NEW link \in Reached, NEW part \in Parts
  PROVE  /\ Follow(link, part) \in Reached
         /\ ~link.inside => ~Follow(link, part).inside
         /\ link.inside =>
              LET n == Len(link.path)
                  next == Follow(link, part)
              IN /\ part \in {"/", "."} => next.inside /\ Len(next.path) = n
                 /\ part \notin {"/", ".", ".."} => next.inside /\ Len(next.path) = n + 1
                 /\ part = ".." => /\ next.inside <=> n > 0
                                   /\ next.inside => Len(next.path) = n - 1
<1>1. link.path \in Path /\ link.inside \in BOOLEAN /\ Len(link.path) \in Nat
  BY DEF Reached, Path
<1>2. CASE ~link.inside \/ part \in {"/", "."}
  BY <1>1, <1>2 DEF Follow
<1>3. CASE link.inside /\ part \notin {"/", ".", ".."}
  <2>1. /\ Append(link.path, part) \in Path
        /\ Len(Append(link.path, part)) = Len(link.path) + 1
    BY <1>1 DEF Path
  <2>2. Follow(link, part) = [link EXCEPT !.path = Append(link.path, part)]
    BY <1>3 DEF Follow
  <2> QED
    BY <1>1, <1>3, <2>1, <2>2 DEF Reached
<1>4. CASE link.inside /\ part = ".." /\ link.path = << >>
  <2>1. Follow(link, part) = [link EXCEPT !.inside = FALSE]
    BY <1>4 DEF Follow
  <2>2. Follow(link, part) \in Reached /\ ~Follow(link, part).inside
    BY <2>1 DEF Reached
  <2>3. Len(link.path) = 0
    BY <1>4
  <2> QED
    BY <1>4, <2>2, <2>3
<1>5. CASE link.inside /\ part = ".." /\ link.path # << >>
  <2>1. /\ Front(link.path) \in Path /\ Len(link.path) > 0
        /\ Len(Front(link.path)) = Len(link.path) - 1
    BY <1>1, <1>5 DEF Path, Front
  <2>2. Follow(link, part) = [link EXCEPT !.path = Front(link.path)]
    BY <1>5 DEF Follow
  <2> QED
    BY <1>1, <1>5, <2>1, <2>2 DEF Reached
<1> QED
  BY <1>2, <1>3, <1>4, <1>5

(* A target is followed to a place inside exactly when it never goes further *)
(* up than it has come down.                                                 *)
LEMMA ResolvedInside ==
  ASSUME NEW from \in Path, NEW target \in Path
  PROVE  Resolve(from, target).inside <=>
           \A k \in DOMAIN target : Ups(target, k) <= Downs(target, k) + Len(from)
<1>1. PICK f : /\ f[0] = [inside |-> TRUE, path |-> from]
               /\ \A i \in 1 .. Len(target) : f[i] = Follow(f[i - 1], target[i])
               /\ Resolve(from, target) = f[Len(target)]
  BY ResolveEquation
<1> DEFINE Within(k) == \A j \in 1 .. k : Ups(target, j) <= Downs(target, j) + Len(from)
           Right(k) == /\ f[k] \in Reached
                       /\ f[k].inside <=> Within(k)
                       /\ f[k].inside => Len(f[k].path)
                            = Len(from) + Downs(target, k) - Ups(target, k)
           right == {k \in 0 .. Len(target) : Right(k)}
<1>2. /\ Len(target) \in Nat /\ Len(from) \in Nat
      /\ DOMAIN target = 1 .. Len(target)
      /\ \A i \in 1 .. Len(target) : target[i] \in Parts
  BY DEF Path
<1>3. 0 \in right
  <2>1. f[0] \in Reached /\ f[0].inside /\ f[0].path = from
    BY <1>1 DEF Reached
  <2>2. Within(0)
    OBVIOUS
  <2>3. Right(0)
    BY <1>2, <2>1, <2>2, NoneYet
  <2> HIDE DEF Right
  <2> QED
    BY <1>2, <2>3
<1>4. ASSUME NEW k \in 1 .. Len(target), k - 1 \in right PROVE k \in right
  <2>1. Right(k - 1)
    BY <1>4
  <2> DEFINE u == Ups(target, k - 1)
             d == Downs(target, k - 1)
             more == Follow(f[k - 1], target[k])
  <2>2. /\ u \in Nat /\ d \in Nat
        /\ Ups(target, k) = u + (IF target[k] = ".." THEN 1 ELSE 0)
        /\ Downs(target, k) = d + (IF target[k] \in {"/", ".", ".."} THEN 0 ELSE 1)
    BY <1>2, CountedParts
  <2>3. f[k] = more
    BY <1>1
  <2>4. f[k - 1] \in Reached /\ f[k - 1].path \in Path /\ Len(f[k - 1].path) \in Nat
    BY <2>1 DEF Reached, Path
  <2>5. Within(k) <=> Within(k - 1) /\ Ups(target, k) <= Downs(target, k) + Len(from)
    BY <1>2
  <2>6. /\ more \in Reached
        /\ ~f[k - 1].inside => ~more.inside
        /\ f[k - 1].inside =>
             LET n == Len(f[k - 1].path) IN
               /\ target[k] \in {"/", "."} => more.inside /\ Len(more.path) = n
               /\ target[k] \notin {"/", ".", ".."} => more.inside /\ Len(more.path) = n + 1
               /\ target[k] = ".." => /\ more.inside <=> n > 0
                                      /\ more.inside => Len(more.path) = n - 1
    BY <1>2, <2>4, FollowOne
  <2> HIDE DEF Within, u, d, more
  <2>7. Right(k)
    <3>1. CASE ~f[k - 1].inside
      BY <2>1, <2>3, <2>5, <2>6, <3>1
    <3>2. CASE f[k - 1].inside
      <4> DEFINE n == Len(f[k - 1].path)
      <4>1. n = Len(from) + d - u /\ Within(k - 1)
        BY <2>1, <3>2 DEF u, d
      <4>2. n \in Nat /\ u <= d + Len(from)
        BY <1>2, <2>2, <2>4, <4>1
      <4>3. CASE target[k] \in {"/", "."}
        <5>1. Ups(target, k) = u /\ Downs(target, k) = d
          BY <2>2, <4>3
        <5>2. more.inside /\ Len(more.path) = n
          BY <2>6, <3>2, <4>3
        <5> QED
          BY <2>3, <2>5, <2>6, <4>1, <4>2, <5>1, <5>2
      <4>4. CASE target[k] = ".."
        <5>1. Ups(target, k) = u + 1 /\ Downs(target, k) = d
          BY <2>2, <4>4
        <5>2. (more.inside <=> n > 0) /\ (more.inside => Len(more.path) = n - 1)
          BY <2>6, <3>2, <4>4
        <5>3. n > 0 <=> u + 1 <= d + Len(from)
          BY <1>2, <2>2, <4>1, <4>2
        <5>4. n - 1 = Len(from) + d - (u + 1)
          BY <1>2, <2>2, <4>1, <4>2
        <5> HIDE DEF n
        <5> QED
          BY <2>3, <2>5, <2>6, <4>1, <5>1, <5>2, <5>3, <5>4
      <4>5. CASE target[k] \notin {"/", ".", ".."}
        <5>1. Ups(target, k) = u /\ Downs(target, k) = d + 1
          BY <2>2, <4>5
        <5>2. more.inside /\ Len(more.path) = n + 1
          BY <2>6, <3>2, <4>5
        <5>3. u <= (d + 1) + Len(from) /\ n + 1 = Len(from) + (d + 1) - u
          BY <1>2, <2>2, <4>1, <4>2
        <5> HIDE DEF n
        <5> QED
          BY <2>3, <2>5, <2>6, <4>1, <5>1, <5>2, <5>3
      <4> QED
        BY <4>3, <4>4, <4>5
    <3> QED
      BY <3>1, <3>2
  <2> HIDE DEF Right
  <2> QED
    BY <1>2, <2>7
<1> HIDE DEF right
<1>5. 0 .. Len(target) \subseteq right
  BY <1>2, <1>3, <1>4, IntervalInduction
<1> HIDE DEF Right
<1>6. Right(Len(target))
  BY <1>2, <1>5 DEF right
<1> QED
  BY <1>1, <1>2, <1>6 DEF Right

LEMMA DirectoryIsPath ==
  ASSUME NEW path \in Path, NEW target
  PROVE  Directory(path) \in Path /\ Base(Directory(path), target) \in Path
<1>1. << >> \in Path
  BY DEF Path
<1>2. path # << >> => Front(path) \in Path
  BY DEF Path, Front
<1> QED
  BY <1>1, <1>2 DEF Directory, Base

(* The scan of a link's target decides whether the link stays inside.        *)
LEMMA ScanIsExact ==
  ASSUME NEW e \in Entry, e.target # << >>
  PROVE  LinkIsUnsafe(Normalize(e.name), e.target) <=> ~StaysInside(e)
<1>1. e.name \in Path /\ e.target \in Path
  BY DEF Entry
<1> DEFINE from == Base(Directory(Normalize(e.name)), e.target)
<1>2. from \in Path
  BY <1>1, NormalizeIsPath, DirectoryIsPath
<1> HIDE DEF from
<1>3. Resolve(from, e.target).inside <=>
        \A k \in DOMAIN e.target : Ups(e.target, k) <= Downs(e.target, k) + Len(from)
  BY <1>1, <1>2, ResolvedInside
<1> QED
  BY <1>3 DEF LinkIsUnsafe, StaysInside, from

---------------------------------------------------------------------------
(* The directories on the way to a name.                                     *)
LEMMA OnTheWay ==
  ASSUME NEW path \in Path, NEW m \in 1 .. Len(path) - 1
  PROVE  /\ IsStrictPrefix(SubSeq(path, 1, m), path)
         /\ SubSeq(path, 1, m) # << >>
         /\ Append(SubSeq(path, 1, m - 1), path[m]) = SubSeq(path, 1, m)
<1> DEFINE part == SubSeq(path, 1, m)
<1>1. path \in Seq(Parts) /\ Len(path) \in Nat
  BY DEF Path
<1>2. /\ part \in Seq(Parts) /\ Len(part) = m
      /\ \A i \in 1 .. m : part[i] = path[i]
  BY <1>1
<1>3. SubSeq(part, 1, m) = SubSeq(path, 1, m)
  BY <1>1, <1>2
<1>4. part # path /\ part # << >>
  BY <1>1, <1>2
<1>5. IsStrictPrefix(part, path)
  BY <1>1, <1>2, <1>3, <1>4 DEF IsStrictPrefix, IsPrefix
<1>6. Append(SubSeq(path, 1, m - 1), path[m]) = part
  BY <1>1
<1> QED
  BY <1>4, <1>5, <1>6

(* Where no link is on the way an entry gets to its own name.                *)
LEMMA WalkedStraight ==
  ASSUME NEW tree, NEW path \in Path, path # << >>,
         \A m \in 1 .. Len(path) - 1 :
           SubSeq(path, 1, m) \in DOMAIN tree => tree[SubSeq(path, 1, m)].kind # "l"
  PROVE  Append(RealDirectory(tree, path), Last(path)) = path
<1> DEFINE n == Len(path) - 1
           Part(g, i) == IF i = 0 THEN << >> ELSE Enter(tree, g[i - 1], path[i])
           own == [i \in 0 .. n |-> SubSeq(path, 1, i)]
<1>1. n \in Nat /\ path \in Seq(Parts) /\ Len(path) \in Nat
  BY DEF Path
<1>2. SubSeq(path, 1, 0) = << >>
  BY <1>1
<1>3. \A i \in 1 .. n : Enter(tree, SubSeq(path, 1, i - 1), path[i]) = SubSeq(path, 1, i)
  <2> TAKE i \in 1 .. n
  <2> DEFINE here == SubSeq(path, 1, i)
  <2>1. /\ Append(SubSeq(path, 1, i - 1), path[i]) = here
        /\ here \in DOMAIN tree => tree[here].kind # "l"
    BY OnTheWay
  <2> HIDE DEF here
  <2>2. Enter(tree, SubSeq(path, 1, i - 1), path[i]) = here
    BY <2>1 DEF Enter
  <2> QED
    BY <2>2 DEF here
<1>4. own = [i \in 0 .. n |-> Part(own, i)]
  <2>1. ASSUME NEW i \in 0 .. n PROVE own[i] = Part(own, i)
    <3>1. i # 0 => i \in 1 .. n /\ i - 1 \in 0 .. n
      BY <1>1
    <3> HIDE DEF n
    <3> QED
      BY <1>2, <1>3, <3>1
  <2> QED
    BY <2>1
<1> HIDE DEF own, n
<1>5. \E g : g = [i \in 0 .. n |-> Part(g, i)]
  BY <1>4, Zenon
<1>6. PICK f : f = [i \in 0 .. n |-> Part(f, i)] /\ RealDirectory(tree, path) = f[n]
  BY <1>5, Zenon DEF RealDirectory, n
<1>7. f[0] = << >> /\ \A i \in 1 .. n : f[i] = Enter(tree, f[i - 1], path[i])
  BY <1>1, <1>6
<1> HIDE DEF Part
<1> DEFINE straight == {i \in 0 .. n : f[i] = SubSeq(path, 1, i)}
<1>8. 0 \in straight
  <2>1. f[0] = SubSeq(path, 1, 0)
    BY <1>2, <1>7
  <2> QED
    BY <1>1, <2>1
<1>9. ASSUME NEW i \in 1 .. n, i - 1 \in straight PROVE i \in straight
  <2>1. f[i] = SubSeq(path, 1, i)
    BY <1>3, <1>7, <1>9
  <2> QED
    BY <1>1, <2>1
<1> HIDE DEF straight
<1>10. 0 .. n \subseteq straight
  BY <1>1, <1>8, <1>9, IntervalInduction
<1>11. RealDirectory(tree, path) = SubSeq(path, 1, n)
  BY <1>1, <1>6, <1>10 DEF straight
<1>12. Append(SubSeq(path, 1, n), Last(path)) = path
  BY <1>1 DEF n, Last
<1> QED
  BY <1>11, <1>12

---------------------------------------------------------------------------
(* Where the k-th entry is put.                                              *)
Place(entries, k) == Spot(Trees(entries)[k - 1], entries[k])

LEMMA TreeGrows ==
  ASSUME NEW entries \in Seq(Entry)
  PROVE  LET T == Trees(entries) IN
           /\ \A k \in 0 .. Len(entries) :
                DOMAIN T[k] = {Place(entries, i) : i \in 1 .. k}
           /\ \A k \in 1 .. Len(entries) :
                /\ T[k][Place(entries, k)] = entries[k]
                /\ \A p \in DOMAIN T[k - 1] :
                     p # Place(entries, k) => T[k][p] = T[k - 1][p]
<1> DEFINE T == Trees(entries)
           n == Len(entries)
           P(k) == Place(entries, k)
<1>1. n \in Nat
  OBVIOUS
<1>2. T[0] = << >> /\ \A k \in 1 .. n : T[k] = Unpack(T[k - 1], entries[k])
  BY TreesEquation
<1> HIDE DEF T, n
<1>3. \A k \in 1 .. n : T[k] = [p \in DOMAIN T[k - 1] \cup {P(k)} |->
                                 IF p = P(k) THEN entries[k] ELSE T[k - 1][p]]
  BY <1>2 DEF Unpack, Place, T
<1> HIDE DEF P
<1> DEFINE grown == {k \in 0 .. n : DOMAIN T[k] = {P(i) : i \in 1 .. k}}
<1>4. 0 \in grown
  <2>1. DOMAIN T[0] = {} /\ 1 .. 0 = {}
    BY <1>2
  <2> QED
    BY <1>1, <2>1
<1>5. ASSUME NEW k \in 1 .. n, k - 1 \in grown PROVE k \in grown
  <2>1. DOMAIN T[k] = {P(i) : i \in 1 .. k - 1} \cup {P(k)}
    BY <1>3, <1>5
  <2>2. 1 .. k = (1 .. k - 1) \cup {k}
    BY <1>1
  <2> QED
    BY <1>1, <2>1, <2>2
<1> HIDE DEF grown
<1>6. 0 .. n \subseteq grown
  BY <1>1, <1>4, <1>5, IntervalInduction
<1>7. \A k \in 0 .. n : DOMAIN T[k] = {P(i) : i \in 1 .. k}
  BY <1>6 DEF grown
<1>8. \A k \in 1 .. n : /\ T[k][P(k)] = entries[k]
                        /\ \A p \in DOMAIN T[k - 1] : p # P(k) => T[k][p] = T[k - 1][p]
  BY <1>3
<1> QED
  BY <1>7, <1>8 DEF T, n, P

(* What is put in a place stays there as long as no other entry gets it.     *)
LEMMA TreeKeeps ==
  ASSUME NEW entries \in Seq(Entry), NEW m \in 0 .. Len(entries),
         \A i, j \in 1 .. m : Place(entries, i) = Place(entries, j) => i = j,
         NEW i \in 1 .. m
  PROVE  /\ Place(entries, i) \in DOMAIN Trees(entries)[m]
         /\ Trees(entries)[m][Place(entries, i)] = entries[i]
<1> DEFINE T == Trees(entries)
           P(k) == Place(entries, k)
           kept == {k \in 0 .. m : \A j \in 1 .. k : T[k][P(j)] = entries[j]}
<1>1. Len(entries) \in Nat /\ m \in Nat
  OBVIOUS
<1>2. /\ \A k \in 0 .. m : DOMAIN T[k] = {P(j) : j \in 1 .. k}
      /\ \A k \in 1 .. m : /\ T[k][P(k)] = entries[k]
                            /\ \A p \in DOMAIN T[k - 1] : p # P(k) => T[k][p] = T[k - 1][p]
  BY <1>1, TreeGrows
<1>3. \A j, k \in 1 .. m : P(j) = P(k) => j = k
  OBVIOUS
<1> HIDE DEF T, P
<1>4. 0 \in kept
  BY <1>1
<1>5. ASSUME NEW k \in 1 .. m, k - 1 \in kept PROVE k \in kept
  <2>1. ASSUME NEW j \in 1 .. k PROVE T[k][P(j)] = entries[j]
    <3>1. CASE j = k
      BY <1>2, <3>1
    <3>2. CASE j # k
      <4>1. j \in 1 .. k - 1 /\ k - 1 \in 0 .. m /\ j \in 1 .. m
        BY <1>1, <3>2
      <4>2. P(j) # P(k) /\ P(j) \in DOMAIN T[k - 1]
        BY <1>2, <1>3, <3>2, <4>1
      <4> QED
        BY <1>2, <1>5, <4>1, <4>2
    <3> QED
      BY <3>1, <3>2
  <2> QED
    BY <1>1, <2>1
<1> HIDE DEF kept
<1>6. 0 .. m \subseteq kept
  BY <1>1, <1>4, <1>5, IntervalInduction
<1>7. m \in kept
  BY <1>1, <1>6
<1> QED
  BY <1>1, <1>2, <1>7 DEF kept, T, P

Own(entries, k) == Normalize(entries[k].name)

(* An entry is put under its own name unless one of the entries before it is *)
(* a link on the way there.                                                  *)
LEMMA PlacedUnderItsName ==
  ASSUME NEW entries \in Seq(Entry), NEW k \in 1 .. Len(entries),
         \A i, j \in 1 .. k - 1 : Place(entries, i) = Place(entries, j) => i = j,
         \A i \in 1 .. k - 1 :
           /\ entries[i].kind = "l" /\ Place(entries, i) # << >>
           => ~IsStrictPrefix(Place(entries, i), Own(entries, k))
  PROVE  Place(entries, k) = Own(entries, k)
<1> DEFINE path == Own(entries, k)
           tree == Trees(entries)[k - 1]
           P(i) == Place(entries, i)
<1>1. /\ Len(entries) \in Nat /\ k - 1 \in 0 .. Len(entries)
      /\ entries[k] \in Entry
  OBVIOUS
<1>2. path \in Path
  BY <1>1, NormalizeIsPath DEF Entry, Own
<1>3. DOMAIN tree = {P(i) : i \in 1 .. k - 1}
  BY <1>1, TreeGrows
<1>4. \A i \in 1 .. k - 1 : tree[P(i)] = entries[i]
  BY <1>1, TreeKeeps
<1>5. CASE path = << >>
  BY <1>5 DEF Place, Spot, Own
<1>6. CASE path # << >>
  <2>1. ASSUME NEW m \in 1 .. Len(path) - 1, SubSeq(path, 1, m) \in DOMAIN tree
        PROVE  tree[SubSeq(path, 1, m)].kind # "l"
    <3> DEFINE here == SubSeq(path, 1, m)
    <3>1. here # << >> /\ IsStrictPrefix(here, path)
      BY <1>2, OnTheWay
    <3> HIDE DEF here, path, tree, P
    <3>2. PICK i \in 1 .. k - 1 : here = P(i)
      BY <1>3, <2>1 DEF here
    <3>3. entries[i].kind # "l"
      BY <3>1, <3>2 DEF P, path
    <3>4. tree[here] = entries[i]
      BY <1>4, <3>2
    <3> QED
      BY <3>3, <3>4 DEF here
  <2> HIDE DEF path, tree
  <2>2. Append(RealDirectory(tree, path), Last(path)) = path
    BY <1>2, <1>6, <2>1, WalkedStraight
  <2>3. Place(entries, k) = Append(RealDirectory(tree, path), Last(path))
    BY <1>6 DEF Place, Spot, Own, path, tree
  <2> QED
    BY <2>2, <2>3 DEF path
<1> QED
  BY <1>5, <1>6

(* What the checks of the names rule out.                                    *)
LEMMA AllowedNames ==
  ASSUME NEW entries \in Seq(Entry), ~PathsAreForbidden(Names(entries), entries)
  PROVE  \A i, j \in 1 .. Len(entries) :
           /\ Own(entries, i) = Own(entries, j) => i = j
           /\ entries[i].kind = "l" /\ Own(entries, i) # << >>
              => ~IsStrictPrefix(Own(entries, i), Own(entries, j))
           /\ ~EntryIsForbidden(entries[i].name, entries[i])
<1> DEFINE names == Names(entries)
<1>1. DOMAIN names = 1 .. Len(entries) /\ \A i \in 1 .. Len(entries) : names[i] = entries[i].name
  BY DEF Names
<1>2. Len(entries) \in Nat
  OBVIOUS
<1> HIDE DEF names
<1>3. \A i \in 1 .. Len(entries) :
        /\ ~IsDuplicate(names, i)
        /\ ~EntryIsForbidden(names[i], entries[i])
        /\ ~BeneathLink(names, entries, i)
  BY <1>1 DEF PathsAreForbidden, names
<1> TAKE i, j \in 1 .. Len(entries)
<1>4. ASSUME NEW h \in 1 .. Len(entries), NEW k \in 1 .. Len(entries), h < k
      PROVE  Own(entries, h) # Own(entries, k)
  <2>1. h \in 1 .. k - 1
    BY <1>4
  <2> QED
    BY <1>1, <1>3, <2>1 DEF IsDuplicate, Own
<1>5. Own(entries, i) = Own(entries, j) => i = j
  <2>1. i < j \/ j < i \/ i = j
    BY <1>2
  <2> QED
    BY <1>4, <2>1
<1>6. entries[i].kind = "l" /\ Own(entries, i) # << >>
        => ~IsStrictPrefix(Own(entries, i), Own(entries, j))
  BY <1>1, <1>3 DEF BeneathLink, Own
<1> QED
  BY <1>1, <1>3, <1>5, <1>6

(* Names that pass the checks are where the entries are put.                 *)
LEMMA AllowedIsPlaced ==
  ASSUME NEW entries \in Seq(Entry), ~PathsAreForbidden(Names(entries), entries)
  PROVE  /\ DOMAIN Unpacked(entries) = {Own(entries, i) : i \in 1 .. Len(entries)}
         /\ \A i \in 1 .. Len(entries) : Unpacked(entries)[Own(entries, i)] = entries[i]
<1> DEFINE n == Len(entries)
           P(i) == Place(entries, i)
           N(i) == Own(entries, i)
           placed == {k \in 0 .. n : \A i \in 1 .. k : P(i) = N(i)}
<1>1. n \in Nat
  OBVIOUS
<1>2. \A i, j \in 1 .. n :
        /\ N(i) = N(j) => i = j
        /\ entries[i].kind = "l" /\ N(i) # << >> => ~IsStrictPrefix(N(i), N(j))
  BY AllowedNames
<1>3. 0 \in placed
  BY <1>1
<1>4. ASSUME NEW k \in 1 .. n, k - 1 \in placed PROVE k \in placed
  <2>1. \A i \in 1 .. k - 1 : i \in 1 .. n /\ P(i) = N(i)
    BY <1>1, <1>4
  <2> HIDE DEF placed, P, N, n
  <2>2. \A i, j \in 1 .. k - 1 : P(i) = P(j) => i = j
    BY <1>2, <2>1
  <2>3. \A i \in 1 .. k - 1 : entries[i].kind = "l" /\ P(i) # << >>
                               => ~IsStrictPrefix(P(i), N(k))
    BY <1>2, <2>1
  <2>4. P(k) = N(k)
    BY <2>2, <2>3, PlacedUnderItsName DEF P, N, n
  <2>5. \A i \in 1 .. k : i = k \/ i \in 1 .. k - 1
    BY <1>1
  <2> QED
    BY <1>1, <2>1, <2>4, <2>5 DEF placed
<1> HIDE DEF placed
<1>5. 0 .. n \subseteq placed
  BY <1>1, <1>3, <1>4, IntervalInduction
<1>6. \A i \in 1 .. n : P(i) = N(i)
  BY <1>1, <1>5 DEF placed
<1>7. DOMAIN Unpacked(entries) = {P(i) : i \in 1 .. n}
  BY <1>1, TreeGrows DEF Unpacked
<1>8. \A i \in 1 .. n : Unpacked(entries)[P(i)] = entries[i]
  <2>1. \A i, j \in 1 .. n : P(i) = P(j) => i = j
    BY <1>2, <1>6
  <2> QED
    BY <1>1, <2>1, TreeKeeps DEF Unpacked
<1> HIDE DEF P, N
<1> QED
  BY <1>6, <1>7, <1>8 DEF N

---------------------------------------------------------------------------
LEMMA Shorter ==
  ASSUME NEW path \in Path, NEW k \in DOMAIN path
  PROVE  IsStrictPrefix(SubSeq(path, 1, k - 1), path)
<1> DEFINE part == SubSeq(path, 1, k - 1)
<1>1. path \in Seq(Parts) /\ Len(path) \in Nat /\ k \in 1 .. Len(path)
  BY DEF Path
<1>2. /\ part \in Seq(Parts) /\ Len(part) = k - 1
      /\ \A i \in 1 .. k - 1 : part[i] = path[i]
  BY <1>1
<1>3. SubSeq(part, 1, k - 1) = SubSeq(path, 1, k - 1)
  BY <1>1, <1>2
<1>4. part # path
  BY <1>1, <1>2
<1> QED
  BY <1>1, <1>2, <1>3, <1>4 DEF IsStrictPrefix, IsPrefix

(* What the checks of the entries and of the control texts leave in a tree.  *)
LEMMA AllowedIsHarmless ==
  ASSUME NEW entries \in Seq(Entry), ~PathsAreForbidden(Names(entries), entries),
         \A i \in 1 .. Len(entries) : IsControl(entries[i].name) => entries[i].good
  PROVE  LET tree == Unpacked(entries) IN \A path \in DOMAIN tree :
           LET e == tree[path] IN
             /\ e.kind = "l" => StaysInside(e)
             /\ e.kind = "-" => e.bits \cap Privileges \subseteq
                  (IF path \in DOMAIN Installed THEN Installed[path] ELSE {})
             /\ \/ e.kind # "-" \/ e.good
                \/ /\ path \notin ControlFiles
                   /\ \A k \in DOMAIN path : SubSeq(path, 1, k - 1) \notin ControlDirs
<1> DEFINE tree == Unpacked(entries)
<1> SUFFICES ASSUME NEW path \in DOMAIN tree
             PROVE  LET e == tree[path] IN
               /\ e.kind = "l" => StaysInside(e)
               /\ e.kind = "-" => e.bits \cap Privileges \subseteq
                    (IF path \in DOMAIN Installed THEN Installed[path] ELSE {})
               /\ \/ e.kind # "-" \/ e.good
                  \/ /\ path \notin ControlFiles
                     /\ \A k \in DOMAIN path : SubSeq(path, 1, k - 1) \notin ControlDirs
  OBVIOUS
<1> DEFINE e == tree[path]
<1>1. PICK i \in 1 .. Len(entries) : path = Own(entries, i) /\ e = entries[i]
  <2>1. /\ DOMAIN tree = {Own(entries, i) : i \in 1 .. Len(entries)}
        /\ \A i \in 1 .. Len(entries) : tree[Own(entries, i)] = entries[i]
    BY AllowedIsPlaced
  <2> HIDE DEF tree
  <2> QED
    BY <2>1
<1>2. e \in Entry /\ path = Normalize(e.name)
  BY <1>1 DEF Own
<1>3. path \in Path /\ ~EntryIsForbidden(e.name, e)
  BY <1>1, <1>2, AllowedNames, NormalizeIsPath DEF Entry
<1>4. IsControl(e.name) => e.good
  BY <1>1
<1> HIDE DEF e, tree
<1>5. e.kind = "l" => StaysInside(e)
  <2> SUFFICES ASSUME e.kind = "l" PROVE StaysInside(e)
    OBVIOUS
  <2>1. ~LinkIsUnsafe(Normalize(e.name), e.target)
    BY <1>3 DEF EntryIsForbidden
  <2>2. e.target # << >>
    BY <2>1 DEF LinkIsUnsafe
  <2> QED
    BY <1>2, <2>1, <2>2, ScanIsExact
<1>6. e.kind = "-" => e.bits \cap Privileges \subseteq
        (IF path \in DOMAIN Installed THEN Installed[path] ELSE {})
  <2> SUFFICES ASSUME e.kind = "-"
               PROVE  \/ e.bits \cap Privileges = {}
                      \/ /\ path \in DOMAIN Installed
                         /\ e.bits \cap Privileges \subseteq Installed[path]
    OBVIOUS
  <2>1. ~ModeIsForbidden(path, e)
    BY <1>2, <1>3 DEF EntryIsForbidden
  <2> QED
    BY <2>1 DEF ModeIsForbidden, PreExisting
<1>7. \/ e.good
      \/ /\ path \notin ControlFiles
         /\ \A k \in DOMAIN path : SubSeq(path, 1, k - 1) \notin ControlDirs
  <2> SUFFICES ASSUME ~IsControl(e.name)
               PROVE  /\ path \notin ControlFiles
                      /\ \A k \in DOMAIN path : SubSeq(path, 1, k - 1) \notin ControlDirs
    BY <1>4
  <2>1. path \notin ControlFiles /\ \A dir \in ControlDirs : ~IsStrictPrefix(dir, path)
    BY <1>2 DEF IsControl
  <2>2. \A k \in DOMAIN path : IsStrictPrefix(SubSeq(path, 1, k - 1), path)
    BY <1>3, Shorter
  <2> QED
    BY <2>1, <2>2
<1> QED
  BY <1>5, <1>6, <1>7 DEF e

(* Each entry of an ordinary package is put under its own name.              *)
LEMMA OrdinaryIsPlaced ==
  ASSUME NEW entries \in Seq(Entry), Ordinary(entries)
  PROVE  \A i \in 1 .. Len(entries) :
           /\ Own(entries, i) \in DOMAIN Unpacked(entries)
           /\ Unpacked(entries)[Own(entries, i)] = entries[i]
<1> DEFINE n == Len(entries)
           tree == Unpacked(entries)
           P(i) == Place(entries, i)
           N(i) == Own(entries, i)
<1>1. n \in Nat
  OBVIOUS
<1>2. DOMAIN tree = {P(i) : i \in 1 .. n}
  BY <1>1, TreeGrows DEF Unpacked
<1>3. /\ DOMAIN tree = {N(i) : i \in 1 .. n} /\ Cardinality(DOMAIN tree) = n
      /\ \A p, q \in DOMAIN tree : IsStrictPrefix(p, q) => tree[p].kind = "d"
  BY DEF Ordinary, Own
<1>4. \A i, j \in 1 .. n : P(i) = P(j) => i = j
  <2> DEFINE f == [i \in 1 .. n |-> P(i)]
  <2> HIDE DEF P, tree, n
  <2>1. f \in Surjection(1 .. n, DOMAIN tree)
    BY <1>2 DEF Surjection
  <2>2. IsFiniteSet(1 .. n) /\ Cardinality(1 .. n) = n
    BY <1>1, FS_Interval
  <2>3. f \in Injection(1 .. n, DOMAIN tree)
    BY <1>3, <2>1, <2>2, FS_SurjSameCardinalityImpliesInj
  <2> QED
    BY <2>3 DEF Injection, IsInjective
<1>5. \A i \in 1 .. n : P(i) \in DOMAIN tree /\ tree[P(i)] = entries[i]
  BY <1>1, <1>4, TreeKeeps DEF Unpacked
<1>6. ASSUME NEW k \in 1 .. n PROVE P(k) = N(k)
  <2> HIDE DEF tree, P, N
  <2>1. \A i, j \in 1 .. k - 1 : P(i) = P(j) => i = j
    BY <1>1, <1>4
  <2>2. \A i \in 1 .. k - 1 : entries[i].kind = "l" /\ P(i) # << >>
                               => ~IsStrictPrefix(P(i), N(k))
    <3> TAKE i \in 1 .. k - 1
    <3>1. i \in 1 .. n
      BY <1>1
    <3>2. P(i) \in DOMAIN tree /\ tree[P(i)].kind = entries[i].kind /\ N(k) \in DOMAIN tree
      BY <1>3, <1>5, <3>1
    <3>3. IsStrictPrefix(P(i), N(k)) => tree[P(i)].kind = "d"
      BY <1>3, <3>2
    <3> QED
      BY <3>2, <3>3
  <2> QED
    BY <2>1, <2>2, PlacedUnderItsName DEF P, N
<1> HIDE DEF P, N, n, tree
<1>7. \A i \in 1 .. n : N(i) \in DOMAIN tree /\ tree[N(i)] = entries[i]
  BY <1>5, <1>6
<1> QED
  BY <1>7 DEF N, n, tree

(* An ordinary package passes the checks.                                    *)
LEMMA OrdinaryIsAllowed ==
  ASSUME NEW entries \in Seq(Entry), Ordinary(entries)
  PROVE  ~PathsAreForbidden(Names(entries), entries)
<1> DEFINE n == Len(entries)
           names == Names(entries)
           tree == Unpacked(entries)
           N(i) == Own(entries, i)
<1>1. n \in Nat /\ DOMAIN entries = 1 .. n /\ entries # << >>
  BY DEF Ordinary
<1>2. /\ DOMAIN names = 1 .. n /\ names # << >> /\ Len(names) = n
      /\ \A i \in 1 .. n : names[i] = entries[i].name
  BY <1>1 DEF Names
<1>3. /\ DOMAIN tree = {N(i) : i \in 1 .. n} /\ Cardinality(DOMAIN tree) = n
      /\ \A p, q \in DOMAIN tree : IsStrictPrefix(p, q) => tree[p].kind = "d"
  BY DEF Ordinary, Own
<1>4. \A i \in 1 .. n : N(i) \in DOMAIN tree /\ tree[N(i)] = entries[i]
  BY OrdinaryIsPlaced
<1>5. \A i, j \in 1 .. n : N(i) = N(j) => i = j
  <2> DEFINE f == [i \in 1 .. n |-> N(i)]
  <2> HIDE DEF N, tree, n
  <2>1. f \in Surjection(1 .. n, DOMAIN tree)
    BY <1>3 DEF Surjection
  <2>2. IsFiniteSet(1 .. n) /\ Cardinality(1 .. n) = n
    BY <1>1, FS_Interval
  <2>3. f \in Injection(1 .. n, DOMAIN tree)
    BY <1>3, <2>1, <2>2, FS_SurjSameCardinalityImpliesInj
  <2> QED
    BY <2>3 DEF Injection, IsInjective
<1>6. SUFFICES ASSUME NEW i \in 1 .. n
               PROVE  /\ ~UnsafeName(names[i]) /\ ~IsDuplicate(names, i)
                      /\ ~EntryIsForbidden(names[i], entries[i])
                      /\ ~BeneathLink(names, entries, i)
  BY <1>1, <1>2, Zenon DEF PathsAreForbidden
<1> DEFINE e == entries[i]
<1>7. /\ e \in Entry /\ names[i] = e.name /\ N(i) = Normalize(e.name)
      /\ OrdinaryEntry(e)
  <2>1. OrdinaryEntry(e)
    BY <1>1, Zenon DEF Ordinary
  <2>2. e \in Entry
    BY <1>1
  <2>3. N(i) = Normalize(e.name)
    BY DEF Own
  <2>4. names[i] = e.name
    BY <1>2, Zenon
  <2> QED
    BY <2>1, <2>2, <2>3, <2>4
<1> HIDE DEF e, names, N, tree, n
<1>8. ~UnsafeName(names[i])
  BY <1>7 DEF UnsafeName, OrdinaryEntry
<1>9. ~IsDuplicate(names, i)
  <2>1. ASSUME NEW j \in 1 .. i - 1 PROVE Normalize(names[j]) # Normalize(names[i])
    <3>1. j \in 1 .. n /\ j # i
      BY <1>1
    <3> QED
      BY <1>2, <1>5, <3>1 DEF N, Own
  <2> QED
    BY <2>1 DEF IsDuplicate
<1>10. ~EntryIsForbidden(names[i], e)
  <2>1. e.kind = "l" => ~LinkIsUnsafe(Normalize(e.name), e.target)
    BY <1>7, ScanIsExact DEF OrdinaryEntry
  <2>2. ~ModeIsForbidden(Normalize(e.name), e)
    BY <1>7 DEF ModeIsForbidden, Privileges, OrdinaryEntry
  <2> QED
    BY <1>7, <2>1, <2>2 DEF EntryIsForbidden, OrdinaryEntry
<1>11. ~BeneathLink(names, entries, i)
  <2>1. ASSUME NEW j \in 1 .. n, IsStrictPrefix(Normalize(names[j]), Normalize(names[i]))
        PROVE  entries[j].kind # "l"
    <3>1. N(j) \in DOMAIN tree /\ N(i) \in DOMAIN tree /\ tree[N(j)] = entries[j]
      BY <1>4
    <3>2. IsStrictPrefix(N(j), N(i))
      BY <1>2, <2>1 DEF N, Own
    <3>3. tree[N(j)].kind = "d"
      BY <1>3, <3>1, <3>2
    <3> QED
      BY <3>1, <3>3
  <2> QED
    BY <1>2, <2>1 DEF BeneathLink
<1> QED
  BY <1>8, <1>9, <1>10, <1>11 DEF e

---------------------------------------------------------------------------
(* The inspection itself.  An archive nobody has rewritten is what has been  *)
(* listed, and of the first k names those that are control paths have texts  *)
(* that are good.                                                            *)
Listed == plain = Names(archive) /\ verbose = archive

Passed(k) == \A i \in 1 .. k : IsControl(plain[i]) => TextIsGood(plain[i])

Refused ==
  \/ PathsAreForbidden(plain, verbose)
  \/ \E i \in DOMAIN plain : IsControl(plain[i]) /\ ~TextIsGood(plain[i])

Untouched ==
  /\ pc = "verbose" => plain = Names(archive)
  /\ pc \in {"validate", "inspect"} => Listed
  /\ verdict \in {"accepted", "forbidden"} => Listed
  /\ pc = "inspect" => Passed(at - 1)
  /\ verdict = "accepted" => Passed(Len(plain))
  /\ verdict = "forbidden" => Refused

Inv ==
  /\ TypeOK
  /\ pc # "done" => verdict = "none"
  /\ pc \in {"stat", "plain", "verbose", "validate"} => at = 1
  /\ pc = "inspect" \/ verdict = "accepted" => ~PathsAreForbidden(plain, verbose)
  /\ rewrites = 0 => Untouched

LEMMA ArchiveIsEntries ==
  ASSUME TypeOK
  PROVE  /\ archive \in Seq(Entry) /\ Names(archive) \in Seq(Path)
         /\ Len(Names(archive)) = Len(archive)
<1>1. archive \in Seq(Entry)
  BY ArchiveAssumption DEF TypeOK
<1>2. \A i \in 1 .. Len(archive) : archive[i].name \in Path
  <2>1. \A i \in 1 .. Len(archive) : archive[i] \in Entry
    BY <1>1
  <2>2. \A e \in Entry : e.name \in Path
    BY DEF Entry
  <2> QED
    BY <2>1, <2>2
<1> QED
  BY <1>1, <1>2 DEF Names

(* Every step keeps the invariant.                                           *)
LEMMA InvIsInductive ==
  ASSUME Inv, [Next]_vars
  PROVE  Inv'
<1> USE DEF Inv
<1>1. CASE Stat
  <2>1. TypeOK'
    BY <1>1 DEF Stat, Fails, Goto, End, TypeOK
  <2> QED
    BY <1>1, <2>1 DEF Stat, Fails, Goto, End, Untouched
<1>2. CASE ListPlain
  <2>1. TypeOK'
    BY <1>2, ArchiveIsEntries DEF ListPlain, Fails, Goto, End, TypeOK
  <2> QED
    BY <1>2, <2>1 DEF ListPlain, Fails, Goto, End, Untouched
<1>3. CASE ListVerbose
  <2>1. TypeOK'
    BY <1>3 DEF ListVerbose, Fails, Goto, End, TypeOK
  <2> QED
    BY <1>3, <2>1 DEF ListVerbose, Fails, Goto, End, Untouched, Listed
<1>4. CASE Validate
  <2>1. TypeOK'
    BY <1>4 DEF Validate, Goto, End, TypeOK
  <2>2. (pc = "inspect" \/ verdict = "accepted" => ~PathsAreForbidden(plain, verbose))'
    BY <1>4 DEF Validate, Goto, End
  <2>3. ASSUME rewrites = 0 PROVE Untouched'
    <3>1. Listed' /\ pc' # "verbose" /\ verdict' # "accepted"
      BY <1>4, <2>3 DEF Validate, Goto, End, Untouched, Listed
    <3>2. at = 1 /\ at' = 1
      BY <1>4 DEF Validate
    <3>3. Passed(at - 1)'
      BY <3>2 DEF Passed
    <3>4. verdict' = "forbidden" => Refused'
      BY <1>4 DEF Validate, Goto, End, Refused
    <3> QED
      BY <3>1, <3>3, <3>4 DEF Untouched
  <2> QED
    BY <1>4, <2>1, <2>2, <2>3 DEF Validate, Goto, End
<1>5. CASE Inspect
  <2>1. TypeOK'
    BY <1>5 DEF Inspect, Fails, Goto, End, TypeOK
  <2>2. (pc = "inspect" \/ verdict = "accepted" => ~PathsAreForbidden(plain, verbose))'
    BY <1>5 DEF Inspect, Fails, Goto, End
  <2>3. ASSUME rewrites = 0 PROVE Untouched'
    <3>1. Listed /\ Passed(at - 1) /\ at \in 1 .. Len(plain) /\ UNCHANGED <<archive, plain, verbose>>
      BY <1>5, <2>3 DEF Inspect, Untouched, TypeOK, Fails
    <3>2. Listed' /\ pc' # "verbose" /\ verdict' # "accepted"
      BY <1>5, <3>1 DEF Inspect, Goto, End, Fails, Listed
    <3>3. CASE pc' = "inspect"
      <4>1. at' = at + 1 /\ verdict' = "none" /\ (IsControl(plain[at]) => TextIsGood(plain[at]))
        BY <1>5, <3>3 DEF Inspect, Goto, End, Fails
      <4>2. \A i \in 1 .. at : i = at \/ i \in 1 .. at - 1
        BY <3>1
      <4>3. \A i \in 1 .. at : IsControl(plain[i]) => TextIsGood(plain[i])
        BY <3>1, <4>1, <4>2 DEF Passed
      <4>4. at' - 1 = at
        BY <3>1, <4>1
      <4>5. Passed(at - 1)'
        BY <3>1, <4>3, <4>4 DEF Passed, TextIsGood
      <4> QED
        BY <3>2, <4>1, <4>5 DEF Untouched
    <3>4. CASE pc' # "inspect"
      <4>1. verdict' = "forbidden" => IsControl(plain[at]) /\ ~TextIsGood(plain[at])
        BY <1>5, <3>4 DEF Inspect, Goto, End, Fails
      <4>2. at \in DOMAIN plain
        BY <3>1 DEF TypeOK
      <4>3. verdict' = "forbidden" => Refused'
        BY <3>1, <4>1, <4>2 DEF Refused, TextIsGood
      <4> QED
        BY <3>2, <3>4, <4>3 DEF Untouched
    <3> QED
      BY <3>3, <3>4
  <2> QED
    BY <1>5, <2>1, <2>2, <2>3 DEF Inspect, Fails, Goto, End
<1>6. CASE Accept
  <2>1. TypeOK'
    BY <1>6 DEF Accept, End, TypeOK
  <2>2. ASSUME rewrites = 0 PROVE Untouched'
    <3>1. Listed /\ Passed(at - 1) /\ at - 1 = Len(plain)
      BY <1>6, <2>2 DEF Accept, Untouched, TypeOK
    <3> QED
      BY <1>6, <3>1 DEF Accept, End, Untouched, Listed, Passed, TextIsGood
  <2> QED
    BY <1>6, <2>1, <2>2 DEF Accept, End
<1>7. CASE Rewrite
  <2>1. TypeOK'
    BY <1>7, ArchiveAssumption DEF Rewrite, TypeOK
  <2>2. rewrites' # 0
    BY <1>7 DEF Rewrite, TypeOK
  <2> QED
    BY <1>7, <2>1, <2>2 DEF Rewrite
<1>8. CASE UNCHANGED vars
  BY <1>8 DEF vars, TypeOK, Untouched, Listed, Passed, Refused, TextIsGood
<1> QED
  BY <1>1, <1>2, <1>3, <1>4, <1>5, <1>6, <1>7, <1>8 DEF Next

(* Inv holds throughout: what the inspection goes by is what it has read.    *)
THEOREM Inductive == Spec => []Inv
<1>1. Init => Inv
  <2>1. << >> \in Seq(Path) /\ Len(<< >>) = 0
    OBVIOUS
  <2> QED
    BY <2>1, ArchiveAssumption DEF Init, Inv, TypeOK, Untouched
<1> QED
  BY <1>1, InvIsInductive, PTL DEF Spec

(* The state keeps its type.                                                 *)
THEOREM TypeCorrect == Spec => []TypeOK
<1>1. Inv => TypeOK
  BY DEF Inv
<1> QED
  BY <1>1, Inductive, PTL

(* Whatever the archive holds, if it is accepted and nobody has rewritten it *)
(* each of its entries ends up under its own name and is found there.        *)
THEOREM Unpacks == Spec => []UnpacksAsListed
<1>1. ASSUME Inv PROVE UnpacksAsListed
  <2> SUFFICES ASSUME verdict = "accepted", rewrites = 0, NEW i \in DOMAIN archive
               PROVE  /\ Own(archive, i) \in DOMAIN Unpacked(archive)
                      /\ Unpacked(archive)[Own(archive, i)] = archive[i]
    BY DEF UnpacksAsListed, Own
  <2>1. ~PathsAreForbidden(Names(archive), archive)
    BY <1>1 DEF Inv, Untouched, Listed
  <2>2. archive \in Seq(Entry)
    BY <1>1, ArchiveIsEntries DEF Inv
  <2>3. /\ DOMAIN Unpacked(archive) = {Own(archive, j) : j \in 1 .. Len(archive)}
        /\ \A j \in 1 .. Len(archive) : Unpacked(archive)[Own(archive, j)] = archive[j]
    BY <2>1, <2>2, AllowedIsPlaced
  <2>4. i \in 1 .. Len(archive)
    BY <2>2
  <2> QED
    BY <2>3, <2>4
<1> QED
  BY <1>1, Inductive, PTL

(* Whatever the archive holds, if it is accepted and nobody has rewritten it *)
(* no regular file it unpacks to has a privilege no installed file has, no   *)
(* link leaves the package, and every regular file at a control path has a   *)
(* good text; of a link there it says only that its target stays inside.     *)
THEOREM Harmless == Spec => []AcceptedIsHarmless
<1>1. ASSUME Inv PROVE AcceptedIsHarmless
  <2> SUFFICES ASSUME verdict = "accepted", rewrites = 0 PROVE AcceptedIsHarmless
    BY DEF AcceptedIsHarmless
  <2>1. /\ Listed /\ Passed(Len(plain)) /\ ~PathsAreForbidden(Names(archive), archive)
    BY <1>1 DEF Inv, Untouched, Listed
  <2>2. archive \in Seq(Entry) /\ Len(plain) = Len(archive)
    BY <1>1, <2>1, ArchiveIsEntries DEF Inv, Listed
  <2>3. ASSUME NEW i \in 1 .. Len(archive), IsControl(archive[i].name)
        PROVE  archive[i].good
    <3>1. plain[i] = archive[i].name /\ i \in DOMAIN archive
      BY <2>1, <2>2 DEF Listed, Names
    <3>2. TextIsGood(archive[i].name)
      BY <2>1, <2>2, <2>3, <3>1 DEF Passed
    <3> QED
      BY <3>1, <3>2 DEF TextIsGood
  <2> QED
    BY <2>1, <2>2, <2>3, AllowedIsHarmless DEF AcceptedIsHarmless
<1> QED
  BY <1>1, Inductive, PTL

(* An ordinary package that nobody rewrites is never refused.                *)
THEOREM OrdinaryAccepted == Spec => []OrdinaryIsAccepted
<1>1. ASSUME Inv PROVE OrdinaryIsAccepted
  <2> SUFFICES ASSUME verdict = "forbidden", rewrites = 0, Ordinary(archive)
               PROVE  FALSE
    BY DEF OrdinaryIsAccepted
  <2>1. Listed /\ Refused
    BY <1>1 DEF Inv, Untouched
  <2>2. archive \in Seq(Entry)
    BY <1>1, ArchiveIsEntries DEF Inv
  <2>3. ~PathsAreForbidden(plain, verbose)
    BY <2>1, <2>2, OrdinaryIsAllowed DEF Listed
  <2>4. \A i \in DOMAIN archive : archive[i].good
    BY Zenon DEF Ordinary, OrdinaryEntry
  <2>5. \A name : TextIsGood(name)
    BY <2>4 DEF TextIsGood
  <2> QED
    BY <2>1, <2>3, <2>5 DEF Refused
<1> QED
  BY <1>1, Inductive, PTL
=============================================================================
