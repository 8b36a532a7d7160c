----------------------------- MODULE LimboProofs -----------------------------
(* Theorems about the limbo documents of Limbo, for any finite set of         *)
(* documents, any number of queries and any number of lookups at a time.      *)
(*                                                                            *)
(* One task hands the books from call to call, through folds over sequences   *)
(* of any length.  What a fold keeps is shown by induction over its turns,    *)
(* from the fact that every non-empty set of naturals has a least member.     *)
EXTENDS Limbo, FiniteSetTheorems, FunctionTheorems, WellFoundedInduction, TLAPS

-----------------------------------------------------------------------------
(* The inductive invariant *)

\* The keys of the two maps; the ids of lookups are naturals, so that a new one
\* is found among the first ones.
MapsOf(b) ==
    /\ b.byKey = [d \in DOMAIN b.byKey |-> b.byKey[d]]
    /\ DOMAIN b.byKey \subseteq Docs
    /\ \A d \in DOMAIN b.byKey : b.byKey[d] \in Nat
    /\ b.lookups = [t \in DOMAIN b.lookups |-> b.lookups[t]]
    /\ DOMAIN b.lookups \subseteq Nat
    /\ \A t \in DOMAIN b.lookups : b.lookups[t] \in Docs

\* A document with a target has the lookup of that target, and no more of them
\* have one than there are places.  A lookup whose document has another target,
\* or none, may be there too.
Agreeing(b) ==
    /\ IsFiniteSet(DOMAIN b.lookups)
    /\ \A d \in DOMAIN b.byKey :
           b.byKey[d] \in DOMAIN b.lookups /\ b.lookups[b.byKey[d]] = d
    /\ Cardinality(DOMAIN b.byKey) <= MaxConcurrent

\* Nobody waits while there is a place.
Settled(b) == b.queued = <<>> \/ ~HasPlace(b)

ViewsInv ==
    /\ listening \subseteq Queries /\ IsFiniteSet(listening)
    /\ current \in [Queries -> BOOLEAN]
    /\ \A q \in Queries : current[q] => q \in listening

GoodBook(b) ==
    /\ b.limbo \in [Queries -> SUBSET Docs]
    /\ b.queued \in Seq(Docs)
    /\ MapsOf(b)
    /\ Agreeing(b)
    /\ Settled(b)

BooksInv == GoodBook(Books)

IInv == ViewsInv /\ BooksInv

-----------------------------------------------------------------------------
(* Induction over the naturals, and the turns of a fold *)

(* Every non-empty set of naturals has a least member. *)
LEMMA LeastMember ==
    ASSUME NEW T \in SUBSET Nat, T # {}
    PROVE  \E m \in T : \A n \in T : m <= n
<1>1. IsWellFoundedOn(OpToRel(<, Nat), Nat)
  BY NatLessThanWellFounded
<1>2. PICK m \in T : \A n \in T : ~(<<n, m>> \in OpToRel(<, Nat))
  BY <1>1, WFMin
<1>3. \A n \in T : ~(n < m)
  BY <1>2 DEF OpToRel
<1> QED BY <1>3

(* A set with zero and with the successors of its members has every natural. *)
LEMMA Induct ==
    ASSUME NEW T, 0 \in T, \A n \in Nat : n \in T => n + 1 \in T
    PROVE  \A n \in Nat : n \in T
<1> DEFINE U == {n \in Nat : n \notin T}
<1> SUFFICES ASSUME U # {} PROVE FALSE
  OBVIOUS
<1>1. U \in SUBSET Nat
  OBVIOUS
<1>2. PICK m \in U : \A n \in U : m <= n
  <2> HIDE DEF U
  <2> QED BY <1>1, LeastMember
<1>3. m \in Nat /\ m \notin T /\ m # 0
  BY <1>2
<1>4. m - 1 \in Nat /\ m - 1 \notin U /\ (m - 1) + 1 = m
  BY <1>2, <1>3
<1>5. m - 1 \in T
  BY <1>4
<1> QED BY <1>3, <1>4, <1>5

(* The largest of the first numbers is the last of them. *)
LEMMA MaxOfFirst ==
    ASSUME NEW k \in Nat \ {0}
    PROVE  Max(1 .. k) = k /\ (1 .. k) \ {k} = 1 .. (k - 1)
<1>1. k \in 1 .. k /\ \A y \in 1 .. k : k >= y
  OBVIOUS
<1>2. \A x \in 1 .. k : (\A y \in 1 .. k : x >= y) => x = k
  OBVIOUS
<1>3. Max(1 .. k) \in 1 .. k /\ \A y \in 1 .. k : Max(1 .. k) >= y
  BY <1>1 DEF Max
<1>4. \A x : x \in (1 .. k) \ {k} <=> x \in 1 .. (k - 1)
  OBVIOUS
<1> QED BY <1>2, <1>3, <1>4

(* The largest member of a set of some of the first numbers. *)
LEMMA MaxMember ==
    ASSUME NEW k \in Nat, NEW z \in SUBSET (1 .. k), z # {}
    PROVE  Max(z) \in z /\ \A y \in z : Max(z) >= y
<1> DEFINE T == {k - y : y \in z}
<1>1. \A y \in z : y \in 1 .. k /\ k - y \in Nat
  OBVIOUS
<1>2. T \in SUBSET Nat
  BY <1>1
<1>3. T # {}
  OBVIOUS
<1>4. PICK m \in T : \A n \in T : m <= n
  <2> HIDE DEF T
  <2> QED BY <1>2, <1>3, LeastMember
<1>5. PICK x \in z : m = k - x
  BY <1>4
<1>6. \A y \in z : x >= y
  <2> SUFFICES ASSUME NEW y \in z PROVE x >= y
    OBVIOUS
  <2>1. k - y \in T
    OBVIOUS
  <2>2. k - x <= k - y
    BY <2>1, <1>4, <1>5
  <2> QED BY <2>2, <1>1
<1> QED BY <1>5, <1>6 DEF Max

\* g has the result of the turns R, from b, for every set of the first k numbers.
FoldResults(S, b, R, k) ==
    {g \in [SUBSET (1 .. k) -> S] :
        \A z \in SUBSET (1 .. k) :
            g[z] = IF z = {} THEN b ELSE R[<<g[z \ {Max(z)}], Max(z)>>]}

(* A fold over the first n numbers, each turn of which keeps to S, has a       *)
(* result for every set of them.                                              *)
LEMMA FoldIsDefined ==
    ASSUME NEW S, NEW b \in S, NEW n \in Nat, NEW R \in [S \X (1 .. n) -> S]
    PROVE  FoldResults(S, b, R, n) # {}
<1> DEFINE T == {k \in Nat : k <= n => FoldResults(S, b, R, k) # {}}
<1>1. 0 \in T
  <2> DEFINE g == [z \in SUBSET (1 .. 0) |-> b]
  <2>1. \A z \in SUBSET (1 .. 0) : z = {}
    OBVIOUS
  <2>2. g \in [SUBSET (1 .. 0) -> S]
    OBVIOUS
  <2>3. g \in FoldResults(S, b, R, 0)
    BY <2>1, <2>2 DEF FoldResults
  <2> QED BY <2>3
<1>2. ASSUME NEW k \in Nat, k \in T
      PROVE  k + 1 \in T
  <2> SUFFICES ASSUME k + 1 <= n
               PROVE  FoldResults(S, b, R, k + 1) # {}
    OBVIOUS
  <2>0. PICK g \in FoldResults(S, b, R, k) : TRUE
    BY <1>2
  <2>1. /\ g \in [SUBSET (1 .. k) -> S]
        /\ \A z \in SUBSET (1 .. k) :
               g[z] = IF z = {} THEN b ELSE R[<<g[z \ {Max(z)}], Max(z)>>]
    BY <2>0 DEF FoldResults
  <2> DEFINE h == [z \in SUBSET (1 .. k + 1) |->
                       IF k + 1 \in z THEN R[<<g[z \ {k + 1}], k + 1>>] ELSE g[z]]
  <2>2. ASSUME NEW z \in SUBSET (1 .. k + 1)
        PROVE  /\ z \ {k + 1} \in SUBSET (1 .. k)
               /\ k + 1 \notin z => z \in SUBSET (1 .. k)
               /\ k + 1 \in z => Max(z) = k + 1
               /\ z # {} => Max(z) \in z
    <3>1. \A x \in 1 .. k + 1 : x # k + 1 => x \in 1 .. k
      OBVIOUS
    <3>2. k + 1 \in Nat
      OBVIOUS
    <3>3. z # {} => Max(z) \in z /\ \A y \in z : Max(z) >= y
      BY <3>2, MaxMember
    <3>4. \A x \in z : x \in Nat /\ x <= k + 1
      OBVIOUS
    <3>5. ASSUME k + 1 \in z PROVE Max(z) = k + 1
      <4>1. Max(z) \in z /\ Max(z) >= k + 1
        BY <3>3, <3>5
      <4>2. Max(z) \in Nat /\ Max(z) <= k + 1
        BY <3>4, <4>1
      <4> QED BY <4>1, <4>2
    <3> QED BY <3>1, <3>3, <3>5
  <2>3. h \in [SUBSET (1 .. k + 1) -> S]
    <3> SUFFICES ASSUME NEW z \in SUBSET (1 .. k + 1)
                 PROVE  (IF k + 1 \in z THEN R[<<g[z \ {k + 1}], k + 1>>] ELSE g[z]) \in S
      OBVIOUS
    <3>1. z \ {k + 1} \in SUBSET (1 .. k) /\ (k + 1 \notin z => z \in SUBSET (1 .. k))
      BY <2>2
    <3>2. k + 1 \in 1 .. n
      OBVIOUS
    <3> QED BY <3>1, <3>2, <2>1
  <2>4. h \in FoldResults(S, b, R, k + 1)
    <3> SUFFICES ASSUME NEW z \in SUBSET (1 .. k + 1)
                 PROVE  h[z] = IF z = {} THEN b ELSE R[<<h[z \ {Max(z)}], Max(z)>>]
      BY <2>3 DEF FoldResults
    <3>1. CASE k + 1 \in z
      <4>1. Max(z) = k + 1 /\ z \ {k + 1} \in SUBSET (1 .. k + 1) /\ k + 1 \notin z \ {k + 1}
        BY <3>1, <2>2
      <4>2. h[z \ {k + 1}] = g[z \ {k + 1}]
        BY <4>1
      <4> QED BY <3>1, <4>1, <4>2
    <3>2. CASE k + 1 \notin z
      <4>1. z \in SUBSET (1 .. k) /\ (z # {} => Max(z) \in z)
        BY <3>2, <2>2
      <4>2. h[z] = g[z] /\ (z # {} => h[z \ {Max(z)}] = g[z \ {Max(z)}])
        BY <3>2, <4>1
      <4>3. g[z] = IF z = {} THEN b ELSE R[<<g[z \ {Max(z)}], Max(z)>>]
        BY <2>1, <4>1
      <4> QED BY <4>2, <4>3
    <3> QED BY <3>1, <3>2
  <2> QED BY <2>4
<1>3. n \in T
  <2> HIDE DEF T
  <2> QED BY <1>1, <1>2, Induct
<1> QED BY <1>3

\* h is such a fold, as far as it is known to keep to S.
FoldsWith(S, b, R, n, h) ==
    /\ h[{}] = b
    /\ \A z \in SUBSET (1 .. n) :
           z # {} /\ h[z \ {Max(z)}] \in S => h[z] = R[<<h[z \ {Max(z)}], Max(z)>>]

\* The values of a fold from turn to turn, the last of which is r.
TurnsTo(S, b, R, n, r) ==
    {f \in [0 .. n -> S] :
        /\ f[0] = b
        /\ \A k \in 1 .. n : f[k] = R[<<f[k - 1], k>>]
        /\ f[n] = r}

(* The result of such a fold, turn by turn. *)
LEMMA TurnsOfFold ==
    ASSUME NEW S, NEW b \in S, NEW n \in Nat, NEW R \in [S \X (1 .. n) -> S], NEW h,
           FoldsWith(S, b, R, n, h)
    PROVE  TurnsTo(S, b, R, n, h[1 .. n]) # {}
<1> DEFINE f == [k \in 0 .. n |-> h[1 .. k]]
           T == {k \in Nat : k <= n => h[1 .. k] \in S}
<1>1. ASSUME NEW k \in Nat, k + 1 <= n, h[1 .. k] \in S
      PROVE  h[1 .. k + 1] = R[<<h[1 .. k], k + 1>>]
  <2>1. /\ Max(1 .. k + 1) = k + 1
        /\ (1 .. k + 1) \ {k + 1} = 1 .. (k + 1) - 1
    BY MaxOfFirst
  <2>2. (k + 1) - 1 = k
    OBVIOUS
  <2>3. 1 .. k + 1 \in SUBSET (1 .. n)
    BY <1>1
  <2>4. k + 1 \in 1 .. k + 1
    OBVIOUS
  <2> QED BY <1>1, <2>1, <2>2, <2>3, <2>4 DEF FoldsWith
<1>2. 0 \in T
  <2>1. 1 .. 0 = {}
    OBVIOUS
  <2> QED BY <2>1 DEF FoldsWith
<1>3. ASSUME NEW k \in Nat, k \in T
      PROVE  k + 1 \in T
  <2> SUFFICES ASSUME k + 1 <= n PROVE h[1 .. k + 1] \in S
    OBVIOUS
  <2>1. h[1 .. k] \in S
    BY <1>3
  <2>2. h[1 .. k + 1] = R[<<h[1 .. k], k + 1>>]
    BY <1>1, <2>1
  <2>3. k + 1 \in 1 .. n
    OBVIOUS
  <2> QED BY <2>1, <2>2, <2>3
<1>4. \A k \in Nat : k \in T
  <2> HIDE DEF T
  <2> QED BY <1>2, <1>3, Induct
<1>5. \A k \in 0 .. n : h[1 .. k] \in S
  BY <1>4
<1>6. f \in [0 .. n -> S]
  BY <1>5
<1>7. f[0] = b
  <2>1. 1 .. 0 = {}
    OBVIOUS
  <2> QED BY <2>1 DEF FoldsWith
<1>8. ASSUME NEW k \in 1 .. n
      PROVE  f[k] = R[<<f[k - 1], k>>]
  <2>1. k - 1 \in Nat /\ (k - 1) + 1 = k /\ k - 1 \in 0 .. n /\ k \in 0 .. n
    OBVIOUS
  <2>2. h[1 .. (k - 1) + 1] = R[<<h[1 .. k - 1], (k - 1) + 1>>]
    BY <1>1, <1>5, <2>1
  <2> QED BY <2>1, <2>2
<1>9. f[n] = h[1 .. n]
  OBVIOUS
<1>10. f \in TurnsTo(S, b, R, n, h[1 .. n])
  <2> HIDE DEF f
  <2> QED BY <1>6, <1>7, <1>8, <1>9 DEF TurnsTo
<1> QED BY <1>10

-----------------------------------------------------------------------------
(* The order of keys *)

OrderedBy(D) == {s \in SetToSeqs(D) : \A i, j \in DOMAIN s : i < j => s[i] < s[j]}

(* The members of a finite set of naturals can be put in order. *)
LEMMA OrderExists ==
    ASSUME NEW D \in SUBSET Nat, IsFiniteSet(D)
    PROVE  OrderedBy(D) # {}
<1> DEFINE T == {n \in Nat : \A E \in SUBSET Nat :
                     IsFiniteSet(E) /\ Cardinality(E) = n => OrderedBy(E) # {}}
<1>1. 0 \in T
  <2> SUFFICES ASSUME NEW E \in SUBSET Nat, IsFiniteSet(E), Cardinality(E) = 0
               PROVE  OrderedBy(E) # {}
    OBVIOUS
  <2> DEFINE s == [i \in 1 .. 0 |-> 0]
  <2>1. s \in [1 .. Cardinality(E) -> E] /\ \A i \in 1 .. Cardinality(E) : FALSE
    OBVIOUS
  <2>2. s \in OrderedBy(E)
    <3> HIDE DEF s
    <3> QED BY <2>1 DEF OrderedBy, SetToSeqs
  <2> QED BY <2>2
<1>2. ASSUME NEW n \in Nat, n \in T
      PROVE  n + 1 \in T
  <2> SUFFICES ASSUME NEW E \in SUBSET Nat, IsFiniteSet(E), Cardinality(E) = n + 1
               PROVE  OrderedBy(E) # {}
    OBVIOUS
  <2>1. E # {}
    BY FS_EmptySet
  <2>2. PICK m \in E : \A e \in E : m <= e
    BY <2>1, LeastMember
  <2>3. IsFiniteSet(E \ {m}) /\ Cardinality(E \ {m}) = n
    <3>1. IsFiniteSet(E \ {m}) /\ Cardinality(E \ {m}) = Cardinality(E) - 1
      BY FS_RemoveElement, Zenon
    <3>2. (n + 1) - 1 = n
      OBVIOUS
    <3> QED BY <3>1, <3>2
  <2>4. PICK t \in OrderedBy(E \ {m}) : TRUE
    BY <1>2, <2>3
  <2>5. /\ t \in [1 .. n -> E \ {m}]
        /\ \A i, j \in 1 .. n : i # j => t[i] # t[j]
        /\ \A i, j \in 1 .. n : i < j => t[i] < t[j]
    BY <2>3, <2>4 DEF OrderedBy, SetToSeqs
  <2> DEFINE s == [i \in 1 .. n + 1 |-> IF i = 1 THEN m ELSE t[i - 1]]
  <2>6. \A i \in 1 .. n + 1 : i # 1 => i - 1 \in 1 .. n /\ t[i - 1] \in E /\ m < t[i - 1]
    <3> SUFFICES ASSUME NEW i \in 1 .. n + 1, i # 1
                 PROVE  i - 1 \in 1 .. n /\ t[i - 1] \in E /\ m < t[i - 1]
      OBVIOUS
    <3>1. i - 1 \in 1 .. n
      OBVIOUS
    <3>2. t[i - 1] \in E /\ t[i - 1] # m
      BY <3>1, <2>5
    <3>3. m \in Nat /\ t[i - 1] \in Nat /\ m <= t[i - 1]
      BY <3>2, <2>2
    <3> QED BY <3>1, <3>2, <3>3
  <2>7. s \in [1 .. n + 1 -> E]
    BY <2>6
  <2>8. \A i, j \in 1 .. n + 1 : i < j => s[i] < s[j]
    <3> SUFFICES ASSUME NEW i \in 1 .. n + 1, NEW j \in 1 .. n + 1, i < j
                 PROVE  s[i] < s[j]
      OBVIOUS
    <3>1. j # 1
      OBVIOUS
    <3>2. CASE i = 1
      BY <3>1, <3>2, <2>6
    <3>3. CASE i # 1
      <4>1. i - 1 \in 1 .. n /\ j - 1 \in 1 .. n /\ i - 1 < j - 1
        BY <3>1, <3>3
      <4> QED BY <3>1, <3>3, <4>1, <2>5
    <3> QED BY <3>2, <3>3
  <2>9. \A i, j \in 1 .. n + 1 : i # j => s[i] # s[j]
    <3> SUFFICES ASSUME NEW i \in 1 .. n + 1, NEW j \in 1 .. n + 1, i # j
                 PROVE  s[i] # s[j]
      OBVIOUS
    <3>1. s[i] \in Nat /\ s[j] \in Nat
      BY <2>7
    <3>2. i < j \/ j < i
      OBVIOUS
    <3> HIDE DEF s
    <3> QED BY <3>1, <3>2, <2>8
  <2>10. s \in OrderedBy(E)
    <3> HIDE DEF s
    <3> QED BY <2>7, <2>8, <2>9 DEF OrderedBy, SetToSeqs
  <2> QED BY <2>10
<1>3. Cardinality(D) \in T
  <2> HIDE DEF T
  <2>1. Cardinality(D) \in Nat
    BY FS_CardinalityType
  <2> QED BY <1>1, <1>2, <2>1, Induct
<1> QED BY <1>3

(* The keys of a finite set in order are a sequence of its members. *)
LEMMA KeysInOrder ==
    ASSUME LimboAssumption, NEW D \in SUBSET Docs
    PROVE  Cardinality(D) \in Nat /\ InKeyOrder(D) \in [1 .. Cardinality(D) -> D]
<1>1. IsFiniteSet(D) /\ D \in SUBSET Nat
  BY FS_Subset DEF LimboAssumption
<1>2. OrderedBy(D) # {}
  BY <1>1, OrderExists
<1>3. InKeyOrder(D) \in SetToSeqs(D)
  BY <1>2 DEF InKeyOrder, OrderedBy
<1> QED BY <1>1, <1>3, FS_CardinalityType DEF SetToSeqs

(* The views in any order. *)
LEMMA ViewsInOrder ==
    ASSUME NEW views, IsFiniteSet(views), NEW order \in SetToSeqs(views)
    PROVE  Cardinality(views) \in Nat /\ order \in [1 .. Cardinality(views) -> views]
BY FS_CardinalityType DEF SetToSeqs

-----------------------------------------------------------------------------
(* The folds of the model *)

(* The turns of the loop that starts lookups. *)
LEMMA PumpTurns ==
    ASSUME NEW S, NEW b \in S, b.queued \in Seq(Docs), \A c \in S : StartNext(c) \in S
    PROVE  \E f \in [0 .. Len(b.queued) -> S] :
               /\ f[0] = b
               /\ \A k \in 1 .. Len(b.queued) : f[k] = StartNext(f[k - 1])
               /\ f[Len(b.queued)] = PumpEnqueuedLimboResolutions(b)
<1> DEFINE n == Len(b.queued)
           R == [p \in S \X (1 .. n) |-> StartNext(p[1])]
           Result(g) == [z \in SUBSET (1 .. n) |->
                             IF z = {} THEN b ELSE StartNext(g[z \ {Max(z)}])]
           it == CHOOSE g : g = Result(g)
<1>1. n \in Nat /\ DOMAIN b.queued = 1 .. n
  OBVIOUS
<1>2. R \in [S \X (1 .. n) -> S] /\ \A c \in S, k \in 1 .. n : R[<<c, k>>] = StartNext(c)
  OBVIOUS
<1>3. PumpEnqueuedLimboResolutions(b) = it[1 .. n]
  BY <1>1 DEF PumpEnqueuedLimboResolutions, FoldLeft, MapThenFoldSet
<1> HIDE DEF R, n
<1>4. PICK g \in FoldResults(S, b, R, n) : TRUE
  <2>1. b \in S /\ n \in Nat /\ R \in [S \X (1 .. n) -> S]
    BY <1>1, <1>2
  <2>2. FoldResults(S, b, R, n) # {}
    BY ONLY <2>1, FoldIsDefined
  <2> QED BY <2>2
<1>5. \A z \in SUBSET (1 .. n) : z # {} => Max(z) \in 1 .. n /\ z \ {Max(z)} \in SUBSET (1 .. n)
  BY <1>1, MaxMember
<1>6. g = Result(g)
  BY <1>2, <1>4, <1>5 DEF FoldResults
<1>7. it = Result(it)
  <2> HIDE DEF Result
  <2> QED BY <1>6
<1> HIDE DEF it
<1>8. FoldsWith(S, b, R, n, it)
  BY <1>2, <1>5, <1>7 DEF FoldsWith
<1>9. PICK f \in TurnsTo(S, b, R, n, it[1 .. n]) : TRUE
  <2>1. b \in S /\ n \in Nat /\ R \in [S \X (1 .. n) -> S]
    BY <1>1, <1>2
  <2>2. TurnsTo(S, b, R, n, it[1 .. n]) # {}
    BY ONLY <2>1, <1>8, TurnsOfFold
  <2> QED BY <2>2
<1>10. \A k \in 1 .. n : f[k] = StartNext(f[k - 1])
  <2> SUFFICES ASSUME NEW k \in 1 .. n PROVE f[k] = StartNext(f[k - 1])
    OBVIOUS
  <2>1. k - 1 \in 0 .. n
    BY <1>1
  <2> QED BY <2>1, <1>2, <1>9 DEF TurnsTo
<1> QED BY <1>3, <1>9, <1>10 DEF n, TurnsTo

(* What the loss of each reference keeps, the loss of all keeps. *)
LEMMA RemoveReferencesKeep ==
    ASSUME LimboAssumption, NEW S, NEW b \in S, NEW q, NEW D \in SUBSET Docs,
           \A c \in S, d \in D : RemoveReference(c, q, d) \in S
    PROVE  RemoveReferences(b, q, D) \in S
<1> DEFINE s == InKeyOrder(D)
           n == Cardinality(D)
           R == [p \in S \X (1 .. n) |-> RemoveReference(p[1], q, s[p[2]])]
           Result(g) == [z \in SUBSET (1 .. n) |->
                             IF z = {} THEN b
                             ELSE RemoveReference(g[z \ {Max(z)}], q, s[Max(z)])]
           it == CHOOSE g : g = Result(g)
<1>1. n \in Nat /\ s \in [1 .. n -> D]
  BY KeysInOrder
<1>2. DOMAIN s = 1 .. n
  BY <1>1
<1>3. RemoveReferences(b, q, D) = it[1 .. n]
  BY <1>2 DEF RemoveReferences, FoldLeft, MapThenFoldSet
<1> HIDE DEF s, n
<1>4. \A c \in S, k \in 1 .. n : RemoveReference(c, q, s[k]) \in S
  BY <1>1
<1>5. R \in [S \X (1 .. n) -> S] /\ \A c \in S, k \in 1 .. n : R[<<c, k>>] = RemoveReference(c, q, s[k])
  BY <1>4
<1> HIDE DEF R
<1>6. PICK g \in FoldResults(S, b, R, n) : TRUE
  <2>1. b \in S /\ n \in Nat /\ R \in [S \X (1 .. n) -> S]
    BY <1>1, <1>5
  <2>2. FoldResults(S, b, R, n) # {}
    BY ONLY <2>1, FoldIsDefined
  <2> QED BY <2>2
<1>7. \A z \in SUBSET (1 .. n) : z # {} => Max(z) \in 1 .. n /\ z \ {Max(z)} \in SUBSET (1 .. n)
  BY <1>1, MaxMember
<1>8. g = Result(g)
  BY <1>5, <1>6, <1>7 DEF FoldResults
<1>9. it = Result(it)
  <2> HIDE DEF Result
  <2> QED BY <1>8
<1> HIDE DEF it
<1>10. FoldsWith(S, b, R, n, it)
  BY <1>5, <1>7, <1>9 DEF FoldsWith
<1>11. PICK f \in TurnsTo(S, b, R, n, it[1 .. n]) : TRUE
  <2>1. b \in S /\ n \in Nat /\ R \in [S \X (1 .. n) -> S]
    BY <1>1, <1>5
  <2>2. TurnsTo(S, b, R, n, it[1 .. n]) # {}
    BY ONLY <2>1, <1>10, TurnsOfFold
  <2> QED BY <2>2
<1>12. n \in 0 .. n
  BY <1>1
<1> QED BY <1>3, <1>11, <1>12 DEF TurnsTo

(* What each new reference keeps, all new references keep. *)
LEMMA AddReferencesKeep ==
    ASSUME LimboAssumption, NEW S, NEW b \in S, NEW q, NEW D \in SUBSET Docs,
           \A c \in S, d \in D : AddReference(c, q, d) \in S
    PROVE  AddReferences(b, q, D) \in S
<1> DEFINE s == InKeyOrder(D)
           n == Cardinality(D)
           R == [p \in S \X (1 .. n) |-> AddReference(p[1], q, s[p[2]])]
           Result(g) == [z \in SUBSET (1 .. n) |->
                             IF z = {} THEN b
                             ELSE AddReference(g[z \ {Max(z)}], q, s[Max(z)])]
           it == CHOOSE g : g = Result(g)
<1>1. n \in Nat /\ s \in [1 .. n -> D]
  BY KeysInOrder
<1>2. DOMAIN s = 1 .. n
  BY <1>1
<1>3. AddReferences(b, q, D) = it[1 .. n]
  BY <1>2 DEF AddReferences, FoldLeft, MapThenFoldSet
<1> HIDE DEF s, n
<1>4. \A c \in S, k \in 1 .. n : AddReference(c, q, s[k]) \in S
  BY <1>1
<1>5. R \in [S \X (1 .. n) -> S] /\ \A c \in S, k \in 1 .. n : R[<<c, k>>] = AddReference(c, q, s[k])
  BY <1>4
<1> HIDE DEF R
<1>6. PICK g \in FoldResults(S, b, R, n) : TRUE
  <2>1. b \in S /\ n \in Nat /\ R \in [S \X (1 .. n) -> S]
    BY <1>1, <1>5
  <2>2. FoldResults(S, b, R, n) # {}
    BY ONLY <2>1, FoldIsDefined
  <2> QED BY <2>2
<1>7. \A z \in SUBSET (1 .. n) : z # {} => Max(z) \in 1 .. n /\ z \ {Max(z)} \in SUBSET (1 .. n)
  BY <1>1, MaxMember
<1>8. g = Result(g)
  BY <1>5, <1>6, <1>7 DEF FoldResults
<1>9. it = Result(it)
  <2> HIDE DEF Result
  <2> QED BY <1>8
<1> HIDE DEF it
<1>10. FoldsWith(S, b, R, n, it)
  BY <1>5, <1>7, <1>9 DEF FoldsWith
<1>11. PICK f \in TurnsTo(S, b, R, n, it[1 .. n]) : TRUE
  <2>1. b \in S /\ n \in Nat /\ R \in [S \X (1 .. n) -> S]
    BY <1>1, <1>5
  <2>2. TurnsTo(S, b, R, n, it[1 .. n]) # {}
    BY ONLY <2>1, <1>10, TurnsOfFold
  <2> QED BY <2>2
<1>12. n \in 0 .. n
  BY <1>1
<1> QED BY <1>3, <1>11, <1>12 DEF TurnsTo

(* What the update of each view keeps, the update of all keeps. *)
LEMMA UpdateViewsKeeps ==
    ASSUME NEW S, NEW b \in S, NEW views, IsFiniteSet(views),
           NEW order \in SetToSeqs(views), NEW suspects,
           \A c \in S, q \in views : UpdateTrackedLimboDocuments(c, q, suspects[q]) \in S
    PROVE  UpdateViews(b, order, suspects) \in S
<1> DEFINE s == order
           n == Cardinality(views)
           R == [p \in S \X (1 .. n) |-> UpdateTrackedLimboDocuments(p[1], s[p[2]], suspects[s[p[2]]])]
           Result(g) == [z \in SUBSET (1 .. n) |->
                             IF z = {} THEN b
                             ELSE UpdateTrackedLimboDocuments(g[z \ {Max(z)}], s[Max(z)], suspects[s[Max(z)]])]
           it == CHOOSE g : g = Result(g)
<1>1. n \in Nat /\ s \in [1 .. n -> views]
  BY ViewsInOrder
<1>2. DOMAIN s = 1 .. n
  BY <1>1
<1>3. UpdateViews(b, order, suspects) = it[1 .. n]
  BY <1>2 DEF UpdateViews, FoldLeft, MapThenFoldSet
<1> HIDE DEF s, n
<1>4. \A c \in S, k \in 1 .. n : UpdateTrackedLimboDocuments(c, s[k], suspects[s[k]]) \in S
  BY <1>1
<1>5. R \in [S \X (1 .. n) -> S] /\ \A c \in S, k \in 1 .. n : R[<<c, k>>] = UpdateTrackedLimboDocuments(c, s[k], suspects[s[k]])
  BY <1>4
<1> HIDE DEF R
<1>6. PICK g \in FoldResults(S, b, R, n) : TRUE
  <2>1. b \in S /\ n \in Nat /\ R \in [S \X (1 .. n) -> S]
    BY <1>1, <1>5
  <2>2. FoldResults(S, b, R, n) # {}
    BY ONLY <2>1, FoldIsDefined
  <2> QED BY <2>2
<1>7. \A z \in SUBSET (1 .. n) : z # {} => Max(z) \in 1 .. n /\ z \ {Max(z)} \in SUBSET (1 .. n)
  BY <1>1, MaxMember
<1>8. g = Result(g)
  BY <1>5, <1>6, <1>7 DEF FoldResults
<1>9. it = Result(it)
  <2> HIDE DEF Result
  <2> QED BY <1>8
<1> HIDE DEF it
<1>10. FoldsWith(S, b, R, n, it)
  BY <1>5, <1>7, <1>9 DEF FoldsWith
<1>11. PICK f \in TurnsTo(S, b, R, n, it[1 .. n]) : TRUE
  <2>1. b \in S /\ n \in Nat /\ R \in [S \X (1 .. n) -> S]
    BY <1>1, <1>5
  <2>2. TurnsTo(S, b, R, n, it[1 .. n]) # {}
    BY ONLY <2>1, <1>10, TurnsOfFold
  <2> QED BY <2>2
<1>12. n \in 0 .. n
  BY <1>1
<1> QED BY <1>3, <1>11, <1>12 DEF TurnsTo

-----------------------------------------------------------------------------
(* The books, and one turn of the loop that starts lookups *)

LimboSet == [Queries -> SUBSET Docs]
ByKeySet == UNION {[D -> Nat] : D \in SUBSET Docs}
LookupsSet == UNION {[T -> Docs] : T \in SUBSET Nat}

BookSet == [limbo : LimboSet, queued : Seq(Docs), byKey : ByKeySet, lookups : LookupsSet]

SoundBooks == {b \in BookSet : Agreeing(b)}

GoodBooks == {b \in SoundBooks : Settled(b)}

PursuedIn(b) == DOMAIN b.byKey \cup Range(b.queued)

(* What a book is made of. *)
LEMMA BookParts ==
    ASSUME NEW b \in BookSet
    PROVE  b.limbo \in LimboSet /\ b.queued \in Seq(Docs) /\ MapsOf(b)
<1>1. PICK D \in SUBSET Docs : b.byKey \in [D -> Nat]
  BY DEF BookSet, ByKeySet
<1>2. PICK T \in SUBSET Nat : b.lookups \in [T -> Docs]
  BY DEF BookSet, LookupsSet
<1>3. MapsOf(b)
  BY <1>1, <1>2 DEF MapsOf
<1> QED BY <1>3 DEF BookSet

(* Four parts of the right kind make a book. *)
LEMMA PartsMakeBook ==
    ASSUME NEW lim \in LimboSet, NEW que \in Seq(Docs), NEW byk, NEW lks,
           MapsOf([limbo |-> lim, queued |-> que, byKey |-> byk, lookups |-> lks])
    PROVE  /\ byk \in ByKeySet
           /\ lks \in LookupsSet
           /\ [limbo |-> lim, queued |-> que, byKey |-> byk, lookups |-> lks] \in BookSet
<1>1. byk \in [DOMAIN byk -> Nat] /\ DOMAIN byk \in SUBSET Docs
  BY DEF MapsOf
<1>2. lks \in [DOMAIN lks -> Docs] /\ DOMAIN lks \in SUBSET Nat
  BY DEF MapsOf
<1>3. byk \in ByKeySet
  BY <1>1 DEF ByKeySet
<1>4. lks \in LookupsSet
  BY <1>2 DEF LookupsSet
<1> QED BY <1>3, <1>4 DEF BookSet

(* Books with other parts: with other views, *)
LEMMA BooksWithLimbo ==
    ASSUME NEW b \in BookSet, NEW lim
    PROVE  [b EXCEPT !.limbo = lim] =
               [limbo |-> lim, queued |-> b.queued, byKey |-> b.byKey, lookups |-> b.lookups]
BY DEF BookSet

(* with another queue, *)
LEMMA BooksWithQueue ==
    ASSUME NEW b \in BookSet, NEW que
    PROVE  [b EXCEPT !.queued = que] =
               [limbo |-> b.limbo, queued |-> que, byKey |-> b.byKey, lookups |-> b.lookups]
BY DEF BookSet

(* with other maps, *)
LEMMA BooksWithLookups ==
    ASSUME NEW b \in BookSet, NEW lks
    PROVE  [b EXCEPT !.lookups = lks] =
               [limbo |-> b.limbo, queued |-> b.queued, byKey |-> b.byKey, lookups |-> lks]
BY DEF BookSet

LEMMA BooksWithMaps ==
    ASSUME NEW b \in BookSet, NEW byk \in ByKeySet, NEW lks
    PROVE  [b EXCEPT !.byKey = byk, !.lookups = lks] =
               [limbo |-> b.limbo, queued |-> b.queued, byKey |-> byk, lookups |-> lks]
<1> DEFINE c == [b EXCEPT !.byKey = byk]
<1>1. c \in BookSet /\ c.limbo = b.limbo /\ c.queued = b.queued /\ c.byKey = byk
  BY DEF BookSet
<1> HIDE DEF c
<1>2. [c EXCEPT !.lookups = lks] =
          [limbo |-> c.limbo, queued |-> c.queued, byKey |-> c.byKey, lookups |-> lks]
  BY ONLY <1>1, BooksWithLookups
<1>3. [c EXCEPT !.lookups = lks] =
          [limbo |-> b.limbo, queued |-> b.queued, byKey |-> byk, lookups |-> lks]
  BY <1>1, <1>2
<1> QED BY <1>3 DEF c

(* with another queue and other maps. *)
WithQueueAndMaps(b, que, byk, lks) ==
    [b EXCEPT !.queued = que, !.byKey = byk, !.lookups = lks]

LEMMA BooksWithQueueAndMaps ==
    ASSUME NEW b \in BookSet, NEW que \in Seq(Docs), NEW byk \in ByKeySet, NEW lks
    PROVE  WithQueueAndMaps(b, que, byk, lks) =
               [limbo |-> b.limbo, queued |-> que, byKey |-> byk, lookups |-> lks]
<1> DEFINE c == [b EXCEPT !.queued = que]
<1>1. c \in BookSet /\ c.limbo = b.limbo /\ c.queued = que
  BY DEF BookSet
<1> HIDE DEF c
<1>2. [c EXCEPT !.byKey = byk, !.lookups = lks] =
          [limbo |-> c.limbo, queued |-> c.queued, byKey |-> byk, lookups |-> lks]
  BY ONLY <1>1, byk \in ByKeySet, BooksWithMaps
<1>3. [c EXCEPT !.byKey = byk, !.lookups = lks] =
          [limbo |-> b.limbo, queued |-> que, byKey |-> byk, lookups |-> lks]
  BY <1>1, <1>2
<1> QED BY <1>3 DEF c, WithQueueAndMaps

(* The id of a new lookup is that of no other. *)
LEMMA NextIdIsNew ==
    ASSUME NEW b, IsFiniteSet(DOMAIN b.lookups)
    PROVE  NextId(b) \in Nat /\ NextId(b) \notin DOMAIN b.lookups
<1> DEFINE n == Cardinality(DOMAIN b.lookups)
<1>1. n \in Nat
  BY FS_CardinalityType
<1> HIDE DEF n
<1>2. Cardinality(1 .. n + 1) = n + 1
  <2>1. 1 \in Int /\ n + 1 \in Int /\ ~(1 > n + 1) /\ (n + 1) - 1 + 1 = n + 1
    BY <1>1
  <2> QED BY <2>1, FS_Interval
<1>3. ~(1 .. n + 1 \subseteq DOMAIN b.lookups)
  <2> SUFFICES ASSUME 1 .. n + 1 \in SUBSET DOMAIN b.lookups PROVE FALSE
    OBVIOUS
  <2>1. Cardinality(1 .. n + 1) <= n
    BY FS_Subset DEF n
  <2> QED BY <2>1, <1>1, <1>2
<1>4. NextId(b) \in 1 .. n + 1 /\ NextId(b) \notin DOMAIN b.lookups
  BY <1>3 DEF NextId, n
<1> QED BY <1>1, <1>4

(* The range of a queue without its head, and with one more at the end. *)
LEMMA RangeOfTail ==
    ASSUME NEW s \in Seq(Docs), s # <<>>
    PROVE  Range(s) \subseteq {Head(s)} \cup Range(Tail(s))
<1> SUFFICES ASSUME NEW i \in 1 .. Len(s), i # 1
             PROVE  \E j \in DOMAIN Tail(s) : Tail(s)[j] = s[i]
  BY DEF Range
<1>1. Len(s) \in Nat /\ Len(Tail(s)) = Len(s) - 1 /\ DOMAIN Tail(s) = 1 .. Len(Tail(s))
  OBVIOUS
<1>2. i - 1 \in 1 .. Len(Tail(s)) /\ (i - 1) + 1 = i
  BY <1>1
<1>3. Tail(s)[i - 1] = s[(i - 1) + 1]
  BY <1>2
<1> QED BY <1>1, <1>2, <1>3

LEMMA RangeOfAppend ==
    ASSUME NEW s \in Seq(Docs), NEW d \in Docs
    PROVE  /\ Append(s, d) \in Seq(Docs)
           /\ Append(s, d) # <<>>
           /\ Range(s) \cup {d} \subseteq Range(Append(s, d))
<1>1. /\ Append(s, d) \in Seq(Docs) /\ Len(Append(s, d)) = Len(s) + 1
      /\ \A i \in 1 .. Len(s) : Append(s, d)[i] = s[i]
      /\ Append(s, d)[Len(s) + 1] = d
  OBVIOUS
<1>2. /\ Len(s) \in Nat /\ DOMAIN s = 1 .. Len(s)
      /\ DOMAIN Append(s, d) = 1 .. Len(s) + 1
  BY <1>1
<1>3. \A i \in 1 .. Len(s) : i \in 1 .. Len(s) + 1
  BY <1>2
<1>4. Len(s) + 1 \in 1 .. Len(s) + 1
  BY <1>2
<1>5. \A x \in Range(s) : x \in Range(Append(s, d))
  BY <1>1, <1>2, <1>3 DEF Range
<1>6. d \in Range(Append(s, d))
  BY <1>1, <1>2, <1>4 DEF Range
<1>7. Append(s, d) # <<>>
  <2>1. 1 \in DOMAIN Append(s, d) /\ 1 \notin DOMAIN <<>>
    BY <1>2
  <2> QED BY <2>1
<1> QED BY <1>1, <1>5, <1>6, <1>7

(* One turn keeps the books sound and the documents pursued, and the views as   *)
(* they are.                                                                  *)
LEMMA StartNextKeeps ==
    ASSUME LimboAssumption, NEW b \in SoundBooks
    PROVE  /\ StartNext(b) \in SoundBooks
           /\ StartNext(b).limbo = b.limbo
           /\ PursuedIn(b) \subseteq PursuedIn(StartNext(b))
<1> DEFINE h == Head(b.queued)
           t == NextId(b)
           byk == Emplaced(b.byKey, h, t)
           lks == Emplaced(b.lookups, t, h)
           c == [limbo |-> b.limbo, queued |-> Tail(b.queued), byKey |-> byk, lookups |-> lks]
<1>1. b \in BookSet /\ Agreeing(b)
  BY DEF SoundBooks
<1>2. b.limbo \in LimboSet /\ b.queued \in Seq(Docs) /\ MapsOf(b)
  BY <1>1, BookParts
<1>3. CASE ~(b.queued # <<>> /\ HasPlace(b))
  BY <1>3 DEF StartNext
<1> SUFFICES ASSUME b.queued # <<>>, HasPlace(b)
             PROVE  /\ StartNext(b) \in SoundBooks
                    /\ StartNext(b).limbo = b.limbo
                    /\ PursuedIn(b) \subseteq PursuedIn(StartNext(b))
  BY <1>3
<1>4. /\ h \in Docs /\ Tail(b.queued) \in Seq(Docs)
      /\ t \in Nat /\ t \notin DOMAIN b.lookups
  BY <1>1, <1>2, NextIdIsNew DEF Agreeing
<1>5. StartNext(b) = WithQueueAndMaps(b, Tail(b.queued), byk, lks)
  BY DEF StartNext, WithQueueAndMaps
<1> HIDE DEF h, t
<1>6. /\ byk = [d \in DOMAIN b.byKey \cup {h} |-> IF d \in DOMAIN b.byKey THEN b.byKey[d] ELSE t]
      /\ lks = [u \in DOMAIN b.lookups \cup {t} |-> IF u \in DOMAIN b.lookups THEN b.lookups[u] ELSE h]
  BY DEF Emplaced
<1> HIDE DEF byk, lks
<1>7. c \in BookSet /\ StartNext(b) = c
  <2>1. MapsOf(c)
    BY <1>2, <1>4, <1>6 DEF MapsOf
  <2>2. byk \in ByKeySet /\ c \in BookSet
    BY <1>2, <1>4, <2>1, PartsMakeBook
  <2>3. b \in BookSet /\ Tail(b.queued) \in Seq(Docs) /\ byk \in ByKeySet
    BY <1>1, <1>4, <2>2
  <2>4. WithQueueAndMaps(b, Tail(b.queued), byk, lks) = c
    BY ONLY <2>3, BooksWithQueueAndMaps
  <2> QED BY <1>5, <2>2, <2>4
<1>8. IsFiniteSet(DOMAIN lks)
  <2>1. DOMAIN lks = DOMAIN b.lookups \cup {t}
    BY <1>6
  <2> QED BY <2>1, <1>1, FS_AddElement DEF Agreeing
<1>9. \A d \in DOMAIN byk : byk[d] \in DOMAIN lks /\ lks[byk[d]] = d
  BY <1>1, <1>4, <1>6 DEF Agreeing
<1>10. Cardinality(DOMAIN byk) <= MaxConcurrent
  <2>1. DOMAIN byk = DOMAIN b.byKey \cup {h}
    BY <1>6
  <2>2. IsFiniteSet(DOMAIN b.byKey)
    BY <1>2, FS_Subset DEF MapsOf, LimboAssumption
  <2>3. /\ Cardinality(DOMAIN b.byKey) \in Nat
        /\ Cardinality(DOMAIN b.byKey \cup {h}) =
               IF h \in DOMAIN b.byKey THEN Cardinality(DOMAIN b.byKey)
               ELSE Cardinality(DOMAIN b.byKey) + 1
    BY <2>2, FS_CardinalityType, FS_AddElement
  <2>4. Cardinality(DOMAIN b.byKey) < MaxConcurrent /\ MaxConcurrent \in Nat
    BY DEF HasPlace, LimboAssumption
  <2>5. Cardinality(DOMAIN byk) = Cardinality(DOMAIN b.byKey \cup {h})
    BY <2>1
  <2> QED BY <2>3, <2>4, <2>5
<1>11. Agreeing(c)
  BY <1>8, <1>9, <1>10 DEF Agreeing
<1>12. PursuedIn(b) \subseteq PursuedIn(c)
  <2>1. Range(b.queued) \subseteq {h} \cup Range(Tail(b.queued))
    BY <1>2, RangeOfTail DEF h
  <2>2. DOMAIN byk = DOMAIN b.byKey \cup {h}
    BY <1>6
  <2> QED BY <2>1, <2>2 DEF PursuedIn
<1>13. c.limbo = b.limbo
  OBVIOUS
<1> HIDE DEF c
<1> QED BY <1>7, <1>11, <1>12, <1>13 DEF SoundBooks

(* The loop keeps them too, and ends when nobody waits or no place is left. *)
LEMMA PumpKeeps ==
    ASSUME LimboAssumption, NEW b \in SoundBooks
    PROVE  LET c == PumpEnqueuedLimboResolutions(b)
           IN  /\ c \in GoodBooks
               /\ c.limbo = b.limbo
               /\ PursuedIn(b) \subseteq PursuedIn(c)
<1> DEFINE S == {c \in SoundBooks : c.limbo = b.limbo /\ PursuedIn(b) \subseteq PursuedIn(c)}
           n == Len(b.queued)
<1>1. b.queued \in Seq(Docs) /\ n \in Nat
  BY BookParts DEF SoundBooks
<1>2. b \in S /\ \A c \in S : StartNext(c) \in S
  BY StartNextKeeps
<1> HIDE DEF S
<1>3. PICK f \in [0 .. n -> S] :
          /\ f[0] = b
          /\ \A k \in 1 .. n : f[k] = StartNext(f[k - 1])
          /\ f[n] = PumpEnqueuedLimboResolutions(b)
  BY <1>1, <1>2, PumpTurns
<1>4. \A c \in S : c \in SoundBooks /\ c.queued \in Seq(Docs)
  BY BookParts DEF S, SoundBooks
<1> DEFINE T == {k \in Nat : k <= n => Settled(f[k]) \/ Len(f[k].queued) = n - k}
<1>5. 0 \in T
  BY <1>1, <1>3
<1>6. ASSUME NEW k \in Nat, k \in T
      PROVE  k + 1 \in T
  <2> SUFFICES ASSUME k + 1 <= n
               PROVE  Settled(f[k + 1]) \/ Len(f[k + 1].queued) = n - (k + 1)
    OBVIOUS
  <2>1. k \in 0 .. n /\ k + 1 \in 1 .. n /\ (k + 1) - 1 = k
    BY <1>1
  <2>2. f[k + 1] = StartNext(f[k]) /\ f[k] \in S
    BY <1>3, <2>1
  <2>3. CASE Settled(f[k])
    BY <2>2, <2>3 DEF Settled, StartNext
  <2>4. CASE ~Settled(f[k])
    <3>1. f[k].queued \in Seq(Docs) /\ f[k].queued # <<>> /\ Len(f[k].queued) = n - k
      BY <1>4, <1>6, <2>1, <2>2, <2>4 DEF Settled
    <3>2. f[k + 1].queued = Tail(f[k].queued)
      <4>1. f[k] \in BookSet
        BY <1>4, <2>2 DEF SoundBooks
      <4> QED BY <2>2, <2>4, <4>1 DEF BookSet, Settled, StartNext
    <3>3. Len(Tail(f[k].queued)) = Len(f[k].queued) - 1
      BY <3>1
    <3> QED BY <3>1, <3>2, <3>3, <1>1
  <2> QED BY <2>3, <2>4
<1>7. n \in T
  <2> HIDE DEF T, n
  <2> QED BY <1>1, <1>5, <1>6, Induct
<1>8. Settled(f[n])
  <2>1. Settled(f[n]) \/ Len(f[n].queued) = 0
    BY <1>1, <1>7
  <2>2. f[n].queued \in Seq(Docs)
    BY <1>1, <1>3, <1>4
  <2> QED BY <2>1, <2>2 DEF Settled
<1>9. f[n] \in S
  BY <1>1, <1>3
<1> QED BY <1>3, <1>8, <1>9 DEF S, GoodBooks

-----------------------------------------------------------------------------
(* The calls of one task *)

(* The lookup that is over is forgotten, and its document alone may be no       *)
(* longer pursued.                                                            *)
LEMMA FreedKeeps ==
    ASSUME LimboAssumption, NEW b \in SoundBooks, NEW t \in DOMAIN b.lookups
    PROVE  /\ Freed(b, t) \in GoodBooks
           /\ Freed(b, t).limbo = b.limbo
           /\ PursuedIn(b) \ {b.lookups[t]} \subseteq PursuedIn(Freed(b, t))
<1> DEFINE e == b.lookups[t]
           byk == Without(b.byKey, e)
           lks == Without(b.lookups, t)
           c == [limbo |-> b.limbo, queued |-> b.queued, byKey |-> byk, lookups |-> lks]
<1>1. b \in BookSet /\ Agreeing(b)
  BY DEF SoundBooks
<1>2. b.limbo \in LimboSet /\ b.queued \in Seq(Docs) /\ MapsOf(b)
  BY <1>1, BookParts
<1>3. Freed(b, t) = PumpEnqueuedLimboResolutions([b EXCEPT !.byKey = byk, !.lookups = lks])
  BY DEF Freed
<1> HIDE DEF e
<1>4. /\ byk = [d \in DOMAIN b.byKey \ {e} |-> b.byKey[d]]
      /\ lks = [u \in DOMAIN b.lookups \ {t} |-> b.lookups[u]]
  BY DEF Without
<1> HIDE DEF byk, lks
<1>5. MapsOf(c)
  BY <1>2, <1>4 DEF MapsOf
<1>6. c \in BookSet /\ byk \in ByKeySet
  BY <1>2, <1>5, PartsMakeBook
<1>7. [b EXCEPT !.byKey = byk, !.lookups = lks] = c
  <2>1. b \in BookSet /\ b.queued \in Seq(Docs) /\ byk \in ByKeySet
    BY <1>1, <1>2, <1>6
  <2> QED BY ONLY <2>1, BooksWithMaps
<1>8. IsFiniteSet(DOMAIN lks)
  <2>1. DOMAIN lks = DOMAIN b.lookups \ {t}
    BY <1>4
  <2> QED BY <2>1, <1>1, FS_RemoveElement DEF Agreeing
<1>9. \A d \in DOMAIN byk : byk[d] \in DOMAIN lks /\ lks[byk[d]] = d
  <2> SUFFICES ASSUME NEW d \in DOMAIN byk PROVE byk[d] \in DOMAIN lks /\ lks[byk[d]] = d
    OBVIOUS
  <2>1. d \in DOMAIN b.byKey /\ d # e /\ byk[d] = b.byKey[d]
    BY <1>4
  <2>2. b.byKey[d] \in DOMAIN b.lookups /\ b.lookups[b.byKey[d]] = d
    BY <2>1, <1>1 DEF Agreeing
  <2>3. b.byKey[d] # t
    BY <2>1, <2>2 DEF e
  <2> QED BY <2>1, <2>2, <2>3, <1>4
<1>10. Cardinality(DOMAIN byk) <= MaxConcurrent
  <2>1. DOMAIN byk \in SUBSET DOMAIN b.byKey
    BY <1>4
  <2>2. IsFiniteSet(DOMAIN b.byKey)
    BY <1>2, FS_Subset DEF MapsOf, LimboAssumption
  <2>3. /\ Cardinality(DOMAIN b.byKey) \in Nat /\ IsFiniteSet(DOMAIN byk)
        /\ Cardinality(DOMAIN byk) <= Cardinality(DOMAIN b.byKey)
    BY <2>1, <2>2, FS_CardinalityType, FS_Subset
  <2>4. Cardinality(DOMAIN byk) \in Nat
    BY <2>3, FS_CardinalityType
  <2>5. Cardinality(DOMAIN b.byKey) <= MaxConcurrent /\ MaxConcurrent \in Nat
    BY <1>1 DEF Agreeing, LimboAssumption
  <2> QED BY <2>3, <2>4, <2>5
<1>11. c \in SoundBooks
  BY <1>6, <1>8, <1>9, <1>10 DEF SoundBooks, Agreeing
<1>12. PursuedIn(b) \ {e} \subseteq PursuedIn(c)
  BY <1>4 DEF PursuedIn
<1>13. c.limbo = b.limbo
  OBVIOUS
<1> HIDE DEF c
<1> QED BY <1>3, <1>7, <1>11, <1>12, <1>13, PumpKeeps DEF e

(* A document that is looked up is so no longer. *)
LEMMA RemoveLimboTargetKeeps ==
    ASSUME LimboAssumption, NEW b \in GoodBooks, NEW d
    PROVE  /\ RemoveLimboTarget(b, d) \in GoodBooks
           /\ RemoveLimboTarget(b, d).limbo = b.limbo
           /\ PursuedIn(b) \ {d} \subseteq PursuedIn(RemoveLimboTarget(b, d))
<1>1. b \in SoundBooks
  BY DEF GoodBooks
<1>2. CASE d \in DOMAIN b.byKey
  <2>1. b.byKey[d] \in DOMAIN b.lookups /\ b.lookups[b.byKey[d]] = d
    BY <1>1, <1>2 DEF SoundBooks, Agreeing
  <2>2. RemoveLimboTarget(b, d) = Freed(b, b.byKey[d])
    BY <1>2 DEF RemoveLimboTarget
  <2> QED BY <1>1, <2>1, <2>2, FreedKeeps
<1>3. CASE d \notin DOMAIN b.byKey
  BY <1>3 DEF RemoveLimboTarget
<1> QED BY <1>2, <1>3

(* A document that comes into limbo is looked up or waits for that. *)
LEMMA TrackLimboChangeKeeps ==
    ASSUME LimboAssumption, NEW b \in GoodBooks, NEW d \in Docs
    PROVE  /\ TrackLimboChange(b, d) \in GoodBooks
           /\ TrackLimboChange(b, d).limbo = b.limbo
           /\ PursuedIn(b) \cup {d} \subseteq PursuedIn(TrackLimboChange(b, d))
<1>1. b \in SoundBooks /\ b \in BookSet
  BY DEF GoodBooks, SoundBooks
<1>2. CASE d \in DOMAIN b.byKey
  BY <1>2 DEF TrackLimboChange, PursuedIn
<1>3. CASE d \notin DOMAIN b.byKey
  <2> DEFINE c == [limbo |-> b.limbo, queued |-> Append(b.queued, d),
                   byKey |-> b.byKey, lookups |-> b.lookups]
  <2>1. b.limbo \in LimboSet /\ b.queued \in Seq(Docs) /\ MapsOf(b)
    BY <1>1, BookParts
  <2>2. /\ Append(b.queued, d) \in Seq(Docs)
        /\ Range(b.queued) \cup {d} \subseteq Range(Append(b.queued, d))
    BY <2>1, RangeOfAppend
  <2>3. TrackLimboChange(b, d) = PumpEnqueuedLimboResolutions(c)
    <3>1. [b EXCEPT !.queued = Append(@, d)] = c
      BY <1>1, BooksWithQueue
    <3> HIDE DEF c
    <3> QED BY <1>3, <3>1 DEF TrackLimboChange
  <2>4. MapsOf(c)
    BY <2>1 DEF MapsOf
  <2>5. c \in BookSet
    BY <2>1, <2>2, <2>4, PartsMakeBook
  <2>6. Agreeing(c)
    BY <1>1 DEF Agreeing, SoundBooks
  <2>7. c \in SoundBooks
    BY <2>5, <2>6 DEF SoundBooks
  <2>8. PursuedIn(b) \cup {d} \subseteq PursuedIn(c)
    BY <2>2 DEF PursuedIn
  <2>9. c.limbo = b.limbo
    OBVIOUS
  <2> HIDE DEF c
  <2> QED BY <2>3, <2>7, <2>8, <2>9, PumpKeeps
<1> QED BY <1>2, <1>3

(* The views of the books may change as they please. *)
LEMMA OtherViews ==
    ASSUME NEW b \in GoodBooks, NEW lim \in LimboSet
    PROVE  /\ [b EXCEPT !.limbo = lim] \in GoodBooks
           /\ [b EXCEPT !.limbo = lim].limbo = lim
           /\ PursuedIn([b EXCEPT !.limbo = lim]) = PursuedIn(b)
<1> DEFINE c == [limbo |-> lim, queued |-> b.queued, byKey |-> b.byKey, lookups |-> b.lookups]
<1>1. b \in BookSet /\ Agreeing(b) /\ Settled(b)
  BY DEF GoodBooks, SoundBooks
<1>2. b.queued \in Seq(Docs) /\ b.byKey \in ByKeySet /\ MapsOf(b)
  BY <1>1, BookParts DEF BookSet
<1>3. [b EXCEPT !.limbo = lim] = c
  BY <1>1, BooksWithLimbo
<1>4. MapsOf(c)
  BY <1>2 DEF MapsOf
<1>5. c \in BookSet
  BY <1>2, <1>4, PartsMakeBook
<1>6. Agreeing(c) /\ Settled(c)
  BY <1>1 DEF Agreeing, Settled, HasPlace
<1>7. PursuedIn(c) = PursuedIn(b) /\ c.limbo = lim
  BY DEF PursuedIn
<1> HIDE DEF c
<1> QED BY <1>3, <1>5, <1>6, <1>7 DEF GoodBooks, SoundBooks

InLimboOf(b, d) == \E q \in Queries : d \in b.limbo[q]

(* A view has one more document in limbo: it is pursued, and what was pursued   *)
(* still is.                                                                  *)
LEMMA AddReferenceKeeps ==
    ASSUME LimboAssumption, NEW b \in GoodBooks, NEW q \in Queries, NEW d \in Docs
    PROVE  LET c == AddReference(b, q, d)
           IN  /\ c \in GoodBooks
               /\ PursuedIn(b) \cup {d} \subseteq PursuedIn(c)
               /\ \A e \in Docs : InLimboOf(c, e) => e = d \/ InLimboOf(b, e)
<1> DEFINE lim == [b.limbo EXCEPT ![q] = @ \cup {d}]
           a == [b EXCEPT !.limbo = lim]
           c == AddReference(b, q, d)
<1>1. b.limbo \in LimboSet
  BY BookParts DEF GoodBooks, SoundBooks
<1>2. lim \in LimboSet
  BY <1>1 DEF LimboSet
<1>3. \A e \in Docs : (\E p \in Queries : e \in lim[p]) => e = d \/ InLimboOf(b, e)
  BY <1>1 DEF LimboSet, InLimboOf
<1>4. c = TrackLimboChange(a, d)
  BY DEF AddReference
<1> HIDE DEF lim, c
<1>5. a \in GoodBooks /\ a.limbo = lim /\ PursuedIn(a) = PursuedIn(b)
  BY <1>2, OtherViews
<1> HIDE DEF a
<1>6. c \in GoodBooks /\ c.limbo = lim /\ PursuedIn(b) \cup {d} \subseteq PursuedIn(c)
  BY <1>4, <1>5, TrackLimboChangeKeeps
<1> QED BY <1>3, <1>6 DEF c, InLimboOf

(* A view has a document in limbo no longer: it is still pursued if another     *)
(* view has it.                                                               *)
LEMMA RemoveReferenceKeeps ==
    ASSUME LimboAssumption, NEW b \in GoodBooks, NEW q \in Queries, NEW d \in Docs
    PROVE  LET c == RemoveReference(b, q, d)
           IN  /\ c \in GoodBooks
               /\ PursuedIn(b) \ {d} \subseteq PursuedIn(c)
               /\ \A e \in Docs : InLimboOf(c, e) => InLimboOf(b, e)
               /\ InLimboOf(c, d) /\ d \in PursuedIn(b) => d \in PursuedIn(c)
<1> DEFINE lim == [b.limbo EXCEPT ![q] = @ \ {d}]
           a == [b EXCEPT !.limbo = lim]
           c == RemoveReference(b, q, d)
<1>1. b.limbo \in LimboSet
  BY BookParts DEF GoodBooks, SoundBooks
<1>2. lim \in LimboSet
  BY <1>1 DEF LimboSet
<1>3. \A e \in Docs : (\E p \in Queries : e \in lim[p]) => InLimboOf(b, e)
  BY <1>1 DEF LimboSet, InLimboOf
<1>4. c = IF \E p \in Queries : d \in a.limbo[p] THEN a ELSE RemoveLimboTarget(a, d)
  BY DEF RemoveReference
<1> HIDE DEF lim, c
<1>5. a \in GoodBooks /\ a.limbo = lim /\ PursuedIn(a) = PursuedIn(b)
  BY <1>2, OtherViews
<1> HIDE DEF a
<1>6. CASE \E p \in Queries : d \in a.limbo[p]
  <2>1. c = a
    BY <1>4, <1>6
  <2> QED BY <2>1, <1>3, <1>5 DEF c, InLimboOf
<1>7. CASE ~\E p \in Queries : d \in a.limbo[p]
  <2>1. c = RemoveLimboTarget(a, d)
    BY <1>4, <1>7
  <2>2. c \in GoodBooks /\ c.limbo = lim /\ PursuedIn(b) \ {d} \subseteq PursuedIn(c)
    BY <2>1, <1>5, RemoveLimboTargetKeeps
  <2>3. ~InLimboOf(c, d)
    BY <2>2, <1>5, <1>7 DEF InLimboOf
  <2> QED BY <2>2, <2>3, <1>3 DEF c, InLimboOf
<1> QED BY <1>6, <1>7

(* Books that come, call by call, from the books b without that a document that  *)
(* comes into limbo, or that b pursues, is forgotten.                          *)
Followers(b, d) ==
    {c \in GoodBooks :
        InLimboOf(c, d) => d \in PursuedIn(c) \/ (InLimboOf(b, d) /\ d \notin PursuedIn(b))}

\* What the calls for one reference keep, the update of a view keeps.
ClosedUnderCalls(S) ==
    /\ S \subseteq GoodBooks
    /\ \A c \in S, q \in Queries, d \in Docs :
           AddReference(c, q, d) \in S /\ RemoveReference(c, q, d) \in S

LEMMA UpdateOfView ==
    ASSUME LimboAssumption, NEW S, ClosedUnderCalls(S),
           NEW b \in S, NEW q \in Queries, NEW D \in SUBSET Docs
    PROVE  UpdateTrackedLimboDocuments(b, q, D) \in S
<1> DEFINE left == b.limbo[q] \ D
           came == D \ b.limbo[q]
           c == RemoveReferences(b, q, left)
<1>1. b.limbo \in LimboSet
  BY BookParts DEF ClosedUnderCalls, GoodBooks, SoundBooks
<1>2. left \in SUBSET Docs /\ came \in SUBSET Docs
  BY <1>1 DEF LimboSet
<1>3. UpdateTrackedLimboDocuments(b, q, D) = AddReferences(c, q, came)
  BY DEF UpdateTrackedLimboDocuments
<1> HIDE DEF left, came, c
<1>4. \A s \in S, d \in left : RemoveReference(s, q, d) \in S
  BY <1>2 DEF ClosedUnderCalls
<1>5. c \in S
  BY <1>2, <1>4, RemoveReferencesKeep DEF c
<1>6. \A s \in S, d \in came : AddReference(s, q, d) \in S
  BY <1>2 DEF ClosedUnderCalls
<1>7. AddReferences(c, q, came) \in S
  BY <1>2, <1>5, <1>6, AddReferencesKeep
<1> QED BY <1>3, <1>7

LEMMA UpdateOfViews ==
    ASSUME LimboAssumption, NEW S, ClosedUnderCalls(S), NEW b \in S,
           NEW views \in SUBSET Queries, IsFiniteSet(views), NEW order \in SetToSeqs(views),
           NEW suspects \in [views -> SUBSET Docs]
    PROVE  UpdateViews(b, order, suspects) \in S
<1>1. \A c \in S, q \in views : UpdateTrackedLimboDocuments(c, q, suspects[q]) \in S
  BY UpdateOfView
<1> QED BY <1>1, UpdateViewsKeeps

(* Good books are closed under the calls, and so are those that follow a book.   *)
LEMMA GoodBooksClosed ==
    ASSUME LimboAssumption
    PROVE  ClosedUnderCalls(GoodBooks)
BY AddReferenceKeeps, RemoveReferenceKeeps DEF ClosedUnderCalls

LEMMA FollowersClosed ==
    ASSUME LimboAssumption, NEW b, NEW d \in Docs
    PROVE  ClosedUnderCalls(Followers(b, d))
<1> SUFFICES ASSUME NEW c \in Followers(b, d), NEW q \in Queries, NEW e \in Docs
             PROVE  /\ AddReference(c, q, e) \in Followers(b, d)
                    /\ RemoveReference(c, q, e) \in Followers(b, d)
  BY DEF ClosedUnderCalls, Followers
<1>1. c \in GoodBooks
  BY DEF Followers
<1>2. AddReference(c, q, e) \in Followers(b, d)
  BY <1>1, AddReferenceKeeps DEF Followers
<1>3. RemoveReference(c, q, e) \in Followers(b, d)
  BY <1>1, RemoveReferenceKeeps DEF Followers
<1> QED BY <1>2, <1>3

-----------------------------------------------------------------------------
(* The steps *)

LEMMA GoodBookIsGood ==
    ASSUME NEW lim, NEW que, NEW byk, NEW lks
    PROVE  LET b == [limbo |-> lim, queued |-> que, byKey |-> byk, lookups |-> lks]
           IN  GoodBook(b) <=> b \in GoodBooks
<1> DEFINE b == [limbo |-> lim, queued |-> que, byKey |-> byk, lookups |-> lks]
<1>1. ASSUME GoodBook(b) PROVE b \in GoodBooks
  <2>1. lim \in LimboSet /\ que \in Seq(Docs) /\ MapsOf(b) /\ Agreeing(b) /\ Settled(b)
    BY <1>1 DEF GoodBook, LimboSet
  <2>2. b \in BookSet
    BY <2>1, PartsMakeBook
  <2> HIDE DEF b
  <2> QED BY <2>1, <2>2 DEF GoodBooks, SoundBooks
<1>2. ASSUME b \in GoodBooks PROVE GoodBook(b)
  <2> HIDE DEF b
  <2>1. b \in BookSet /\ Agreeing(b) /\ Settled(b)
    BY <1>2 DEF GoodBooks, SoundBooks
  <2> QED BY <2>1, BookParts DEF GoodBook, LimboSet
<1> QED BY <1>1, <1>2

(* The next state has the books that the task ends with. *)
LEMMA BecomeBooks ==
    ASSUME NEW b \in GoodBooks, BooksBecome(b)
    PROVE  Books' = b
BY DEF GoodBooks, SoundBooks, BookSet, BooksBecome, Books

(* What the calls keep, and the end of a refused lookup, every step keeps. *)
LEMMA StepKeeps ==
    ASSUME LimboAssumption, ViewsInv, [Next]_vars,
           NEW S, ClosedUnderCalls(S), Books \in S,
           \A t \in DOMAIN lookups : HandleRejectedListen(t) => Freed(Books, t) \in S
    PROVE  Books' \in S
<1>1. \A b \in S : BooksBecome(b) => Books' \in S
  BY BecomeBooks DEF ClosedUnderCalls
<1>2. ASSUME limbo' = limbo, queued' = queued, byKey' = byKey, lookups' = lookups
      PROVE  Books' \in S
  BY <1>2 DEF Books
<1>3. ASSUME NEW q \in Queries, Listen(q)
      PROVE  Books' \in S
  BY <1>2, <1>3 DEF Listen
<1>4. ASSUME NEW q \in Queries, RemoveAndCleanupTarget(q)
      PROVE  Books' \in S
  <2>1. UpdateTrackedLimboDocuments(Books, q, {}) \in S
    BY UpdateOfView
  <2> QED BY <1>1, <1>4, <2>1 DEF RemoveAndCleanupTarget
<1>5. ASSUME EmitNewSnapshots
      PROVE  Books' \in S
  <2>1. PICK views \in SUBSET listening :
            \E suspects \in [views -> SUBSET Docs], order \in SetToSeqs(views) :
                BooksBecome(UpdateViews(Books, order, suspects))
    BY <1>5 DEF EmitNewSnapshots
  <2>2. views \in SUBSET Queries /\ IsFiniteSet(views)
    BY FS_Subset DEF ViewsInv
  <2>3. PICK suspects \in [views -> SUBSET Docs], order \in SetToSeqs(views) :
            BooksBecome(UpdateViews(Books, order, suspects))
    BY <2>1
  <2>4. UpdateViews(Books, order, suspects) \in S
    BY <2>2, UpdateOfViews
  <2> QED BY <1>1, <2>3, <2>4
<1>6. ASSUME NEW t \in DOMAIN lookups, HandleRejectedListen(t)
      PROVE  Books' \in S
  <2> DEFINE views == {q \in Queries : current[q]}
  <2>1. PICK suspects \in [views -> SUBSET (Docs \ {lookups[t]})], order \in SetToSeqs(views) :
            BooksBecome(UpdateViews(Freed(Books, t), order, suspects))
    BY <1>6 DEF HandleRejectedListen
  <2>2. views \in SUBSET Queries /\ IsFiniteSet(views)
    <3>1. views \in SUBSET listening
      BY DEF ViewsInv
    <3> HIDE DEF views
    <3> QED BY <3>1, FS_Subset DEF ViewsInv
  <2>3. suspects \in [views -> SUBSET Docs]
    OBVIOUS
  <2>4. Freed(Books, t) \in S
    BY <1>6
  <2> HIDE DEF views
  <2>5. UpdateViews(Freed(Books, t), order, suspects) \in S
    BY <2>2, <2>3, <2>4, UpdateOfViews
  <2> QED BY <1>1, <2>1, <2>5
<1>7. ASSUME HandleOnlineStateChange
      PROVE  Books' \in S
  BY <1>2, <1>7 DEF HandleOnlineStateChange
<1>8. ASSUME UNCHANGED vars
      PROVE  Books' \in S
  BY <1>2, <1>8 DEF vars
<1> QED BY <1>3, <1>4, <1>5, <1>6, <1>7, <1>8 DEF Next

(* The books of a state that satisfies the invariant are good, and stay good. *)
LEMMA BooksAreGood ==
    ASSUME BooksInv
    PROVE  Books \in GoodBooks
BY GoodBookIsGood DEF BooksInv, Books

LEMMA FreedBooks ==
    ASSUME LimboAssumption, BooksInv, NEW t \in DOMAIN lookups
    PROVE  /\ Freed(Books, t) \in GoodBooks
           /\ Freed(Books, t).limbo = limbo
           /\ PursuedIn(Books) \ {lookups[t]} \subseteq PursuedIn(Freed(Books, t))
<1>1. Books \in SoundBooks
  BY BooksAreGood DEF GoodBooks
<1>2. Books.limbo = limbo /\ Books.lookups = lookups
  BY DEF Books
<1> QED BY <1>1, <1>2, FreedKeeps

(* Initially nobody listens. *)
LEMMA InitOfLimbo ==
    ASSUME LimboAssumption, Init
    PROVE  IInv
<1>1. ViewsInv
  BY FS_EmptySet DEF Init, ViewsInv
<1>2. BooksInv
  <2>1. Books = [limbo |-> [q \in Queries |-> {}], queued |-> <<>>, byKey |-> <<>>, lookups |-> <<>>]
    BY DEF Books, Init
  <2>2. MapsOf(Books)
    BY <2>1 DEF MapsOf
  <2>3. Agreeing(Books)
    BY <2>1, FS_EmptySet DEF Agreeing, LimboAssumption
  <2>4. Settled(Books)
    BY <2>1 DEF Settled
  <2>5. Books.limbo \in [Queries -> SUBSET Docs] /\ Books.queued \in Seq(Docs)
    BY <2>1
  <2> QED BY <2>2, <2>3, <2>4, <2>5 DEF BooksInv, GoodBook
<1> QED BY <1>1, <1>2 DEF IInv

LEMMA ViewsStep ==
    ASSUME ViewsInv, [Next]_vars
    PROVE  ViewsInv'
<1>1. ASSUME NEW q \in Queries, Listen(q)
      PROVE  ViewsInv'
  BY <1>1, FS_AddElement DEF ViewsInv, Listen
<1>2. ASSUME NEW q \in Queries, RemoveAndCleanupTarget(q)
      PROVE  ViewsInv'
  <2>1. listening' = listening \ {q} /\ current' = [current EXCEPT ![q] = FALSE]
    BY <1>2 DEF RemoveAndCleanupTarget
  <2>2. IsFiniteSet(listening')
    BY <2>1, FS_RemoveElement DEF ViewsInv
  <2>3. current' \in [Queries -> BOOLEAN]
    BY <2>1 DEF ViewsInv
  <2>4. \A p \in Queries : current'[p] => p \in listening'
    BY <2>1 DEF ViewsInv
  <2> QED BY <2>1, <2>2, <2>3, <2>4 DEF ViewsInv
<1>3. ASSUME EmitNewSnapshots
      PROVE  ViewsInv'
  BY <1>3 DEF ViewsInv, EmitNewSnapshots
<1>4. ASSUME NEW t \in DOMAIN lookups, HandleRejectedListen(t)
      PROVE  ViewsInv'
  BY <1>4 DEF ViewsInv, HandleRejectedListen
<1>5. ASSUME HandleOnlineStateChange
      PROVE  ViewsInv'
  BY <1>5 DEF ViewsInv, HandleOnlineStateChange
<1>6. ASSUME UNCHANGED vars
      PROVE  ViewsInv'
  BY <1>6 DEF ViewsInv, vars
<1> QED BY <1>1, <1>2, <1>3, <1>4, <1>5, <1>6 DEF Next

LEMMA BooksStep ==
    ASSUME LimboAssumption, IInv, [Next]_vars
    PROVE  BooksInv'
<1>1. Books \in GoodBooks /\ ClosedUnderCalls(GoodBooks)
  BY BooksAreGood, GoodBooksClosed DEF IInv
<1>2. \A t \in DOMAIN lookups : HandleRejectedListen(t) => Freed(Books, t) \in GoodBooks
  BY FreedBooks DEF IInv
<1>3. Books' \in GoodBooks
  BY <1>1, <1>2, StepKeeps DEF IInv
<1> QED BY <1>3, GoodBookIsGood DEF BooksInv, Books

-----------------------------------------------------------------------------
(* The theorems *)

(* In every reachable state each document with a target has the lookup of that  *)
(* target, no more lookups are counted than there are places, nobody waits while  *)
(* there is a place, and a view that is current is one of those that listen.   *)
THEOREM LimboInvariant == Spec => []IInv
<1>1. Init => IInv
  BY LimboAssumption, InitOfLimbo
<1>2. IInv /\ [Next]_vars => IInv'
  BY LimboAssumption, ViewsStep, BooksStep DEF IInv
<1> QED BY <1>1, <1>2, PTL DEF Spec

(* The two maps of the sync engine agree and a place for a lookup is never left  *)
(* empty while a document waits for one, whatever the documents that leave limbo,  *)
(* the lookups that are refused and the queries that end in one task.          *)
THEOREM LookupsAlwaysAgree == Spec => []LookupsAgree
<1>1. ASSUME IInv PROVE LookupsAgree
  <2>1. GoodBook(Books) /\ ViewsInv
    BY <1>1 DEF IInv, BooksInv
  <2>2. TypeOK
    BY <2>1 DEF TypeOK, ViewsInv, GoodBook, MapsOf, Books
  <2>3. /\ \A d \in DOMAIN byKey : byKey[d] \in DOMAIN lookups /\ lookups[byKey[d]] = d
        /\ Cardinality(DOMAIN byKey) <= MaxConcurrent
        /\ queued # <<>> => ~(Cardinality(DOMAIN byKey) < MaxConcurrent)
    BY <2>1 DEF GoodBook, Agreeing, Settled, HasPlace, Books
  <2>4. Cardinality(DOMAIN byKey) \in Nat
    BY <2>2, LimboAssumption, FS_Subset, FS_CardinalityType DEF TypeOK, LimboAssumption
  <2>5. MaxConcurrent \in Nat
    BY LimboAssumption DEF LimboAssumption
  <2> QED BY <2>2, <2>3, <2>4, <2>5 DEF LookupsAgree
<1>2. Spec => []IInv
  BY LimboInvariant
<1> QED BY <1>1, <1>2, PTL

(* A step forgets no document in limbo: it is looked up or waits for that, as long *)
(* as any view has it in limbo, unless its own lookup is refused.               *)
LEMMA PursuitStep ==
    ASSUME LimboAssumption, IInv, [Next]_vars, NEW d \in Docs, InLimbo(d)'
    PROVE  \/ Pursued(d)'
           \/ InLimbo(d) /\ ~Pursued(d)
           \/ \E t \in DOMAIN lookups : lookups[t] = d /\ HandleRejectedListen(t)
<1> SUFFICES ASSUME \A t \in DOMAIN lookups : HandleRejectedListen(t) => lookups[t] # d
             PROVE  Pursued(d)' \/ (InLimbo(d) /\ ~Pursued(d))
  OBVIOUS
<1>1. /\ \A e : InLimboOf(Books, e) <=> InLimbo(e)
      /\ \A e : e \in PursuedIn(Books) <=> Pursued(e)
  BY DEF Books, InLimboOf, InLimbo, PursuedIn, Pursued
<1>2. Books \in Followers(Books, d)
  BY BooksAreGood DEF IInv, Followers
<1>3. ASSUME NEW t \in DOMAIN lookups, HandleRejectedListen(t)
      PROVE  Freed(Books, t) \in Followers(Books, d)
  <2>1. /\ Freed(Books, t) \in GoodBooks
        /\ Freed(Books, t).limbo = limbo
        /\ PursuedIn(Books) \ {lookups[t]} \subseteq PursuedIn(Freed(Books, t))
    BY FreedBooks DEF IInv
  <2>2. InLimboOf(Freed(Books, t), d) => InLimboOf(Books, d)
    BY <2>1 DEF InLimboOf, Books
  <2>3. lookups[t] # d
    BY <1>3
  <2> QED BY <2>1, <2>2, <2>3 DEF Followers
<1>4. Books' \in Followers(Books, d)
  BY <1>2, <1>3, FollowersClosed, StepKeeps DEF IInv
<1>5. InLimboOf(Books', d) /\ (d \in PursuedIn(Books') <=> Pursued(d)')
  BY DEF Books, InLimboOf, InLimbo, PursuedIn, Pursued
<1> QED BY <1>1, <1>4, <1>5 DEF Followers

(* No step of the client forgets a document in limbo, except the refusal of its   *)
(* own lookup.                                                                *)
THEOREM LimboStaysPursued == Spec => LimboIsPursued
<1>1. IInv /\ [Next]_vars =>
          \A d \in Docs :
              InLimbo(d)' =>
                  \/ Pursued(d)'
                  \/ InLimbo(d) /\ ~Pursued(d)
                  \/ \E t \in DOMAIN lookups : lookups[t] = d /\ HandleRejectedListen(t)
  BY LimboAssumption, PursuitStep
<1>2. Spec => []IInv
  BY LimboInvariant
<1> QED BY <1>1, <1>2, PTL DEF Spec, LimboIsPursued
=============================================================================
