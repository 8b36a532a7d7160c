-------------------------- MODULE WatchChangesProofs --------------------------
(* Proofs of the safety properties of WatchChanges for every set of targets   *)
(* and documents and every bound: the client counts the answers to come, and  *)
(* a view that is told it is current has what the backend had.                *)
EXTENDS WatchChanges, SequenceTheorems, FiniteSetTheorems, FunctionTheorems, TLAPS

-----------------------------------------------------------------------------
(* Counting requests and answers                                              *)

RequestsFor(t, s) == {i \in 1 .. Len(s) : s[i].target = t}
AnswersFor(t, s) == {i \in 1 .. Len(s) : s[i].kind \in {"added", "removed"} /\ s[i].target = t}

One(b) == IF b THEN 1 ELSE 0

(* When the front of a list leaves it, what is behind moves up by one.        *)
LEMMA CountBehind ==
    ASSUME NEW n \in Nat, NEW A \in SUBSET (1 .. n + 1), NEW B \in SUBSET (1 .. n),
           \A i \in 1 .. n : i \in B <=> i + 1 \in A
    PROVE  /\ Cardinality(A) \in Nat /\ Cardinality(B) \in Nat
           /\ Cardinality(A) = Cardinality(B) + One(1 \in A)
<1> DEFINE f == [i \in A \ {1} |-> i - 1]
<1>1. IsFiniteSet(1 .. n + 1) /\ IsFiniteSet(1 .. n)
    BY FS_Interval
<1>2. IsFiniteSet(A) /\ IsFiniteSet(B)
    BY <1>1, FS_Subset
<1>3. f \in Bijection(A \ {1}, B)
    <2>1. \A i \in A \ {1} : i - 1 \in 1 .. n /\ (i - 1) + 1 = i
        OBVIOUS
    <2>2. f \in [A \ {1} -> B]
        BY <2>1
    <2>3. \A i, j \in A \ {1} : i # j => f[i] # f[j]
        BY <2>1
    <2>4. ASSUME NEW k \in B
          PROVE  \E i \in A \ {1} : f[i] = k
        <3>1. k + 1 \in A \ {1} /\ (k + 1) - 1 = k
            OBVIOUS
        <3> QED BY <3>1
    <2> QED BY <2>2, <2>3, <2>4, Fun_IsBij
<1>4. IsFiniteSet(A \ {1}) /\ Cardinality(A \ {1}) = Cardinality(A) - One(1 \in A)
    BY <1>2, FS_RemoveElement, FS_CardinalityType DEF One
<1>5. Cardinality(B) = Cardinality(A \ {1})
    BY <1>3, <1>4, FS_Bijection DEF ExistsBijection
<1> QED BY <1>2, <1>4, <1>5, FS_CardinalityType DEF One

(* A list grown by one.                                                       *)
LEMMA CountBefore ==
    ASSUME NEW n \in Nat, NEW A \in SUBSET (1 .. n), NEW B \in SUBSET (1 .. n + 1),
           \A i \in 1 .. n : i \in B <=> i \in A
    PROVE  /\ Cardinality(A) \in Nat /\ Cardinality(B) \in Nat
           /\ Cardinality(B) = Cardinality(A) + One(n + 1 \in B)
<1>1. IsFiniteSet(1 .. n)
    BY FS_Interval
<1>2. IsFiniteSet(A)
    BY <1>1, FS_Subset
<1>3. Cardinality(A) \in Nat
    BY <1>2, FS_CardinalityType
<1>4. \A i : i \in B /\ i # n + 1 <=> i \in A
    <2>1. \A i \in 1 .. n + 1 : i \in 1 .. n \/ i = n + 1
        OBVIOUS
    <2>2. \A i \in 1 .. n : i # n + 1
        OBVIOUS
    <2>3. (\A i : i \in A => i \in 1 .. n) /\ (\A i : i \in B => i \in 1 .. n + 1)
        OBVIOUS
    <2> QED BY <2>1, <2>2, <2>3
<1>5. n + 1 \notin A
    OBVIOUS
<1>6. CASE n + 1 \in B
    <2>1. B = A \cup {n + 1} /\ n + 1 \notin A
        BY <1>6, <1>4, <1>5
    <2>2. Cardinality(A \cup {n + 1}) = Cardinality(A) + 1
        BY <1>2, <2>1, FS_AddElement
    <2> QED BY <1>3, <1>6, <2>1, <2>2 DEF One
<1>7. CASE n + 1 \notin B
    <2>1. B = A
        BY <1>7, <1>4
    <2> QED BY <1>3, <1>7, <2>1 DEF One
<1> QED BY <1>6, <1>7

(* The front of a list, and a list with another entry.                        *)
LEMMA FrontLeaves ==
    ASSUME NEW S, NEW s \in Seq(S), s # <<>>
    PROVE  /\ Head(s) = s[1] /\ s[1] \in S /\ 1 \in 1 .. Len(s) /\ Len(s) \in Nat
           /\ Tail(s) \in Seq(S) /\ Len(Tail(s)) \in Nat /\ Len(s) = Len(Tail(s)) + 1
           /\ \A i \in 1 .. Len(Tail(s)) :
                  /\ i + 1 \in 1 .. Len(s) /\ Tail(s)[i] = s[i + 1] /\ s[i + 1] \in S
<1>1. Len(s) \in Nat /\ Len(s) # 0
    BY LenProperties, EmptySeq
<1>2. /\ Head(s) \in S /\ Tail(s) \in Seq(S)
      /\ Len(Tail(s)) = Len(s) - 1
      /\ \A i \in 1 .. Len(Tail(s)) : Tail(s)[i] = s[i + 1]
    BY HeadTailProperties
<1>3. \A i \in 1 .. Len(s) : s[i] \in S
    BY ElementOfSeq
<1>4. Head(s) = s[1]
    OBVIOUS
<1> QED BY <1>1, <1>2, <1>3, <1>4

LEMMA EndGrows ==
    ASSUME NEW S, NEW s \in Seq(S), NEW x \in S
    PROVE  /\ Append(s, x) \in Seq(S) /\ Len(s) \in Nat /\ Len(Append(s, x)) = Len(s) + 1
           /\ \A i \in 1 .. Len(s) : i \in 1 .. Len(s) + 1 /\ Append(s, x)[i] = s[i]
           /\ Append(s, x)[Len(s) + 1] = x
<1>1. Len(s) \in Nat
    BY LenProperties
<1> QED BY <1>1, AppendProperties

(* How the numbers of requests and of answers change.                         *)
LEMMA NothingCounted ==
    ASSUME NEW t
    PROVE  Cardinality(RequestsFor(t, <<>>)) = 0 /\ Cardinality(AnswersFor(t, <<>>)) = 0
<1>1. RequestsFor(t, <<>>) = {} /\ AnswersFor(t, <<>>) = {}
    BY DEF RequestsFor, AnswersFor
<1> QED BY <1>1, FS_EmptySet

LEMMA CountsAreNumbers ==
    ASSUME NEW S, NEW s \in Seq(S), NEW t
    PROVE  Cardinality(RequestsFor(t, s)) \in Nat /\ Cardinality(AnswersFor(t, s)) \in Nat
<1>1. Len(s) \in Nat
    BY LenProperties
<1>2. RequestsFor(t, s) \in SUBSET (1 .. Len(s)) /\ AnswersFor(t, s) \in SUBSET (1 .. Len(s))
    BY DEF RequestsFor, AnswersFor
<1>3. IsFiniteSet(1 .. Len(s))
    BY <1>1, FS_Interval
<1>4. IsFiniteSet(RequestsFor(t, s)) /\ IsFiniteSet(AnswersFor(t, s))
    BY <1>2, <1>3, FS_Subset
<1> QED BY <1>4, FS_CardinalityType

LEMMA CountsTail ==
    ASSUME NEW S, NEW s \in Seq(S), s # <<>>, NEW t
    PROVE  /\ Cardinality(RequestsFor(t, s)) \in Nat /\ Cardinality(AnswersFor(t, s)) \in Nat
           /\ Cardinality(RequestsFor(t, Tail(s))) \in Nat
           /\ Cardinality(AnswersFor(t, Tail(s))) \in Nat
           /\ Cardinality(RequestsFor(t, s)) =
                  Cardinality(RequestsFor(t, Tail(s))) + One(s[1].target = t)
           /\ Cardinality(AnswersFor(t, s)) =
                  Cardinality(AnswersFor(t, Tail(s))) + One(IsAnswer(s[1], t))
<1> DEFINE n == Len(Tail(s))
<1>1. /\ n \in Nat /\ Len(s) = n + 1
      /\ \A i \in 1 .. n : i + 1 \in 1 .. Len(s) /\ Tail(s)[i] = s[i + 1]
    BY FrontLeaves
<1>2. /\ RequestsFor(t, s) \in SUBSET (1 .. n + 1) /\ RequestsFor(t, Tail(s)) \in SUBSET (1 .. n)
      /\ AnswersFor(t, s) \in SUBSET (1 .. n + 1) /\ AnswersFor(t, Tail(s)) \in SUBSET (1 .. n)
    BY <1>1 DEF RequestsFor, AnswersFor
<1>3. \A i \in 1 .. n : i \in RequestsFor(t, Tail(s)) <=> i + 1 \in RequestsFor(t, s)
    BY <1>1 DEF RequestsFor
<1>4. \A i \in 1 .. n : i \in AnswersFor(t, Tail(s)) <=> i + 1 \in AnswersFor(t, s)
    BY <1>1 DEF AnswersFor
<1>5. /\ 1 \in RequestsFor(t, s) <=> s[1].target = t
      /\ 1 \in AnswersFor(t, s) <=> IsAnswer(s[1], t)
    BY <1>1 DEF RequestsFor, AnswersFor, IsAnswer
<1> HIDE DEF n
<1>6. /\ Cardinality(RequestsFor(t, s)) \in Nat /\ Cardinality(RequestsFor(t, Tail(s))) \in Nat
      /\ Cardinality(RequestsFor(t, s)) =
             Cardinality(RequestsFor(t, Tail(s))) + One(1 \in RequestsFor(t, s))
    BY <1>1, <1>2, <1>3, CountBehind
<1>7. /\ Cardinality(AnswersFor(t, s)) \in Nat /\ Cardinality(AnswersFor(t, Tail(s))) \in Nat
      /\ Cardinality(AnswersFor(t, s)) =
             Cardinality(AnswersFor(t, Tail(s))) + One(1 \in AnswersFor(t, s))
    BY <1>1, <1>2, <1>4, CountBehind
<1> QED BY <1>5, <1>6, <1>7 DEF One

LEMMA CountsAppend ==
    ASSUME NEW S, NEW s \in Seq(S), NEW x \in S, NEW t
    PROVE  /\ Cardinality(RequestsFor(t, s)) \in Nat /\ Cardinality(AnswersFor(t, s)) \in Nat
           /\ Cardinality(RequestsFor(t, Append(s, x))) =
                  Cardinality(RequestsFor(t, s)) + One(x.target = t)
           /\ Cardinality(AnswersFor(t, Append(s, x))) =
                  Cardinality(AnswersFor(t, s)) + One(IsAnswer(x, t))
<1> DEFINE n == Len(s)
           r == Append(s, x)
<1>1. /\ n \in Nat /\ Len(r) = n + 1 /\ r[n + 1] = x
      /\ \A i \in 1 .. n : i \in 1 .. n + 1 /\ r[i] = s[i]
    BY EndGrows
<1> HIDE DEF r
<1>2. /\ RequestsFor(t, s) \in SUBSET (1 .. n) /\ RequestsFor(t, r) \in SUBSET (1 .. n + 1)
      /\ AnswersFor(t, s) \in SUBSET (1 .. n) /\ AnswersFor(t, r) \in SUBSET (1 .. n + 1)
    BY <1>1 DEF RequestsFor, AnswersFor
<1>3. \A i \in 1 .. n : i \in RequestsFor(t, r) <=> i \in RequestsFor(t, s)
    BY <1>1 DEF RequestsFor
<1>4. \A i \in 1 .. n : i \in AnswersFor(t, r) <=> i \in AnswersFor(t, s)
    BY <1>1 DEF AnswersFor
<1>5. /\ n + 1 \in RequestsFor(t, r) <=> x.target = t
      /\ n + 1 \in AnswersFor(t, r) <=> IsAnswer(x, t)
    BY <1>1 DEF RequestsFor, AnswersFor, IsAnswer
<1> HIDE DEF n
<1>6. /\ Cardinality(RequestsFor(t, s)) \in Nat
      /\ Cardinality(RequestsFor(t, r)) =
             Cardinality(RequestsFor(t, s)) + One(n + 1 \in RequestsFor(t, r))
    BY <1>1, <1>2, <1>3, CountBefore
<1>7. /\ Cardinality(AnswersFor(t, s)) \in Nat
      /\ Cardinality(AnswersFor(t, r)) =
             Cardinality(AnswersFor(t, s)) + One(n + 1 \in AnswersFor(t, r))
    BY <1>1, <1>2, <1>4, CountBefore
<1> QED BY <1>5, <1>6, <1>7 DEF One, r
-----------------------------------------------------------------------------
(* Listening to all of some targets, in any order                             *)

LEMMA OrderFacts ==
    ASSUME NEW S, IsFiniteSet(S), NEW order \in SetToSeqs(S)
    PROVE  /\ Len(order) \in Nat
           /\ \A i \in 1 .. Len(order) : order[i] \in S
           /\ \A i, j \in 1 .. Len(order) : i # j => order[i] # order[j]
           /\ \A x \in S : \E i \in 1 .. Len(order) : order[i] = x
<1> DEFINE n == Cardinality(S)
<1>1. n \in Nat
    BY FS_CardinalityType
<1>2. order \in [1 .. n -> S] /\ \A i, j \in 1 .. n : i # j => order[i] # order[j]
    BY DEF SetToSeqs
<1>3. Len(order) = n
    BY <1>1, <1>2
<1>4. order \in Injection(1 .. n, S)
    BY <1>2, Fun_IsInj
<1>5. IsFiniteSet(1 .. n) /\ Cardinality(1 .. n) = n
    BY <1>1, FS_Interval
<1>6. order \in Surjection(1 .. n, S)
    BY <1>4, <1>5, FS_Injection
<1>7. \A x \in S : \E i \in 1 .. n : order[i] = x
    BY <1>6 DEF Surjection
<1> QED BY <1>1, <1>2, <1>3, <1>7

(* What is sent when all are listened to again: twice each, the watch last.   *)
LEMMA RewatchFacts ==
    ASSUME NEW S \in SUBSET Targets, IsFiniteSet(S), NEW order \in SetToSeqs(S)
    PROVE  /\ Rewatch(order) \in Seq(Request)
           /\ Len(Rewatch(order)) = 2 * Len(order) /\ Len(order) \in Nat
           /\ \A k \in 1 .. 2 * Len(order) : Rewatch(order)[k].target \in S
           /\ \A t \in S : \E j \in 1 .. Len(order) :
                  /\ 2 * j - 1 \in 1 .. 2 * Len(order) /\ 2 * j \in 1 .. 2 * Len(order)
                  /\ Rewatch(order)[2 * j - 1].target = t
                  /\ Rewatch(order)[2 * j] = Watch(t, NoToken)
                  /\ \A k \in 1 .. 2 * Len(order) :
                         Rewatch(order)[k].target = t => k = 2 * j - 1 \/ k = 2 * j
<1> DEFINE n == Len(order)
           place(k) == (k + 1) \div 2
<1>1. /\ n \in Nat
      /\ \A i \in 1 .. n : order[i] \in S
      /\ \A i, j \in 1 .. n : i # j => order[i] # order[j]
      /\ \A x \in S : \E i \in 1 .. n : order[i] = x
    BY OrderFacts
<1>2. \A k \in 1 .. 2 * n : place(k) \in 1 .. n
    BY <1>1
<1>3. \A j \in 1 .. n :
          /\ 2 * j - 1 \in 1 .. 2 * n /\ 2 * j \in 1 .. 2 * n
          /\ place(2 * j - 1) = j /\ place(2 * j) = j /\ (2 * j) % 2 # 1
    BY <1>1
<1>4. \A k \in 1 .. 2 * n, j \in 1 .. n : place(k) = j => k = 2 * j - 1 \/ k = 2 * j
    BY <1>1
<1>5. Rewatch(order) =
          [k \in 1 .. 2 * n |-> IF k % 2 = 1 THEN Unwatch(order[place(k)])
                                             ELSE Watch(order[place(k)], NoToken)]
    BY DEF Rewatch
<1>6. NoToken \in Tokens
    BY DEF Tokens
<1>7. \A x \in S : Watch(x, NoToken) \in Request /\ Unwatch(x) \in Request
    BY <1>6 DEF Watch, Unwatch, Request
<1>8. \A x : Watch(x, NoToken).target = x /\ Unwatch(x).target = x
    BY DEF Watch, Unwatch
<1> HIDE DEF place
<1>9. \A k \in 1 .. 2 * n : Rewatch(order)[k] \in Request /\ Rewatch(order)[k].target = order[place(k)]
    BY <1>1, <1>2, <1>5, <1>7, <1>8
<1>10. Rewatch(order) \in [1 .. 2 * n -> Request]
    BY <1>1, <1>2, <1>5, <1>7
<1>11. Rewatch(order) \in Seq(Request) /\ Len(Rewatch(order)) = 2 * n
    BY <1>1, <1>10, SeqDef
<1>12. \A k \in 1 .. 2 * n : Rewatch(order)[k].target \in S
    BY <1>1, <1>2, <1>9
<1>13. ASSUME NEW t \in S
       PROVE  \E j \in 1 .. n :
                  /\ 2 * j - 1 \in 1 .. 2 * n /\ 2 * j \in 1 .. 2 * n
                  /\ Rewatch(order)[2 * j - 1].target = t
                  /\ Rewatch(order)[2 * j] = Watch(t, NoToken)
                  /\ \A k \in 1 .. 2 * n :
                         Rewatch(order)[k].target = t => k = 2 * j - 1 \/ k = 2 * j
    <2>1. PICK j \in 1 .. n : order[j] = t
        BY <1>1
    <2>2. 2 * j - 1 \in 1 .. 2 * n /\ 2 * j \in 1 .. 2 * n
        BY <1>3
    <2>3. Rewatch(order)[2 * j - 1].target = t
        BY <1>3, <1>9, <2>1
    <2>4. Rewatch(order)[2 * j] = Watch(t, NoToken)
        BY <1>3, <1>5, <2>1
    <2>5. ASSUME NEW k \in 1 .. 2 * n, Rewatch(order)[k].target = t
          PROVE  k = 2 * j - 1 \/ k = 2 * j
        <3>1. order[place(k)] = t /\ place(k) \in 1 .. n
            BY <1>2, <1>9, <2>5
        <3>2. place(k) = j
            BY <1>1, <2>1, <3>1
        <3> QED BY <1>4, <3>2
    <2> QED BY <2>2, <2>3, <2>4, <2>5
<1> QED BY <1>1, <1>11, <1>12, <1>13

(* The requests with them at their end.                                       *)
WithRewatch(s, S, r) == \E order \in SetToSeqs(S) : r = s \o Rewatch(order)

LEMMA Rewatched ==
    ASSUME NEW S \in SUBSET Targets, IsFiniteSet(S), NEW s \in Seq(Request), NEW r,
           WithRewatch(s, S, r), NEW t \in Targets
    PROVE  /\ r \in Seq(Request) /\ Len(s) \in Nat /\ Len(r) \in Nat /\ Len(s) <= Len(r)
           /\ \A i \in 1 .. Len(s) : r[i] = s[i]
           /\ \A i \in 1 .. Len(r) : i > Len(s) => r[i].target \in S
           /\ t \in S => \E j \in 1 .. Len(r) :
                  r[j] = Watch(t, NoToken) /\ \A i \in j + 1 .. Len(r) : r[i].target # t
           /\ Cardinality(RequestsFor(t, s)) \in Nat
           /\ Cardinality(RequestsFor(t, r)) =
                  Cardinality(RequestsFor(t, s)) + (IF t \in S THEN 2 ELSE 0)
<1>0. PICK order \in SetToSeqs(S) : r = s \o Rewatch(order)
    BY DEF WithRewatch
<1> DEFINE n == Len(s)
           m == 2 * Len(order)
           q == Rewatch(order)
<1>1. /\ q \in Seq(Request) /\ Len(q) = m /\ m \in Nat /\ Len(order) \in Nat
      /\ \A k \in 1 .. m : q[k].target \in S
    BY RewatchFacts
<1>2. n \in Nat
    BY LenProperties
<1>3. /\ r \in Seq(Request) /\ Len(r) = n + m
      /\ \A i \in 1 .. n + m : r[i] = IF i <= n THEN s[i] ELSE q[i - n]
    BY <1>0, <1>1, <1>2, ConcatProperties
<1>4. \A i \in 1 .. n : r[i] = s[i]
    BY <1>1, <1>2, <1>3
<1>5. \A i \in 1 .. n + m : i > n => i - n \in 1 .. m /\ r[i] = q[i - n] /\ r[i].target \in S
    BY <1>1, <1>2, <1>3
<1>6. \A k \in 1 .. m : n + k \in 1 .. n + m /\ n + k > n /\ r[n + k] = q[k]
    <2>1. \A k \in 1 .. m : n + k \in 1 .. n + m /\ n + k > n /\ (n + k) - n = k
        BY <1>1, <1>2
    <2> QED BY <1>5, <2>1
<1>7. /\ IsFiniteSet(RequestsFor(t, s)) /\ Cardinality(RequestsFor(t, s)) \in Nat
    <2>1. RequestsFor(t, s) \in SUBSET (1 .. n) /\ IsFiniteSet(1 .. n)
        BY <1>2, FS_Interval DEF RequestsFor
    <2>2. IsFiniteSet(RequestsFor(t, s))
        BY <2>1, FS_Subset
    <2> QED BY <2>2, FS_CardinalityType
<1>8. \A i : i \in RequestsFor(t, s) <=> i \in RequestsFor(t, r) /\ i <= n
    BY <1>1, <1>2, <1>3, <1>4 DEF RequestsFor
<1>9. CASE t \notin S
    <2>1. ASSUME NEW i \in RequestsFor(t, r)
          PROVE  i <= n
        <3>1. i \in 1 .. n + m /\ r[i].target = t
            BY <1>3 DEF RequestsFor
        <3>2. ~(i > n)
            BY <1>5, <1>9, <3>1
        <3> HIDE DEF n, m
        <3> QED BY <1>1, <1>2, <3>1, <3>2
    <2>2. RequestsFor(t, r) = RequestsFor(t, s)
        BY <1>8, <2>1
    <2> QED BY <1>1, <1>2, <1>3, <1>4, <1>5, <1>7, <1>9, <2>2
<1>10. CASE t \in S
    <2>1. PICK j \in 1 .. Len(order) :
              /\ 2 * j - 1 \in 1 .. m /\ 2 * j \in 1 .. m
              /\ q[2 * j - 1].target = t /\ q[2 * j] = Watch(t, NoToken)
              /\ \A k \in 1 .. m : q[k].target = t => k = 2 * j - 1 \/ k = 2 * j
        BY <1>10, RewatchFacts
    <2> DEFINE a == n + (2 * j - 1)
               b == n + 2 * j
    <2>2. /\ a \in 1 .. n + m /\ b \in 1 .. n + m /\ a > n /\ b > n /\ a # b /\ b \in Int
          /\ r[a].target = t /\ r[b] = Watch(t, NoToken) /\ r[b].target = t
        <3>1. a # b /\ b \in Int
            BY <1>1, <1>2
        <3>2. Watch(t, NoToken).target = t
            BY DEF Watch
        <3> QED BY <1>6, <2>1, <3>1, <3>2
    <2>3. ASSUME NEW i \in 1 .. n + m, i > n, r[i].target = t
          PROVE  i = a \/ i = b
        <3>1. i - n \in 1 .. m /\ q[i - n].target = t
            BY <1>5, <2>3
        <3>2. i - n = 2 * j - 1 \/ i - n = 2 * j
            BY <2>1, <3>1
        <3> QED BY <1>1, <1>2, <3>2
    <2>4. \A i \in b + 1 .. n + m : r[i].target # t
        <3>1. \A i \in b + 1 .. n + m : i \in 1 .. n + m /\ i > n /\ i # a /\ i # b
            <4> HIDE DEF n, m
            <4>1. a < b /\ n < a
                BY <1>1, <1>2
            <4> HIDE DEF a, b
            <4> QED BY <1>1, <1>2, <2>2, <4>1
        <3> QED BY <2>3, <3>1
    <2>5. RequestsFor(t, r) = (RequestsFor(t, s) \cup {a}) \cup {b}
        <3>1. \A i : i \in RequestsFor(t, r) <=> i \in 1 .. n + m /\ r[i].target = t
            BY <1>3 DEF RequestsFor
        <3>2. \A i \in 1 .. n + m : i <= n \/ i > n
            BY <1>1, <1>2
        <3> HIDE DEF a, b
        <3> QED BY <1>8, <2>2, <2>3, <3>1, <3>2
    <2>6. a \notin RequestsFor(t, s) /\ b \notin RequestsFor(t, s) \cup {a}
        <3>1. ~(a <= n) /\ ~(b <= n) /\ a # b
            <4> HIDE DEF n, m
            <4> QED BY <1>1, <1>2, <2>2
        <3> HIDE DEF a, b
        <3> QED BY <1>8, <3>1
    <2> HIDE DEF a, b
    <2>7. /\ IsFiniteSet(RequestsFor(t, s) \cup {a})
          /\ Cardinality(RequestsFor(t, s) \cup {a}) = Cardinality(RequestsFor(t, s)) + 1
        BY <1>7, <2>6, FS_AddElement
    <2>8. Cardinality(RequestsFor(t, r)) = (Cardinality(RequestsFor(t, s)) + 1) + 1
        <3>1. Cardinality((RequestsFor(t, s) \cup {a}) \cup {b}) =
                  Cardinality(RequestsFor(t, s) \cup {a}) + 1
            BY <2>6, <2>7, FS_AddElement
        <3> QED BY <2>5, <2>7, <3>1
    <2> HIDE DEF n, m, q
    <2>9. Cardinality(RequestsFor(t, r)) =
              Cardinality(RequestsFor(t, s)) + (IF t \in S THEN 2 ELSE 0)
        BY <1>7, <1>10, <2>8
    <2>10. \E k \in 1 .. n + m :
               r[k] = Watch(t, NoToken) /\ \A i \in k + 1 .. n + m : r[i].target # t
        BY <2>2, <2>4
    <2>11. Len(r) = n + m /\ m \in Nat /\ n \in Nat /\ Len(r) \in Nat /\ n <= Len(r)
        BY <1>1, <1>2, <1>3
    <2>12. \A i \in 1 .. Len(r) : i > Len(s) => r[i].target \in S
        BY <1>5, <2>11 DEF n
    <2>13. n = Len(s)
        BY DEF n
    <2> QED BY <1>3, <1>4, <1>7, <2>9, <2>10, <2>11, <2>12, <2>13
<1> QED BY <1>9, <1>10
-----------------------------------------------------------------------------
(* The state of a target                                                      *)

StateTypes == DOMAIN states \subseteq Targets /\ states \in [DOMAIN states -> TargetState]
ServingTypes == DOMAIN serving \subseteq Targets /\ serving \in [DOMAIN serving -> Told]

LEMMA NoChanges == <<>> \in DocumentChanges /\ DOMAIN <<>> = {}
<1>1. <<>> \in Seq({"added", "modified", "removed"})
    BY EmptySeq
<1>2. <<>> \in [1 .. 0 -> {"added", "modified", "removed"}] /\ DOMAIN <<>> = 1 .. 0
    BY <1>1, EmptySeq, LenProperties
<1>3. 1 .. 0 = {}
    OBVIOUS
<1> QED BY <1>2, <1>3 DEF DocumentChanges

LEMMA FreshParts ==
    /\ FreshState \in TargetState /\ FreshState.outstanding = 0 /\ ~FreshState.current
    /\ FreshState.changes = <<>>
BY NoChanges DEF FreshState, TargetState

LEMMA StateParts ==
    ASSUME StateTypes, NEW t
    PROVE  /\ EnsureTargetState(t) \in TargetState
           /\ EnsureTargetState(t).outstanding \in Int
           /\ EnsureTargetState(t).current \in BOOLEAN
           /\ EnsureTargetState(t).changes \in DocumentChanges
<1>1. EnsureTargetState(t) \in TargetState
    BY FreshParts DEF StateTypes, EnsureTargetState
<1> QED BY <1>1 DEF TargetState

LEMMA RecordParts ==
    ASSUME NEW s \in TargetState, NEW n \in Int
    PROVE  /\ RecordPendingTargetRequest(s, n) \in TargetState
           /\ RecordPendingTargetRequest(s, n).outstanding = s.outstanding + n
           /\ RecordPendingTargetRequest(s, n).current = s.current
           /\ RecordPendingTargetRequest(s, n).changes = s.changes
BY DEF RecordPendingTargetRequest, TargetState

(* One target gets a state, or loses it.                                      *)
LEMMA OneState ==
    ASSUME StateTypes, NEW u \in Targets, NEW s \in TargetState, states' = WithState(u, s)
    PROVE  /\ StateTypes'
           /\ DOMAIN states' = DOMAIN states \cup {u}
           /\ EnsureTargetState(u)' = s
           /\ \A t : t # u => EnsureTargetState(t)' = EnsureTargetState(t)
<1>1. states' = [x \in DOMAIN states \cup {u} |-> IF x = u THEN s ELSE states[x]]
    BY DEF WithState, With
<1>2. DOMAIN states' = DOMAIN states \cup {u} /\ states'[u] = s
    BY <1>1
<1>3. \A t : t # u => EnsureTargetState(t)' = EnsureTargetState(t)
    BY <1>1 DEF EnsureTargetState
<1>4. EnsureTargetState(u)' = s
    BY <1>2 DEF EnsureTargetState
<1>5. states' \in [DOMAIN states' -> TargetState]
    BY <1>1 DEF StateTypes
<1> QED BY <1>2, <1>3, <1>4, <1>5 DEF StateTypes

LEMMA NoState ==
    ASSUME StateTypes, NEW u, states' = Without(states, u)
    PROVE  /\ StateTypes'
           /\ DOMAIN states' = DOMAIN states \ {u}
           /\ EnsureTargetState(u)' = FreshState
           /\ \A t : t # u => EnsureTargetState(t)' = EnsureTargetState(t)
<1>1. states' = [x \in DOMAIN states \ {u} |-> states[x]]
    BY DEF Without
<1>2. \A t : t # u => EnsureTargetState(t)' = EnsureTargetState(t)
    BY <1>1 DEF EnsureTargetState
<1>3. EnsureTargetState(u)' = FreshState
    BY <1>1 DEF EnsureTargetState
<1>4. states' \in [DOMAIN states' -> TargetState]
    BY <1>1 DEF StateTypes
<1> QED BY <1>1, <1>2, <1>3, <1>4 DEF StateTypes

(* What a message says, by its kind.                                          *)
LEMMA MessageParts ==
    ASSUME NEW m \in Message
    PROVE  /\ m.kind \in {"added", "removed", "refused", "current", "reset", "filter",
                          "document", "snapshot"}
           /\ m.kind \notin {"document", "snapshot"} => m.target \in Targets
           /\ m.kind = "filter" => m.count \in Nat
           /\ m.kind = "document" =>
                  m.doc \in Docs /\ m.updated \in SUBSET Targets /\ m.removed \in SUBSET Targets
           /\ m.kind = "snapshot" => m.holds \in [Targets -> SUBSET Docs]
BY DEF Message

LEMMA MessageKinds ==
    /\ \A k \in {"added", "removed", "refused", "current", "reset"}, t \in Targets :
           Says(k, t) \in Message /\ Says(k, t).kind = k /\ Says(k, t).target = t
    /\ \A t \in Targets, n \in Nat :
           /\ Filter(t, n) \in Message /\ Filter(t, n).kind = "filter"
           /\ Filter(t, n).target = t /\ Filter(t, n).count = n
    /\ \A d \in Docs, in \in SUBSET Targets, out \in SUBSET Targets :
           /\ Document(d, in, out) \in Message /\ Document(d, in, out).kind = "document"
           /\ Document(d, in, out).doc = d
           /\ Document(d, in, out).updated = in /\ Document(d, in, out).removed = out
    /\ \A holds \in [Targets -> SUBSET Docs] :
           /\ Snapshot(holds) \in Message /\ Snapshot(holds).kind = "snapshot"
           /\ Snapshot(holds).holds = holds
BY DEF Says, Filter, Document, Snapshot, Message

LEMMA RequestParts ==
    ASSUME NEW t \in Targets, NEW k \in Tokens
    PROVE  /\ Watch(t, k) \in Request /\ Watch(t, k).target = t
           /\ Watch(t, k).kind = "watch" /\ Watch(t, k).token = k
           /\ Unwatch(t) \in Request /\ Unwatch(t).target = t /\ Unwatch(t).kind = "unwatch"
BY DEF Watch, Unwatch, Request, Tokens
-----------------------------------------------------------------------------
(* The answers to come are counted                                            *)

Counted(t) == EnsureTargetState(t).outstanding = OnTheWire(t)

LEMMA OnTheWireParts ==
    ASSUME NEW t
    PROVE  OnTheWire(t) = Cardinality(RequestsFor(t, requests)) + Cardinality(AnswersFor(t, messages))
BY DEF OnTheWire, RequestsFor, AnswersFor

LEMMA OnTheWirePartsNext ==
    ASSUME NEW t
    PROVE  OnTheWire(t)' =
               Cardinality(RequestsFor(t, requests')) + Cardinality(AnswersFor(t, messages'))
BY DEF OnTheWire, RequestsFor, AnswersFor

(* What the invariant says of the present, in pieces.                         *)
LEMMA WatchParts ==
    ASSUME WatchIInv
    PROVE  /\ StateTypes /\ ServingTypes
           /\ requests \in Seq(Request) /\ messages \in Seq(Message)
           /\ \A t \in Targets \ denied : open => Counted(t)
BY DEF WatchIInv, WatchTypeOK, OutstandingResponses, StateTypes, ServingTypes, Counted

(* What there is to show of the next state.                                   *)
LEMMA WatchNext ==
    ASSUME WatchTypeOK', RefusalsAreKnown',
           \/ /\ ~open'
              /\ states' = <<>> /\ requests' = <<>> /\ messages' = <<>> /\ serving' = <<>>
           \/ open' /\ \A t \in Targets \ denied' : Counted(t)'
    PROVE  WatchIInv'
<1>1. ClosedIsEmpty'
    BY DEF ClosedIsEmpty, WatchTypeOK
<1>2. /\ listening' \subseteq Targets
      /\ \A t \in Targets :
             /\ keys'[t] \subseteq Docs
             /\ open' /\ t \notin denied' => Counted(t)'
    BY DEF WatchTypeOK
<1>3. ASSUME ~open', NEW t
      PROVE  EnsureTargetState(t)' = FreshState
    <2>1. states' = <<>>
        BY <1>3, <1>1 DEF ClosedIsEmpty
    <2> QED BY <2>1, NoChanges DEF EnsureTargetState
<1>4. OutstandingResponses'
    BY <1>2, <1>3 DEF OutstandingResponses, Counted, FreshState
<1> QED BY <1>1, <1>4 DEF WatchIInv

LEMMA WatchInit == Init => WatchIInv
<1> SUFFICES ASSUME Init PROVE WatchIInv
    OBVIOUS
<1>1. NoToken \in Tokens
    BY DEF Tokens
<1>2. /\ states = <<>> /\ serving = <<>> /\ requests = <<>> /\ messages = <<>>
      /\ DOMAIN states = {} /\ DOMAIN serving = {}
    BY NoChanges DEF Init
<1>3. states \in [DOMAIN states -> TargetState] /\ serving \in [DOMAIN serving -> Told]
    <2>1. <<>> \in Seq(TargetState) /\ <<>> \in Seq(Told) /\ DOMAIN <<>> = {}
        BY NoChanges, EmptySeq
    <2>2. <<>> \in [1 .. Len(<<>>) -> TargetState] /\ <<>> \in [1 .. Len(<<>>) -> Told] /\ Len(<<>>) = 0
        BY <2>1, EmptySeq, LenProperties
    <2>3. 1 .. 0 = {}
        OBVIOUS
    <2> QED BY <1>2, <2>2, <2>3
<1>4. IsFiniteSet(listening)
    BY FS_EmptySet DEF Init
<1>5. WatchTypeOK
    BY <1>1, <1>2, <1>3, <1>4, EmptySeq DEF Init, WatchTypeOK
<1>6. ASSUME NEW t
      PROVE  EnsureTargetState(t) = FreshState
    BY <1>2 DEF EnsureTargetState
<1>7. OutstandingResponses
    BY <1>5, <1>6 DEF OutstandingResponses, Init, WatchTypeOK, FreshState
<1>8. RefusalsAreKnown
    <2>1. 1 .. Len(messages) = {}
        BY <1>2
    <2> QED BY <2>1 DEF RefusalsAreKnown
<1> QED BY <1>2, <1>5, <1>7, <1>8 DEF WatchIInv, ClosedIsEmpty

(* One more request.                                                          *)
LEMMA OneRequest ==
    ASSUME WatchIInv, open, NEW u \in Targets, NEW r \in Request, r.target = u,
           states' = WithState(u, RecordPendingTargetRequest(EnsureTargetState(u), 1)),
           requests' = Append(requests, r), UNCHANGED <<messages, denied, open>>
    PROVE  StateTypes' /\ requests' \in Seq(Request) /\ \A t \in Targets \ denied' : Counted(t)'
<1>1. StateTypes /\ requests \in Seq(Request) /\ \A t \in Targets \ denied : Counted(t)
    BY WatchParts
<1>2. /\ EnsureTargetState(u) \in TargetState /\ EnsureTargetState(u).outstanding \in Int
    BY <1>1, StateParts
<1>3. /\ RecordPendingTargetRequest(EnsureTargetState(u), 1) \in TargetState
      /\ RecordPendingTargetRequest(EnsureTargetState(u), 1).outstanding =
             EnsureTargetState(u).outstanding + 1
    BY <1>2, RecordParts
<1>4. /\ StateTypes'
      /\ EnsureTargetState(u)'.outstanding = EnsureTargetState(u).outstanding + 1
      /\ \A t : t # u => EnsureTargetState(t)' = EnsureTargetState(t)
    BY <1>1, <1>3, OneState
<1>5. ASSUME NEW t \in Targets \ denied'
      PROVE  Counted(t)'
    <2>1. /\ Cardinality(RequestsFor(t, requests)) \in Nat
          /\ Cardinality(RequestsFor(t, requests')) =
                 Cardinality(RequestsFor(t, requests)) + One(u = t)
        BY <1>1, CountsAppend
    <2>2. /\ OnTheWire(t) = Cardinality(RequestsFor(t, requests)) + Cardinality(AnswersFor(t, messages))
          /\ OnTheWire(t)' = Cardinality(RequestsFor(t, requests')) + Cardinality(AnswersFor(t, messages))
        BY OnTheWireParts, OnTheWirePartsNext
    <2>3. Cardinality(AnswersFor(t, messages)) \in Int
        BY WatchParts, CountsAreNumbers
    <2>4. OnTheWire(t)' = OnTheWire(t) + One(u = t)
        BY <2>1, <2>2, <2>3 DEF One
    <2>5. EnsureTargetState(t)'.outstanding = EnsureTargetState(t).outstanding + One(u = t)
        BY <1>1, <1>2, <1>4, StateParts DEF One
    <2> QED BY <1>1, <2>4, <2>5 DEF Counted
<1>6. requests' \in Seq(Request)
    BY <1>1, AppendProperties
<1> QED BY <1>4, <1>5, <1>6

(* No more and no fewer.                                                      *)
LEMMA NoRequest ==
    ASSUME WatchIInv, UNCHANGED <<states, requests, messages, denied, open>>
    PROVE  /\ StateTypes' /\ requests' \in Seq(Request)
           /\ open => \A t \in Targets \ denied' : Counted(t)'
<1>1. StateTypes /\ requests \in Seq(Request) /\ \A t \in Targets \ denied : open => Counted(t)
    BY WatchParts
<1>2. \A t : EnsureTargetState(t)' = EnsureTargetState(t) /\ OnTheWire(t)' = OnTheWire(t)
    BY DEF EnsureTargetState, OnTheWire
<1> QED BY <1>1, <1>2 DEF StateTypes, Counted

LEMMA ListenStep ==
    ASSUME WatchIInv, NEW u \in Targets, Listen(u) \/ StopListening(u)
    PROVE  WatchIInv'
<1>1. WatchTypeOK /\ stored[u] \in Tokens
    BY DEF WatchIInv, WatchTypeOK
<1>2. PICK r \in Request :
          /\ r.target = u
          /\ IF open
             THEN /\ states' = WithState(u, RecordPendingTargetRequest(EnsureTargetState(u), 1))
                  /\ requests' = Append(requests, r)
             ELSE UNCHANGED <<states, requests>>
    BY <1>1, RequestParts DEF Listen, StopListening, Tokens
<1>3. UNCHANGED <<stored, keys, open, messages, backendVars>>
    BY DEF Listen, StopListening
<1>4. StateTypes' /\ requests' \in Seq(Request) /\ (open => \A t \in Targets \ denied' : Counted(t)')
    BY <1>2, <1>3, OneRequest, NoRequest DEF backendVars
<1>5. IsFiniteSet(listening \cup {u}) /\ IsFiniteSet(listening \ {u})
    BY <1>1, FS_AddElement, FS_RemoveElement DEF WatchTypeOK
<1>6. /\ listening' \in SUBSET Targets /\ IsFiniteSet(listening')
      /\ token' \in [Targets -> Tokens] /\ current' \in [Targets -> BOOLEAN]
    <2>1. CASE Listen(u)
        BY <1>1, <1>5, <2>1 DEF Listen, WatchTypeOK
    <2>2. CASE StopListening(u)
        BY <1>1, <1>5, <2>2 DEF StopListening, WatchTypeOK
    <2> QED BY <2>1, <2>2
<1>7. WatchTypeOK'
    BY <1>1, <1>3, <1>4, <1>6 DEF WatchTypeOK, StateTypes, backendVars
<1>8. RefusalsAreKnown'
    BY <1>3 DEF WatchIInv, RefusalsAreKnown, backendVars
<1>9. CASE open
    BY <1>3, <1>4, <1>7, <1>8, <1>9, WatchNext
<1>10. CASE ~open
    <2>1. states = <<>> /\ requests = <<>> /\ messages = <<>> /\ serving = <<>>
        BY <1>10 DEF WatchIInv, ClosedIsEmpty
    <2> QED BY <1>2, <1>3, <1>7, <1>8, <1>10, <2>1, WatchNext DEF backendVars
<1> QED BY <1>9, <1>10
(* The stream opens: one request for each target listened to.                 *)
LEMMA Asked ==
    ASSUME WatchTypeOK, NEW order \in SetToSeqs(listening), NEW r,
           r = [i \in 1 .. Len(order) |-> Watch(order[i], token[order[i]])], NEW t \in Targets
    PROVE  /\ r \in Seq(Request)
           /\ Cardinality(RequestsFor(t, r)) = One(t \in listening)
           /\ t \in listening =>
                  \E j \in 1 .. Len(r) :
                      /\ r[j] = Watch(t, token[t])
                      /\ \A i \in j + 1 .. Len(r) : r[i].target # t
<1> DEFINE n == Len(order)
<1>1. /\ n \in Nat
      /\ \A i \in 1 .. n : order[i] \in listening
      /\ \A i, j \in 1 .. n : i # j => order[i] # order[j]
      /\ \A x \in listening : \E i \in 1 .. n : order[i] = x
    BY OrderFacts DEF WatchTypeOK
<1>2. \A x \in listening : token[x] \in Tokens /\ x \in Targets
    BY DEF WatchTypeOK
<1>3. \A x \in listening :
          Watch(x, token[x]) \in Request /\ Watch(x, token[x]).target = x
    BY <1>2, RequestParts
<1>4. r \in [1 .. n -> Request] /\ \A i \in 1 .. n : r[i] = Watch(order[i], token[order[i]])
    BY <1>1, <1>3
<1>5. r \in Seq(Request) /\ Len(r) = n
    BY <1>1, <1>4, SeqDef
<1>6. \A i \in 1 .. n : r[i].target = order[i]
    BY <1>1, <1>3, <1>4
<1> HIDE DEF n
<1>7. CASE t \notin listening
    <2>1. RequestsFor(t, r) = {}
        BY <1>1, <1>5, <1>6, <1>7 DEF RequestsFor
    <2> QED BY <1>5, <1>7, <2>1, FS_EmptySet DEF One
<1>8. CASE t \in listening
    <2>1. PICK j \in 1 .. n : order[j] = t
        BY <1>1, <1>8
    <2>2. \A i \in 1 .. n : r[i].target = t <=> i = j
        <3>1. \A i \in 1 .. n : i # j => order[i] # t
            BY <1>1, <2>1
        <3> QED BY <1>6, <2>1, <3>1
    <2>3. RequestsFor(t, r) = {j}
        BY <1>5, <2>2 DEF RequestsFor
    <2>4. \A i \in j + 1 .. n : i \in 1 .. n /\ i # j
        BY <1>1
    <2>5. \A i \in j + 1 .. n : r[i].target # t
        BY <2>4, <2>2
    <2>6. r[j] = Watch(t, token[t])
        BY <1>4, <2>1
    <2> QED BY <1>5, <1>8, <2>3, <2>5, <2>6, FS_Singleton DEF One
<1> QED BY <1>7, <1>8

LEMMA OpenStep ==
    ASSUME WatchIInv, OnWatchStreamOpen
    PROVE  WatchIInv'
<1>1. /\ WatchTypeOK /\ ~open /\ open' /\ messages = <<>> /\ serving = <<>>
      /\ states' = [t \in listening |-> RecordPendingTargetRequest(FreshState, 1)]
      /\ UNCHANGED <<listening, token, stored, keys, current, messages, results, serving, denied>>
    BY DEF WatchIInv, ClosedIsEmpty, OnWatchStreamOpen, backendVars
<1>2. PICK order \in SetToSeqs(listening) :
          requests' = [i \in 1 .. Len(order) |-> Watch(order[i], token[order[i]])]
    BY DEF OnWatchStreamOpen
<1>3. \A t \in Targets :
          requests' \in Seq(Request) /\ Cardinality(RequestsFor(t, requests')) = One(t \in listening)
    BY <1>1, <1>2, Asked
<1>4. requests' \in Seq(Request)
    <2>1. CASE listening = {}
        BY <2>1 DEF OnWatchStreamOpen
    <2>2. CASE listening # {}
        BY <1>1, <1>3, <2>2 DEF WatchTypeOK
    <2> QED BY <2>1, <2>2
<1>5. /\ RecordPendingTargetRequest(FreshState, 1) \in TargetState
      /\ RecordPendingTargetRequest(FreshState, 1).outstanding = 1
    BY FreshParts, RecordParts
<1>6. StateTypes'
    BY <1>1, <1>5 DEF StateTypes, WatchTypeOK
<1>7. ASSUME NEW t \in Targets
      PROVE  Counted(t)'
    <2>1. EnsureTargetState(t)'.outstanding = One(t \in listening)
        BY <1>1, <1>5, FreshParts DEF EnsureTargetState, One
    <2>2. Cardinality(AnswersFor(t, messages')) = 0
        BY <1>1, NothingCounted
    <2> QED BY <1>3, <2>1, <2>2, OnTheWirePartsNext DEF Counted, One
<1>8. WatchTypeOK'
    BY <1>1, <1>4, <1>6 DEF WatchTypeOK, StateTypes
<1>9. RefusalsAreKnown'
    BY <1>1 DEF WatchIInv, RefusalsAreKnown
<1> QED BY <1>1, <1>7, <1>8, <1>9, WatchNext

LEMMA EmptyFunctions ==
    \A S : <<>> \in Seq(S) /\ <<>> \in [DOMAIN <<>> -> S] /\ DOMAIN <<>> = {}
<1>1. \A S : <<>> \in Seq(S)
    BY EmptySeq
<1>2. \A S : <<>> \in [1 .. Len(<<>>) -> S] /\ DOMAIN <<>> = 1 .. Len(<<>>)
    BY <1>1, LenProperties
<1> QED BY <1>1, <1>2, NoChanges

(* A stream that closes leaves nothing; a closed one stays as it is.          *)
LEMMA CloseStep ==
    ASSUME WatchIInv, OnWatchStreamClose \/ ApplyOnlineStateChange
    PROVE  WatchIInv'
<1>1. /\ ~open' /\ states' = <<>> /\ requests' = <<>> /\ messages' = <<>> /\ serving' = <<>>
      /\ UNCHANGED <<listening, token, stored, keys, results>>
      /\ current' \in [Targets -> BOOLEAN] /\ open' \in BOOLEAN
    <2>1. CASE OnWatchStreamClose
        BY <2>1 DEF WatchIInv, WatchTypeOK, OnWatchStreamClose
    <2>2. CASE ApplyOnlineStateChange
        BY <2>2 DEF WatchIInv, WatchTypeOK, ClosedIsEmpty, ApplyOnlineStateChange, backendVars
    <2> QED BY <2>1, <2>2
<1>2. WatchTypeOK'
    <2>1. /\ states' \in [DOMAIN states' -> TargetState] /\ DOMAIN states' = {}
          /\ serving' \in [DOMAIN serving' -> Told] /\ DOMAIN serving' = {}
          /\ requests' \in Seq(Request) /\ messages' \in Seq(Message)
        <3>1. /\ <<>> \in [DOMAIN <<>> -> TargetState] /\ <<>> \in [DOMAIN <<>> -> Told]
              /\ <<>> \in Seq(Request) /\ <<>> \in Seq(Message) /\ DOMAIN <<>> = {}
            BY EmptyFunctions, Zenon
        <3>2. states' = <<>> /\ serving' = <<>> /\ requests' = <<>> /\ messages' = <<>>
            BY <1>1
        <3>3. states' \in [DOMAIN states' -> TargetState] /\ serving' \in [DOMAIN serving' -> Told]
            BY ONLY <3>1, <3>2, Zenon
        <3>4. DOMAIN states' = {} /\ DOMAIN serving' = {}
            BY ONLY <3>1, <3>2, Zenon
        <3>5. requests' \in Seq(Request) /\ messages' \in Seq(Message)
            BY ONLY <3>1, <3>2, Zenon
        <3> QED BY <3>3, <3>4, <3>5
    <2>2. /\ UNCHANGED <<listening, token, stored, keys, results>> /\ open' \in BOOLEAN
          /\ current' \in [Targets -> BOOLEAN] /\ WatchTypeOK
        BY <1>1 DEF WatchIInv
    <2>3. DOMAIN states' \subseteq Targets /\ DOMAIN serving' \subseteq Targets
        BY ONLY <2>1
    <2> QED BY ONLY <2>1, <2>2, <2>3 DEF WatchTypeOK
<1>3. RefusalsAreKnown'
    <2>1. 1 .. Len(messages') = {}
        BY <1>1
    <2> QED BY <2>1 DEF RefusalsAreKnown
<1> QED BY <1>1, <1>2, <1>3, WatchNext
-----------------------------------------------------------------------------
(* What the backend does                                                      *)

Known(s) == \A i \in 1 .. Len(s) : s[i].kind = "refused" => s[i].target \in denied

(* A message that is no answer and no refusal.                                *)
LEMMA Mentioned ==
    ASSUME NEW s \in Seq(Message), NEW m \in Message, Known(s),
           m.kind \notin {"added", "removed", "refused"}
    PROVE  /\ Append(s, m) \in Seq(Message) /\ Known(Append(s, m))
           /\ \A t : Cardinality(AnswersFor(t, Append(s, m))) = Cardinality(AnswersFor(t, s))
<1>1. \A t : /\ Cardinality(AnswersFor(t, s)) \in Nat
             /\ Cardinality(AnswersFor(t, Append(s, m))) =
                    Cardinality(AnswersFor(t, s)) + One(IsAnswer(m, t))
    BY CountsAppend
<1>2. \A t : ~IsAnswer(m, t)
    BY DEF IsAnswer
<1>3. \A t : One(IsAnswer(m, t)) = 0
    BY <1>2 DEF One
<1>4. /\ Append(s, m) \in Seq(Message) /\ Len(s) \in Nat /\ Len(Append(s, m)) = Len(s) + 1
      /\ \A i \in 1 .. Len(s) : Append(s, m)[i] = s[i]
      /\ Append(s, m)[Len(s) + 1] = m
    BY EndGrows
<1>5. Known(Append(s, m))
    <2> SUFFICES ASSUME NEW i \in 1 .. Len(s) + 1, Append(s, m)[i].kind = "refused"
                 PROVE  Append(s, m)[i].target \in denied
        BY <1>4 DEF Known
    <2>1. i # Len(s) + 1
        BY <1>4
    <2>2. i \in 1 .. Len(s)
        BY <1>4, <2>1
    <2> QED BY <1>4, <2>2 DEF Known
<1>6. \A t : Cardinality(AnswersFor(t, Append(s, m))) = Cardinality(AnswersFor(t, s))
    BY <1>1, <1>3
<1> QED BY <1>4, <1>5, <1>6

(* What the backend tells changes nothing of what the client waits for.       *)
LEMMA ToldStep ==
    ASSUME WatchIInv, open, messages' \in Seq(Message), Known(messages'),
           \A t : Cardinality(AnswersFor(t, messages')) = Cardinality(AnswersFor(t, messages)),
           UNCHANGED <<clientVars, open, requests, denied>>,
           results' \in [Targets -> SUBSET Docs], ServingTypes'
    PROVE  WatchIInv'
<1>1. \A t \in Targets \ denied' : Counted(t)'
    <2>1. \A t \in Targets \ denied : Counted(t)
        BY WatchParts
    <2>2. \A t : EnsureTargetState(t)' = EnsureTargetState(t)
        BY DEF EnsureTargetState, clientVars
    <2>3. \A t : OnTheWire(t)' = OnTheWire(t)
        BY OnTheWireParts, OnTheWirePartsNext
    <2> QED BY <2>1, <2>2, <2>3 DEF Counted
<1>2. WatchTypeOK'
    BY DEF WatchIInv, WatchTypeOK, clientVars, ServingTypes
<1>3. RefusalsAreKnown'
    BY DEF Known, RefusalsAreKnown
<1> QED BY <1>1, <1>2, <1>3, WatchNext

LEMMA ServingParts ==
    ASSUME ServingTypes, NEW t \in DOMAIN serving
    PROVE  /\ t \in Targets /\ serving[t] \in Told /\ serving[t].told \in SUBSET Docs
           /\ serving[t].current \in BOOLEAN /\ serving[t].filter \in BOOLEAN
           /\ serving[t] = [told |-> serving[t].told, current |-> serving[t].current,
                            filter |-> serving[t].filter]
<1>1. t \in Targets /\ serving[t] \in Told
    BY DEF ServingTypes
<1> QED BY <1>1 DEF Told

(* Documents that enter and leave, told to all targets.                       *)
LEMMA SendDocumentFacts ==
    ASSUME WatchIInv, NEW d \in Docs, SendDocument(d)
    PROVE  \E in \in SUBSET Targets, out \in SUBSET Targets :
               /\ messages' = Append(messages, Document(d, in, out))
               /\ ServingTypes' /\ DOMAIN serving' = DOMAIN serving
               /\ \A t \in DOMAIN serving :
                      /\ serving'[t].told = (serving[t].told \ {e \in {d} : t \in out})
                                                \cup {e \in {d} : t \in in}
                      /\ serving'[t].current = serving[t].current
                      /\ serving'[t].filter = serving[t].filter
<1> DEFINE in == {t \in DOMAIN serving : d \in results[t] \ serving[t].told}
           out == {t \in DOMAIN serving : d \in serving[t].told \ results[t]}
<1>1. /\ messages' = Append(messages, Document(d, in, out))
      /\ serving' = [t \in DOMAIN serving |->
                        [serving[t] EXCEPT !.told = (@ \ {d}) \cup (results[t] \cap {d})]]
    BY DEF SendDocument
<1>2. ServingTypes /\ in \in SUBSET Targets /\ out \in SUBSET Targets
    BY WatchParts DEF ServingTypes
<1>3. ASSUME NEW t \in DOMAIN serving
      PROVE  /\ serving'[t] \in Told
             /\ serving'[t].told = (serving[t].told \ {e \in {d} : t \in out})
                                       \cup {e \in {d} : t \in in}
             /\ serving'[t].current = serving[t].current /\ serving'[t].filter = serving[t].filter
    <2>1. serving[t] \in Told /\ serving[t].told \in SUBSET Docs
        BY <1>2, ServingParts
    <2>2. serving'[t] = [serving[t] EXCEPT !.told = (@ \ {d}) \cup (results[t] \cap {d})]
        BY <1>1
    <2>3. /\ serving'[t] \in Told
          /\ serving'[t].told = (serving[t].told \ {d}) \cup (results[t] \cap {d})
          /\ serving'[t].current = serving[t].current /\ serving'[t].filter = serving[t].filter
        BY <2>1, <2>2 DEF Told
    <2>4. (serving[t].told \ {d}) \cup (results[t] \cap {d}) =
              (serving[t].told \ {e \in {d} : t \in out}) \cup {e \in {d} : t \in in}
        BY <1>3
    <2> QED BY <2>3, <2>4
<1> HIDE DEF in, out
<1>4. DOMAIN serving' = DOMAIN serving
    BY <1>1
<1>5. ServingTypes'
    <2>1. serving' \in [DOMAIN serving -> Told]
        BY <1>1, <1>3
    <2> QED BY <1>2, <1>4, <2>1 DEF ServingTypes
<1>6. \A t \in DOMAIN serving :
          /\ serving'[t].told = (serving[t].told \ {e \in {d} : t \in out})
                                    \cup {e \in {d} : t \in in}
          /\ serving'[t].current = serving[t].current
          /\ serving'[t].filter = serving[t].filter
    BY <1>3
<1>7. messages' = Append(messages, Document(d, in, out))
    BY <1>1
<1> QED BY ONLY <1>2, <1>4, <1>5, <1>6, <1>7

LEMMA SendDocumentStep ==
    ASSUME WatchIInv, NEW d \in Docs, SendDocument(d) \/ SendModified(d)
    PROVE  WatchIInv'
<1>1. /\ open /\ UNCHANGED <<clientVars, open, requests, results, denied>>
    BY DEF SendDocument, SendModified, CanSend
<1>2. /\ ServingTypes'
      /\ \E in \in SUBSET Targets, out \in SUBSET Targets :
             messages' = Append(messages, Document(d, in, out))
    <2>1. CASE SendDocument(d)
        <3>1. PICK in \in SUBSET Targets, out \in SUBSET Targets :
                  messages' = Append(messages, Document(d, in, out)) /\ ServingTypes'
            BY <2>1, SendDocumentFacts
        <3> QED BY <3>1
    <2>2. CASE SendModified(d)
        <3> DEFINE in == {t \in DOMAIN serving : d \in results[t] \cap serving[t].told}
        <3>1. messages' = Append(messages, Document(d, in, {})) /\ UNCHANGED serving
            BY <2>2 DEF SendModified
        <3>2. ServingTypes /\ in \in SUBSET Targets /\ {} \in SUBSET Targets
            BY WatchParts DEF ServingTypes
        <3> HIDE DEF in
        <3> QED BY <3>1, <3>2 DEF ServingTypes
    <2> QED BY <2>1, <2>2
<1>3. PICK in \in SUBSET Targets, out \in SUBSET Targets :
          messages' = Append(messages, Document(d, in, out))
    BY <1>2
<1>4. messages \in Seq(Message) /\ Known(messages) /\ results \in [Targets -> SUBSET Docs]
    BY DEF WatchIInv, WatchTypeOK, RefusalsAreKnown, Known
<1>5. /\ Document(d, in, out) \in Message
      /\ Document(d, in, out).kind \notin {"added", "removed", "refused"}
    BY MessageKinds
<1>6. /\ messages' \in Seq(Message) /\ Known(messages')
      /\ \A t : Cardinality(AnswersFor(t, messages')) = Cardinality(AnswersFor(t, messages))
    BY <1>3, <1>4, <1>5, Mentioned
<1> QED BY <1>1, <1>2, <1>4, <1>6, ToldStep
(* A target is current, with a filter if its listen was resumed.              *)
LEMMA SendCurrentFacts ==
    ASSUME WatchIInv, NEW u \in Targets, SendCurrent(u)
    PROVE  /\ u \in DOMAIN serving /\ ~serving[u].current /\ serving[u].told = results[u]
           /\ IsFiniteSet(results[u]) /\ Cardinality(results[u]) \in Nat
           /\ ServingTypes' /\ DOMAIN serving' = DOMAIN serving
           /\ \A t \in DOMAIN serving : t # u => serving'[t] = serving[t]
           /\ serving'[u] = [told |-> serving[u].told, current |-> TRUE, filter |-> FALSE]
           /\ IF serving[u].filter
              THEN messages' = Append(Append(messages, Says("current", u)),
                                      Filter(u, Cardinality(results[u])))
              ELSE messages' = Append(messages, Says("current", u))
<1>1. /\ u \in DOMAIN serving /\ ~serving[u].current /\ serving[u].told = results[u]
      /\ serving' = [serving EXCEPT ![u].current = TRUE, ![u].filter = FALSE]
      /\ messages' = messages \o <<Says("current", u)>>
                         \o IF serving[u].filter
                            THEN <<Filter(u, Cardinality(results[u]))>> ELSE <<>>
    BY DEF SendCurrent
<1>2. ServingTypes /\ messages \in Seq(Message) /\ results \in [Targets -> SUBSET Docs]
    BY DEF WatchIInv, WatchTypeOK, ServingTypes
<1>3. IsFiniteSet(results[u])
    BY <1>2, WatchAssumption, FS_Subset
<1>4. Cardinality(results[u]) \in Nat
    BY <1>3, FS_CardinalityType
<1>5. /\ serving[u] \in Told
      /\ serving[u] = [told |-> serving[u].told, current |-> serving[u].current,
                       filter |-> serving[u].filter]
    BY <1>1, <1>2, ServingParts
<1>6. /\ DOMAIN serving' = DOMAIN serving
      /\ \A t \in DOMAIN serving : t # u => serving'[t] = serving[t]
      /\ serving'[u] = [told |-> serving[u].told, current |-> TRUE, filter |-> FALSE]
    BY <1>1, <1>2, <1>5 DEF ServingTypes
<1>7. serving'[u] \in Told
    BY <1>5, <1>6 DEF Told
<1>8. ServingTypes'
    <2>1. serving' = [t \in DOMAIN serving |-> serving'[t]]
        BY <1>1, <1>2 DEF ServingTypes
    <2>2. \A t \in DOMAIN serving : serving'[t] \in Told
        BY <1>2, <1>6, <1>7 DEF ServingTypes
    <2>3. serving' \in [DOMAIN serving -> Told]
        BY <2>1, <2>2
    <2> QED BY <1>2, <1>6, <2>3 DEF ServingTypes
<1> DEFINE c == Says("current", u)
           f == Filter(u, Cardinality(results[u]))
<1>9. c \in Message /\ f \in Message
    BY <1>4, MessageKinds
<1>10. messages \o <<c>> = Append(messages, c) /\ Append(messages, c) \in Seq(Message)
    BY <1>2, <1>9, AppendProperties, AppendIsConcat
<1>11. CASE serving[u].filter
    <2>1. Append(messages, c) \o <<f>> = Append(Append(messages, c), f)
        BY <1>9, <1>10, AppendIsConcat
    <2>2. messages' = (messages \o <<c>>) \o <<f>>
        BY <1>1, <1>11
    <2>3. messages' = Append(Append(messages, c), f)
        BY <1>10, <2>1, <2>2
    <2> QED BY <1>1, <1>3, <1>4, <1>6, <1>8, <1>11, <2>3
<1>12. CASE ~serving[u].filter
    <2>1. Append(messages, c) \o <<>> = Append(messages, c)
        BY <1>10, ConcatEmptySeq
    <2>2. messages' = (messages \o <<c>>) \o <<>>
        BY <1>1, <1>12
    <2>3. messages' = Append(messages, c)
        BY <1>10, <2>1, <2>2
    <2> QED BY <1>1, <1>3, <1>4, <1>6, <1>8, <1>12, <2>3
<1> QED BY <1>11, <1>12

LEMMA SendCurrentStep ==
    ASSUME WatchIInv, NEW u \in Targets, SendCurrent(u)
    PROVE  WatchIInv'
<1> DEFINE c == Says("current", u)
           f == Filter(u, Cardinality(results[u]))
<1>1. /\ open /\ UNCHANGED <<clientVars, open, requests, results, denied>>
    BY DEF SendCurrent, CanSend
<1>2. messages \in Seq(Message) /\ Known(messages) /\ results \in [Targets -> SUBSET Docs]
    BY DEF WatchIInv, WatchTypeOK, RefusalsAreKnown, Known
<1>3. /\ Cardinality(results[u]) \in Nat /\ ServingTypes'
      /\ messages' = Append(messages, c) \/ messages' = Append(Append(messages, c), f)
    BY SendCurrentFacts
<1>4. /\ c \in Message /\ c.kind = "current" /\ f \in Message /\ f.kind = "filter"
    BY <1>3, MessageKinds
<1> HIDE DEF c, f
<1>5. /\ Append(messages, c) \in Seq(Message) /\ Known(Append(messages, c))
      /\ \A t : Cardinality(AnswersFor(t, Append(messages, c))) = Cardinality(AnswersFor(t, messages))
    BY <1>2, <1>4, Mentioned
<1>6. /\ Append(Append(messages, c), f) \in Seq(Message) /\ Known(Append(Append(messages, c), f))
      /\ \A t : Cardinality(AnswersFor(t, Append(Append(messages, c), f))) =
                    Cardinality(AnswersFor(t, Append(messages, c)))
    BY <1>4, <1>5, Mentioned
<1>7. /\ messages' \in Seq(Message) /\ Known(messages')
      /\ \A t : Cardinality(AnswersFor(t, messages')) = Cardinality(AnswersFor(t, messages))
    BY <1>3, <1>5, <1>6
<1> QED BY <1>1, <1>2, <1>3, <1>7, ToldStep

LEMMA SendResetFacts ==
    ASSUME WatchIInv, NEW u \in Targets, SendReset(u)
    PROVE  /\ u \in DOMAIN serving /\ messages' = Append(messages, Says("reset", u))
           /\ ServingTypes' /\ DOMAIN serving' = DOMAIN serving
           /\ \A t \in DOMAIN serving : t # u => serving'[t] = serving[t]
           /\ serving'[u] = [told |-> {}, current |-> FALSE, filter |-> FALSE]
<1>1. /\ u \in DOMAIN serving /\ messages' = Append(messages, Says("reset", u))
      /\ serving' = [serving EXCEPT ![u] = [told |-> {}, current |-> FALSE, filter |-> FALSE]]
    BY DEF SendReset
<1>2. ServingTypes
    BY WatchParts
<1>3. [told |-> {}, current |-> FALSE, filter |-> FALSE] \in Told
    BY DEF Told
<1> QED BY <1>1, <1>2, <1>3 DEF ServingTypes

(* A target is reset, or all of them are consistent, or a document changes.   *)
LEMMA SendResetStep ==
    ASSUME WatchIInv, (\E u \in Targets : SendReset(u)) \/ SendSnapshot
    PROVE  WatchIInv'
<1>1. /\ open /\ UNCHANGED <<clientVars, open, requests, results, denied>>
    BY DEF SendReset, SendSnapshot, CanSend
<1>2. messages \in Seq(Message) /\ Known(messages) /\ results \in [Targets -> SUBSET Docs]
    BY DEF WatchIInv, WatchTypeOK, RefusalsAreKnown, Known
<1>3. PICK m \in Message : /\ m.kind \notin {"added", "removed", "refused"} /\ ServingTypes'
                           /\ messages' = Append(messages, m)
    <2>1. ASSUME NEW u \in Targets, SendReset(u)
          PROVE  \E m \in Message : /\ m.kind \notin {"added", "removed", "refused"} /\ ServingTypes'
                                    /\ messages' = Append(messages, m)
        <3>1. ServingTypes' /\ messages' = Append(messages, Says("reset", u))
            BY <2>1, SendResetFacts
        <3>2. Says("reset", u) \in Message /\ Says("reset", u).kind = "reset"
            BY MessageKinds
        <3> QED BY <3>1, <3>2
    <2>2. ASSUME SendSnapshot
          PROVE  \E m \in Message : /\ m.kind \notin {"added", "removed", "refused"} /\ ServingTypes'
                                    /\ messages' = Append(messages, m)
        <3>1. messages' = Append(messages, Snapshot(results)) /\ UNCHANGED serving
            BY <2>2 DEF SendSnapshot
        <3>2. Snapshot(results) \in Message /\ Snapshot(results).kind = "snapshot"
            BY <1>2, MessageKinds
        <3>3. ServingTypes'
            BY <3>1, WatchParts DEF ServingTypes
        <3> QED BY <3>1, <3>2, <3>3
    <2> QED BY <2>1, <2>2
<1>4. /\ messages' \in Seq(Message) /\ Known(messages')
      /\ \A t : Cardinality(AnswersFor(t, messages')) = Cardinality(AnswersFor(t, messages))
    BY <1>2, <1>3, Mentioned
<1> QED BY <1>1, <1>2, <1>3, <1>4, ToldStep

LEMMA ChangeResultsStep ==
    ASSUME WatchIInv, NEW u \in Targets, NEW d \in Docs, ChangeResults(u, d)
    PROVE  WatchIInv'
<1>1. /\ results' = [results EXCEPT ![u] = IF d \in @ THEN @ \ {d} ELSE @ \cup {d}]
      /\ UNCHANGED <<clientVars, open, requests, messages, serving, news, denied>>
    BY DEF ChangeResults
<1>2. /\ WatchTypeOK /\ ServingTypes' /\ messages' \in Seq(Message)
      /\ results \in [Targets -> SUBSET Docs]
    BY <1>1 DEF WatchIInv, WatchTypeOK, ServingTypes
<1>3. results' \in [Targets -> SUBSET Docs]
    BY <1>1, <1>2
<1>4. CASE open
    <2>1. Known(messages')
        BY <1>1 DEF WatchIInv, RefusalsAreKnown, Known
    <2> QED BY <1>1, <1>2, <1>3, <1>4, <2>1, ToldStep
<1>5. CASE ~open
    <2>1. /\ ~open' /\ states' = <<>> /\ requests' = <<>> /\ messages' = <<>> /\ serving' = <<>>
        BY <1>1, <1>5 DEF WatchIInv, ClosedIsEmpty, clientVars
    <2>2. WatchTypeOK'
        BY <1>1, <1>2, <1>3 DEF WatchTypeOK, clientVars, ServingTypes
    <2>3. RefusalsAreKnown'
        BY <1>1 DEF WatchIInv, RefusalsAreKnown
    <2> QED BY <2>1, <2>2, <2>3, WatchNext
<1> QED BY <1>4, <1>5
(* The backend answers the request at the front.                              *)
LEMMA HandleFacts ==
    ASSUME WatchIInv, HandleRequest
    PROVE  LET u == requests[1].target
               k == requests[1].token
           IN /\ open /\ requests # <<>> /\ requests[1] \in Request /\ u \in Targets
              /\ requests' = Tail(requests)
              /\ UNCHANGED <<clientVars, open, results>>
              /\ ServingTypes'
              /\ \A t : t # u => /\ t \in DOMAIN serving' <=> t \in DOMAIN serving
                                 /\ t \in DOMAIN serving => serving'[t] = serving[t]
              /\ \/ /\ requests[1].kind = "watch" /\ messages' = Append(messages, Says("added", u))
                    /\ denied' = denied
                    /\ u \in DOMAIN serving' /\ ~serving'[u].current
                    /\ k = NoToken => serving'[u].told = {} /\ ~serving'[u].filter
                    /\ k # NoToken => serving'[u].told \subseteq k /\ serving'[u].filter
                 \/ /\ messages' = Append(messages, Says("refused", u))
                    /\ denied' = denied \cup {u} /\ serving' = serving
                 \/ /\ requests[1].kind = "unwatch" /\ messages' = Append(messages, Says("removed", u))
                    /\ denied' = denied /\ serving' = Without(serving, u)
<1> DEFINE u == requests[1].target
           k == requests[1].token
<1>1. /\ open /\ requests # <<>> /\ requests' = Tail(requests)
      /\ UNCHANGED <<clientVars, open, results>>
    BY DEF HandleRequest, CanSend
<1>2. /\ ServingTypes /\ requests \in Seq(Request)
    BY WatchParts
<1>3. requests[1] \in Request /\ Head(requests) = requests[1]
    BY <1>1, <1>2, FrontLeaves
<1>4. u \in Targets /\ k \in Tokens
    BY <1>3 DEF Request
<1>5. \/ requests[1].kind = "watch" /\ AcceptWatch(u, k)
      \/ requests[1].kind = "watch" /\ RefuseWatch(u)
      \/ /\ requests[1].kind = "unwatch"
         /\ serving' = Without(serving, u)
         /\ messages' = Append(messages, Says("removed", u))
         /\ UNCHANGED <<denied, troubles>>
    BY <1>3 DEF HandleRequest
<1> HIDE DEF u, k
<1>6. CASE requests[1].kind = "watch" /\ AcceptWatch(u, k)
    <2>1. messages' = Append(messages, Says("added", u)) /\ denied' = denied
        BY <1>6 DEF AcceptWatch
    <2>2. PICK forgotten \in SUBSET (IF k = NoToken THEN {} ELSE k \ results[u]) :
              serving' = With(serving, u, [told |-> IF k = NoToken THEN {} ELSE k \ forgotten,
                                           current |-> FALSE, filter |-> k # NoToken])
        BY <1>6 DEF AcceptWatch
    <2> DEFINE s == [told |-> IF k = NoToken THEN {} ELSE k \ forgotten,
                     current |-> FALSE, filter |-> k # NoToken]
    <2>3. s \in Told
        <3>1. (IF k = NoToken THEN {} ELSE k \ forgotten) \in SUBSET Docs
            BY <1>4 DEF Tokens
        <3> QED BY <3>1 DEF Told
    <2>4. /\ ~s.current /\ (k = NoToken => s.told = {} /\ ~s.filter)
          /\ (k # NoToken => s.told \subseteq k /\ s.filter)
        OBVIOUS
    <2> HIDE DEF s
    <2>5. serving' = [y \in DOMAIN serving \cup {u} |-> IF y = u THEN s ELSE serving[y]]
        BY <2>2 DEF With, s
    <2>6. /\ DOMAIN serving' = DOMAIN serving \cup {u} /\ serving'[u] = s
          /\ serving' \in [DOMAIN serving' -> Told]
          /\ \A t \in DOMAIN serving : t # u => serving'[t] = serving[t]
        BY <1>2, <2>3, <2>5 DEF ServingTypes
    <2>7. ServingTypes'
        BY <1>2, <1>4, <2>6 DEF ServingTypes
    <2>8. \A t : t # u => /\ t \in DOMAIN serving' <=> t \in DOMAIN serving
                          /\ t \in DOMAIN serving => serving'[t] = serving[t]
        BY <2>6
    <2> QED BY <1>1, <1>3, <1>4, <1>6, <2>1, <2>4, <2>6, <2>7, <2>8 DEF u, k
<1>7. CASE requests[1].kind = "watch" /\ RefuseWatch(u)
    <2>1. /\ messages' = Append(messages, Says("refused", u)) /\ denied' = denied \cup {u}
          /\ serving' = serving
        BY <1>7 DEF RefuseWatch
    <2>2. ServingTypes'
        BY <1>2, <2>1 DEF ServingTypes
    <2> QED BY <1>1, <1>3, <1>4, <2>1, <2>2 DEF u, k
<1>8. CASE /\ requests[1].kind = "unwatch"
           /\ serving' = Without(serving, u)
           /\ messages' = Append(messages, Says("removed", u))
           /\ UNCHANGED <<denied, troubles>>
    <2>1. serving' = [y \in DOMAIN serving \ {u} |-> serving[y]]
        BY <1>8 DEF Without
    <2>2. ServingTypes' /\ DOMAIN serving' = DOMAIN serving \ {u}
        BY <1>2, <2>1 DEF ServingTypes
    <2>3. \A t : t # u => /\ t \in DOMAIN serving' <=> t \in DOMAIN serving
                          /\ t \in DOMAIN serving => serving'[t] = serving[t]
        BY <2>1
    <2> QED BY <1>1, <1>3, <1>4, <1>8, <2>2, <2>3 DEF u, k
<1> QED BY <1>5, <1>6, <1>7, <1>8

LEMMA HandleRequestStep ==
    ASSUME WatchIInv, HandleRequest
    PROVE  WatchIInv'
<1> DEFINE u == requests[1].target
<1>1. /\ open /\ requests # <<>> /\ requests[1] \in Request /\ u \in Targets
      /\ requests' = Tail(requests)
      /\ UNCHANGED <<clientVars, open, results>> /\ ServingTypes'
    BY HandleFacts
<1>2. PICK kind \in {"added", "refused", "removed"} :
          /\ messages' = Append(messages, Says(kind, u))
          /\ denied' = IF kind = "refused" THEN denied \cup {u} ELSE denied
    BY HandleFacts
<1>3. WatchTypeOK /\ requests \in Seq(Request) /\ messages \in Seq(Message)
      /\ Known(messages) /\ \A t \in Targets \ denied : Counted(t)
    BY <1>1, WatchParts DEF WatchIInv, RefusalsAreKnown, Known
<1> DEFINE m == Says(kind, u)
<1>4. m \in Message /\ m.kind = kind /\ m.target = u
    BY <1>1, MessageKinds
<1> HIDE DEF m
<1>5. /\ messages' \in Seq(Message) /\ Len(messages) \in Nat /\ Len(messages') = Len(messages) + 1
      /\ \A i \in 1 .. Len(messages) : messages'[i] = messages[i]
      /\ messages'[Len(messages) + 1] = m
    BY <1>2, <1>3, <1>4, EndGrows DEF m
<1>6. requests' \in Seq(Request)
    BY <1>1, <1>3, FrontLeaves
<1>7. RefusalsAreKnown'
    <2> SUFFICES ASSUME NEW i \in 1 .. Len(messages) + 1, messages'[i].kind = "refused"
                 PROVE  messages'[i].target \in denied'
        BY <1>5 DEF RefusalsAreKnown
    <2>1. CASE i = Len(messages) + 1
        BY <1>2, <1>4, <1>5, <2>1
    <2>2. CASE i # Len(messages) + 1
        <3>1. i \in 1 .. Len(messages)
            BY <1>5, <2>2
        <3> QED BY <1>2, <1>3, <1>5, <3>1 DEF Known
    <2> QED BY <2>1, <2>2
<1>8. ASSUME NEW t \in Targets \ denied'
      PROVE  Counted(t)'
    <2>1. t \in Targets \ denied /\ (kind = "refused" => t # u)
        BY <1>2
    <2>2. /\ Cardinality(RequestsFor(t, requests')) \in Nat
          /\ Cardinality(RequestsFor(t, requests)) =
                 Cardinality(RequestsFor(t, requests')) + One(u = t)
        BY <1>1, <1>3, CountsTail
    <2>3. /\ Cardinality(AnswersFor(t, messages)) \in Nat
          /\ Cardinality(AnswersFor(t, messages')) =
                 Cardinality(AnswersFor(t, messages)) + One(IsAnswer(m, t))
        BY <1>2, <1>3, <1>4, CountsAppend DEF m
    <2>4. One(IsAnswer(m, t)) = One(u = t)
        BY <1>4, <2>1 DEF IsAnswer, One
    <2>5. OnTheWire(t)' = OnTheWire(t)
        BY <2>2, <2>3, <2>4, OnTheWireParts, OnTheWirePartsNext DEF One
    <2>6. EnsureTargetState(t)' = EnsureTargetState(t)
        BY <1>1 DEF EnsureTargetState, clientVars
    <2> QED BY <1>3, <2>1, <2>5, <2>6 DEF Counted
<1>9. WatchTypeOK'
    BY <1>1, <1>3, <1>5, <1>6 DEF WatchTypeOK, clientVars, ServingTypes
<1> QED BY <1>1, <1>7, <1>8, <1>9, WatchNext
-----------------------------------------------------------------------------
(* What the client does with a message                                        *)

LEMMA ReadFacts ==
    ASSUME WatchIInv, NEW kind, Read(kind)
    PROVE  /\ open /\ open' /\ messages # <<>> /\ messages[1] \in Message /\ Head(messages) = messages[1]
           /\ messages[1].kind = kind /\ messages' = Tail(messages)
           /\ messages' \in Seq(Message) /\ RefusalsAreKnown'
           /\ UNCHANGED <<results, serving, denied>>
           /\ kind = "refused" => messages[1].target \in denied
           /\ \A t : /\ Cardinality(AnswersFor(t, messages')) \in Nat
                     /\ Cardinality(AnswersFor(t, messages)) =
                            Cardinality(AnswersFor(t, messages')) + One(IsAnswer(messages[1], t))
<1>1. /\ messages # <<>> /\ Head(messages).kind = kind /\ messages' = Tail(messages)
      /\ UNCHANGED <<open, results, serving, denied>>
    BY DEF Read, backendVars
<1>2. messages \in Seq(Message) /\ open
    BY <1>1 DEF WatchIInv, WatchTypeOK, ClosedIsEmpty
<1>3. /\ Head(messages) = messages[1] /\ messages[1] \in Message /\ 1 \in 1 .. Len(messages)
      /\ messages' \in Seq(Message)
      /\ \A i \in 1 .. Len(messages') : i + 1 \in 1 .. Len(messages) /\ messages'[i] = messages[i + 1]
    BY <1>1, <1>2, FrontLeaves
<1>4. RefusalsAreKnown'
    BY <1>1, <1>3 DEF WatchIInv, RefusalsAreKnown
<1>5. kind = "refused" => messages[1].target \in denied
    BY <1>1, <1>3 DEF WatchIInv, RefusalsAreKnown
<1>6. \A t : /\ Cardinality(AnswersFor(t, messages')) \in Nat
             /\ Cardinality(AnswersFor(t, messages)) =
                    Cardinality(AnswersFor(t, messages')) + One(IsAnswer(messages[1], t))
    BY <1>1, <1>2, CountsTail
<1> QED BY <1>1, <1>2, <1>3, <1>4, <1>5, <1>6

(* A message that is read leaves the wire, and its target waits for one less  *)
(* if it is an answer.                                                        *)
LEMMA ReadStep ==
    ASSUME WatchIInv, NEW kind, Read(kind), StateTypes',
           UNCHANGED <<token, stored, keys, current, requests>>,
           listening' \in SUBSET listening,
           \A t \in Targets \ denied :
               EnsureTargetState(t)'.outstanding =
                   EnsureTargetState(t).outstanding - One(IsAnswer(messages[1], t))
    PROVE  WatchIInv'
<1>1. /\ open' /\ messages' \in Seq(Message) /\ RefusalsAreKnown'
      /\ UNCHANGED <<results, serving, denied>>
      /\ \A t : /\ Cardinality(AnswersFor(t, messages')) \in Nat
                /\ Cardinality(AnswersFor(t, messages)) =
                       Cardinality(AnswersFor(t, messages')) + One(IsAnswer(messages[1], t))
    BY ReadFacts
<1>2. open /\ WatchTypeOK /\ \A t \in Targets \ denied : Counted(t)
    BY ReadFacts, WatchParts DEF WatchIInv
<1>3. ASSUME NEW t \in Targets \ denied'
      PROVE  Counted(t)'
    <2>1. t \in Targets \ denied
        BY <1>1
    <2>2. Cardinality(RequestsFor(t, requests)) \in Nat
        BY <1>2, CountsAreNumbers DEF WatchTypeOK
    <2>3. OnTheWire(t)' = OnTheWire(t) - One(IsAnswer(messages[1], t))
        BY <1>1, <2>2, OnTheWireParts, OnTheWirePartsNext DEF One
    <2> QED BY <1>2, <2>1, <2>3 DEF Counted
<1>4. IsFiniteSet(listening')
    BY <1>2, FS_Subset DEF WatchTypeOK
<1>5. WatchTypeOK'
    BY <1>1, <1>2, <1>4 DEF WatchTypeOK, StateTypes
<1> QED BY <1>1, <1>3, <1>5, WatchNext

LEMMA AnsweredParts ==
    ASSUME StateTypes, NEW t
    PROVE  /\ Answered(t) \in TargetState
           /\ Answered(t).outstanding = EnsureTargetState(t).outstanding - 1
           /\ Answered(t).current = EnsureTargetState(t).current
           /\ Answered(t).changes = EnsureTargetState(t).changes
<1>1. EnsureTargetState(t) \in TargetState /\ EnsureTargetState(t).outstanding \in Int
    BY StateParts
<1>2. /\ Answered(t) \in TargetState
      /\ Answered(t).outstanding = EnsureTargetState(t).outstanding + -1
      /\ Answered(t).current = EnsureTargetState(t).current
      /\ Answered(t).changes = EnsureTargetState(t).changes
    BY <1>1, RecordParts DEF Answered
<1> QED BY <1>1, <1>2

(* The target that a message is about.                                        *)
LEMMA MessageTarget ==
    ASSUME WatchIInv, NEW kind, Read(kind), kind \notin {"document", "snapshot"},
           NEW u, u = messages[1].target
    PROVE  /\ u \in Targets /\ Head(messages).target = u /\ StateTypes
           /\ kind \in {"added", "removed"} =>
                  IsAnswer(messages[1], u) /\ \A t : t # u => ~IsAnswer(messages[1], t)
           /\ kind \notin {"added", "removed"} => \A t : ~IsAnswer(messages[1], t)
<1>1. Head(messages) = messages[1] /\ messages[1] \in Message /\ messages[1].kind = kind
    BY ReadFacts
<1>2. u \in Targets
    BY <1>1, MessageParts
<1> QED BY <1>1, <1>2, WatchParts DEF IsAnswer

(* One answer less to come; the last clears what came before it.              *)
LEMMA TargetAddedFacts ==
    ASSUME WatchIInv, TargetAdded, NEW u, u = messages[1].target
    PROVE  /\ Read("added") /\ u \in Targets /\ StateTypes'
           /\ UNCHANGED <<listening, token, stored, keys, current, astray, requests>>
           /\ IsAnswer(messages[1], u)
           /\ \A t : t # u => EnsureTargetState(t)' = EnsureTargetState(t) /\ ~IsAnswer(messages[1], t)
           /\ EnsureTargetState(u)'.outstanding = EnsureTargetState(u).outstanding - 1
           /\ DOMAIN states' = DOMAIN states \cup {u}
           /\ EnsureTargetState(u)'.outstanding = 0 => EnsureTargetState(u)'.changes = <<>>
           /\ \/ EnsureTargetState(u)'.changes = <<>>
              \/ EnsureTargetState(u)'.changes = EnsureTargetState(u).changes
<1> DEFINE s == IF Answered(u).outstanding = 0
                THEN [Answered(u) EXCEPT !.changes = <<>>] ELSE Answered(u)
<1>1. Read("added")
    BY DEF TargetAdded
<1>2. /\ u \in Targets /\ Head(messages).target = u /\ StateTypes /\ IsAnswer(messages[1], u)
      /\ \A t : t # u => ~IsAnswer(messages[1], t)
    BY <1>1, MessageTarget
<1>3. /\ states' = WithState(u, s)
      /\ UNCHANGED <<listening, token, stored, keys, current, astray, requests>>
    BY <1>2 DEF TargetAdded, BecomesState
<1>4. /\ Answered(u) \in TargetState
      /\ Answered(u).outstanding = EnsureTargetState(u).outstanding - 1
      /\ Answered(u).changes = EnsureTargetState(u).changes
    BY <1>2, AnsweredParts
<1>5. /\ s \in TargetState /\ s.outstanding = Answered(u).outstanding
      /\ s.outstanding = 0 => s.changes = <<>>
      /\ s.changes = <<>> \/ s.changes = Answered(u).changes
    BY <1>4, NoChanges DEF TargetState
<1> HIDE DEF s
<1>6. /\ StateTypes' /\ EnsureTargetState(u)' = s /\ DOMAIN states' = DOMAIN states \cup {u}
      /\ \A t : t # u => EnsureTargetState(t)' = EnsureTargetState(t)
    BY <1>2, <1>3, <1>5, OneState
<1> QED BY <1>1, <1>2, <1>3, <1>4, <1>5, <1>6

(* One answer less to come; the last removes the target.                      *)
LEMMA TargetRemovedFacts ==
    ASSUME WatchIInv, TargetRemoved, NEW u, u = messages[1].target
    PROVE  /\ Read("removed") /\ u \in Targets /\ StateTypes'
           /\ UNCHANGED <<listening, token, stored, keys, current, astray, requests>>
           /\ IsAnswer(messages[1], u)
           /\ \A t : t # u => EnsureTargetState(t)' = EnsureTargetState(t) /\ ~IsAnswer(messages[1], t)
           /\ EnsureTargetState(u)'.outstanding = EnsureTargetState(u).outstanding - 1
           /\ \/ EnsureTargetState(u)'.changes = <<>>
              \/ EnsureTargetState(u)'.changes = EnsureTargetState(u).changes
<1>1. Read("removed")
    BY DEF TargetRemoved
<1>2. /\ u \in Targets /\ Head(messages).target = u /\ StateTypes /\ IsAnswer(messages[1], u)
      /\ \A t : t # u => ~IsAnswer(messages[1], t)
    BY <1>1, MessageTarget
<1>3. /\ states' = IF Answered(u).outstanding = 0
                   THEN Without(states, u) ELSE WithState(u, Answered(u))
      /\ UNCHANGED <<listening, token, stored, keys, current, astray, requests>>
    BY <1>2 DEF TargetRemoved
<1>4. /\ Answered(u) \in TargetState
      /\ Answered(u).outstanding = EnsureTargetState(u).outstanding - 1
      /\ Answered(u).changes = EnsureTargetState(u).changes
    BY <1>2, AnsweredParts
<1>5. /\ StateTypes' /\ EnsureTargetState(u)'.outstanding = Answered(u).outstanding
      /\ EnsureTargetState(u)'.changes = <<>> \/ EnsureTargetState(u)'.changes = Answered(u).changes
      /\ \A t : t # u => EnsureTargetState(t)' = EnsureTargetState(t)
    <2>1. CASE Answered(u).outstanding = 0
        <3>1. states' = Without(states, u)
            BY <1>3, <2>1
        <3>2. /\ StateTypes' /\ EnsureTargetState(u)' = FreshState
              /\ \A t : t # u => EnsureTargetState(t)' = EnsureTargetState(t)
            BY <1>2, <3>1, NoState
        <3> QED BY <2>1, <3>2, FreshParts
    <2>2. CASE Answered(u).outstanding # 0
        <3>1. states' = WithState(u, Answered(u))
            BY <1>3, <2>2
        <3>2. /\ StateTypes' /\ EnsureTargetState(u)' = Answered(u)
              /\ \A t : t # u => EnsureTargetState(t)' = EnsureTargetState(t)
            BY <1>2, <1>4, <3>1, OneState
        <3> QED BY <3>2
    <2> QED BY <2>1, <2>2
<1> QED BY <1>1, <1>2, <1>3, <1>4, <1>5

LEMMA AnswerStep ==
    ASSUME WatchIInv, TargetAdded \/ TargetRemoved
    PROVE  WatchIInv'
<1>1. PICK u : u = messages[1].target
    OBVIOUS
<1>2. PICK kind :
          /\ Read(kind) /\ StateTypes'
          /\ UNCHANGED <<listening, token, stored, keys, current, requests>>
          /\ IsAnswer(messages[1], u)
          /\ \A t : t # u => EnsureTargetState(t)' = EnsureTargetState(t) /\ ~IsAnswer(messages[1], t)
          /\ EnsureTargetState(u)'.outstanding = EnsureTargetState(u).outstanding - 1
    BY <1>1, TargetAddedFacts, TargetRemovedFacts
<1>3. ASSUME NEW t \in Targets
      PROVE  EnsureTargetState(t)'.outstanding =
                 EnsureTargetState(t).outstanding - One(IsAnswer(messages[1], t))
    <2>1. EnsureTargetState(t).outstanding \in Int
        BY WatchParts, StateParts
    <2>2. CASE t = u
        BY <1>2, <2>1, <2>2 DEF One
    <2>3. CASE t # u
        BY <1>2, <2>1, <2>3 DEF One
    <2> QED BY <2>2, <2>3
<1> QED BY <1>2, <1>3, ReadStep

(* A message that is no answer.                                               *)
LEMMA OtherReadStep ==
    ASSUME WatchIInv, NEW kind, Read(kind), kind \notin {"added", "removed"}, StateTypes',
           UNCHANGED <<token, stored, keys, current, requests>>,
           listening' \in SUBSET listening,
           \A t \in Targets \ denied :
               EnsureTargetState(t)'.outstanding = EnsureTargetState(t).outstanding
    PROVE  WatchIInv'
<1>1. \A t : ~IsAnswer(messages[1], t)
    <2>1. messages[1].kind = kind
        BY ReadFacts
    <2> QED BY <2>1 DEF IsAnswer
<1>2. ASSUME NEW t \in Targets \ denied
      PROVE  EnsureTargetState(t)'.outstanding =
                 EnsureTargetState(t).outstanding - One(IsAnswer(messages[1], t))
    <2>1. EnsureTargetState(t).outstanding \in Int
        BY WatchParts, StateParts
    <2> QED BY <1>1, <2>1 DEF One
<1> QED BY <1>2, ReadStep

(* What a reset of the target's state leaves: removes of all that was there.  *)
LEMMA ResetParts ==
    ASSUME WatchIInv, NEW u \in Targets
    PROVE  /\ ResetTarget(u) \in TargetState
           /\ ResetTarget(u).outstanding = 0 /\ ~ResetTarget(u).current
           /\ ResetTarget(u).changes = [d \in keys[u] |-> "removed"]
<1> DEFINE c == [d \in keys[u] |-> "removed"]
<1>1. ResetTarget(u) = [outstanding |-> 0, current |-> FALSE, changes |-> c]
    <2>1. ResetTarget(u) = [FreshState EXCEPT !.changes = c]
        BY DEF ResetTarget
    <2>2. FreshState = [outstanding |-> 0, current |-> FALSE, changes |-> <<>>]
        BY DEF FreshState
    <2> HIDE DEF c
    <2> QED BY <2>1, <2>2
<1>2. keys[u] \in SUBSET Docs
    BY DEF WatchIInv, WatchTypeOK
<1>3. [d \in keys[u] |-> "removed"] \in DocumentChanges
    BY <1>2 DEF DocumentChanges
<1> QED BY <1>1, <1>3 DEF TargetState

(* A target is current, if it waits for nothing.                              *)
LEMMA TargetCurrentFacts ==
    ASSUME WatchIInv, TargetCurrent, NEW u, u = messages[1].target
    PROVE  /\ Read("current") /\ u \in Targets /\ StateTypes'
           /\ UNCHANGED <<listening, token, stored, keys, current, astray, requests>>
           /\ \A t : t # u => EnsureTargetState(t)' = EnsureTargetState(t)
           /\ EnsureTargetState(u)'.outstanding = EnsureTargetState(u).outstanding
           /\ EnsureTargetState(u)'.changes = EnsureTargetState(u).changes
           /\ IsActiveTarget(u) => EnsureTargetState(u)'.current
           /\ ~IsActiveTarget(u) => EnsureTargetState(u)' = EnsureTargetState(u)
<1> DEFINE s == IF IsActiveTarget(u)
                THEN [EnsureTargetState(u) EXCEPT !.current = TRUE] ELSE EnsureTargetState(u)
<1>1. Read("current")
    BY DEF TargetCurrent
<1>2. /\ u \in Targets /\ Head(messages).target = u /\ StateTypes
    BY <1>1, MessageTarget
<1>3. /\ states' = WithState(u, s)
      /\ UNCHANGED <<listening, token, stored, keys, current, astray, requests>>
    BY <1>2 DEF TargetCurrent, BecomesState
<1>4. EnsureTargetState(u) \in TargetState
    BY <1>2, StateParts
<1>5. /\ s \in TargetState /\ s.outstanding = EnsureTargetState(u).outstanding
      /\ s.changes = EnsureTargetState(u).changes
      /\ IsActiveTarget(u) => s.current
      /\ ~IsActiveTarget(u) => s = EnsureTargetState(u)
    BY <1>4 DEF TargetState
<1> HIDE DEF s
<1>6. /\ StateTypes' /\ EnsureTargetState(u)' = s
      /\ \A t : t # u => EnsureTargetState(t)' = EnsureTargetState(t)
    BY <1>2, <1>3, <1>5, OneState
<1> QED BY <1>1, <1>2, <1>3, <1>5, <1>6

(* A target starts anew, if it waits for nothing.                             *)
LEMMA TargetResetFacts ==
    ASSUME WatchIInv, TargetReset, NEW u, u = messages[1].target
    PROVE  /\ Read("reset") /\ u \in Targets /\ StateTypes'
           /\ UNCHANGED <<listening, token, stored, keys, current, astray, requests>>
           /\ \A t : t # u => EnsureTargetState(t)' = EnsureTargetState(t)
           /\ EnsureTargetState(u)'.outstanding = EnsureTargetState(u).outstanding
           /\ IsActiveTarget(u) => EnsureTargetState(u)' = ResetTarget(u)
           /\ ~IsActiveTarget(u) => EnsureTargetState(u)' = EnsureTargetState(u)
<1> DEFINE s == IF IsActiveTarget(u) THEN ResetTarget(u) ELSE EnsureTargetState(u)
<1>1. Read("reset")
    BY DEF TargetReset
<1>2. /\ u \in Targets /\ Head(messages).target = u /\ StateTypes
    BY <1>1, MessageTarget
<1>3. /\ states' = WithState(u, s)
      /\ UNCHANGED <<listening, token, stored, keys, current, astray, requests>>
    BY <1>2 DEF TargetReset, BecomesState
<1>4. EnsureTargetState(u) \in TargetState
    BY <1>2, StateParts
<1>5. IsActiveTarget(u) => EnsureTargetState(u).outstanding = 0
    BY DEF IsActiveTarget
<1>6. /\ s \in TargetState /\ s.outstanding = EnsureTargetState(u).outstanding
      /\ IsActiveTarget(u) => s = ResetTarget(u)
      /\ ~IsActiveTarget(u) => s = EnsureTargetState(u)
    BY <1>2, <1>4, <1>5, ResetParts
<1> HIDE DEF s
<1>7. /\ StateTypes' /\ EnsureTargetState(u)' = s
      /\ \A t : t # u => EnsureTargetState(t)' = EnsureTargetState(t)
    BY <1>2, <1>3, <1>6, OneState
<1> QED BY <1>1, <1>2, <1>3, <1>6, <1>7

(* A target that was refused is not listened to any more.                     *)
LEMMA ProcessTargetErrorFacts ==
    ASSUME WatchIInv, ProcessTargetError, NEW u, u = messages[1].target
    PROVE  /\ Read("refused") /\ u \in Targets /\ u \in denied /\ StateTypes'
           /\ listening' = listening \ {u}
           /\ UNCHANGED <<token, stored, keys, current, astray, requests>>
           /\ \A t : t # u => EnsureTargetState(t)' = EnsureTargetState(t)
           /\ \/ EnsureTargetState(u)'.changes = <<>>
              \/ EnsureTargetState(u)'.changes = EnsureTargetState(u).changes
<1>1. Read("refused")
    BY DEF ProcessTargetError
<1>2. /\ u \in Targets /\ Head(messages).target = u /\ StateTypes /\ u \in denied
    BY <1>1, MessageTarget, ReadFacts
<1>3. /\ listening' = listening \ {u}
      /\ states' = IF u \in listening THEN Without(states, u) ELSE states
      /\ UNCHANGED <<token, stored, keys, current, astray, requests>>
    BY <1>2 DEF ProcessTargetError
<1>4. CASE u \in listening
    <2>1. states' = Without(states, u)
        BY <1>3, <1>4
    <2>2. StateTypes' /\ \A t : t # u => EnsureTargetState(t)' = EnsureTargetState(t)
        BY <1>2, <2>1, NoState
    <2>3. EnsureTargetState(u)' = FreshState
        BY <2>1 DEF EnsureTargetState, Without
    <2>4. FreshState.changes = <<>>
        BY DEF FreshState
    <2> QED BY <1>1, <1>2, <1>3, <2>2, <2>3, <2>4
<1>5. CASE u \notin listening
    <2>1. UNCHANGED states
        BY <1>3, <1>5
    <2>2. StateTypes' /\ \A t : EnsureTargetState(t)' = EnsureTargetState(t)
        BY <1>2, <2>1 DEF StateTypes, EnsureTargetState
    <2> QED BY <1>1, <1>2, <1>3, <2>2
<1> QED BY <1>4, <1>5

(* A target whose count does not match starts anew, if it waits for nothing.  *)
LEMMA HandleExistenceFilterFacts ==
    ASSUME WatchIInv, HandleExistenceFilter, NEW u, u = messages[1].target
    PROVE  /\ Read("filter") /\ u \in Targets /\ StateTypes'
           /\ UNCHANGED <<listening, token, stored, keys, current, astray, requests>>
           /\ \A t : t # u => EnsureTargetState(t)' = EnsureTargetState(t)
           /\ EnsureTargetState(u)'.outstanding = EnsureTargetState(u).outstanding
           /\ IF IsActiveTarget(u) /\ GetCurrentDocumentCountForTarget(u) # messages[1].count
              THEN EnsureTargetState(u)' = ResetTarget(u)
              ELSE EnsureTargetState(u)' = EnsureTargetState(u)
<1>1. Read("filter")
    BY DEF HandleExistenceFilter
<1>2. /\ u \in Targets /\ Head(messages).target = u /\ StateTypes
      /\ Head(messages) = messages[1]
    BY <1>1, MessageTarget, ReadFacts
<1>3. /\ IF IsActiveTarget(u) /\ GetCurrentDocumentCountForTarget(u) # messages[1].count
         THEN states' = WithState(u, ResetTarget(u))
         ELSE UNCHANGED states
      /\ UNCHANGED <<listening, token, stored, keys, current, astray, requests>>
    BY <1>2 DEF HandleExistenceFilter
<1>4. CASE IsActiveTarget(u) /\ GetCurrentDocumentCountForTarget(u) # messages[1].count
    <2>1. ResetTarget(u) \in TargetState /\ ResetTarget(u).outstanding = 0
        BY <1>2, ResetParts
    <2>2. states' = WithState(u, ResetTarget(u))
        BY <1>3, <1>4
    <2>3. /\ StateTypes' /\ EnsureTargetState(u)' = ResetTarget(u)
          /\ \A t : t # u => EnsureTargetState(t)' = EnsureTargetState(t)
        BY <1>2, <2>1, <2>2, OneState
    <2>4. EnsureTargetState(u).outstanding = 0
        BY <1>4 DEF IsActiveTarget
    <2> QED BY <1>1, <1>2, <1>3, <1>4, <2>1, <2>3, <2>4
<1>5. CASE ~(IsActiveTarget(u) /\ GetCurrentDocumentCountForTarget(u) # messages[1].count)
    <2>1. UNCHANGED states
        BY <1>3, <1>5
    <2>2. StateTypes' /\ \A t : EnsureTargetState(t)' = EnsureTargetState(t)
        BY <1>2, <2>1 DEF StateTypes, EnsureTargetState
    <2> QED BY <1>1, <1>2, <1>3, <1>5, <2>2
<1> QED BY <1>4, <1>5

LEMMA TargetChangeStep ==
    ASSUME WatchIInv,
           TargetCurrent \/ TargetReset \/ ProcessTargetError \/ HandleExistenceFilter
    PROVE  WatchIInv'
<1>1. PICK u : u = messages[1].target
    OBVIOUS
<1>2. CASE TargetCurrent \/ TargetReset \/ HandleExistenceFilter
    <2>1. PICK kind \in {"current", "reset", "filter"} :
              /\ Read(kind) /\ StateTypes'
              /\ UNCHANGED <<listening, token, stored, keys, current, requests>>
              /\ \A t : EnsureTargetState(t)'.outstanding = EnsureTargetState(t).outstanding
        BY <1>1, <1>2, TargetCurrentFacts, TargetResetFacts, HandleExistenceFilterFacts
    <2> QED BY <2>1, OtherReadStep
<1>3. CASE ProcessTargetError
    <2>1. /\ Read("refused") /\ u \in denied /\ StateTypes' /\ listening' \in SUBSET listening
          /\ UNCHANGED <<token, stored, keys, current, requests>>
          /\ \A t : t # u => EnsureTargetState(t)' = EnsureTargetState(t)
        BY <1>1, <1>3, ProcessTargetErrorFacts
    <2> QED BY <2>1, OtherReadStep
<1> QED BY <1>2, <1>3

LEMMA ChangesGrow ==
    ASSUME NEW c \in DocumentChanges, NEW d \in Docs, NEW kind \in {"added", "modified", "removed"}
    PROVE  /\ With(c, d, kind) \in DocumentChanges /\ Without(c, d) \in DocumentChanges
           /\ DOMAIN With(c, d, kind) = DOMAIN c \cup {d} /\ With(c, d, kind)[d] = kind
           /\ DOMAIN Without(c, d) = DOMAIN c \ {d}
           /\ \A e \in DOMAIN c : e # d => With(c, d, kind)[e] = c[e] /\ Without(c, d)[e] = c[e]
<1> DEFINE Kinds == {"added", "modified", "removed"}
<1>1. PICK D \in SUBSET Docs : c \in [D -> Kinds]
    BY DEF DocumentChanges
<1>2. With(c, d, kind) \in [D \cup {d} -> Kinds] /\ Without(c, d) \in [D \ {d} -> Kinds]
    BY <1>1 DEF With, Without
<1>3. D \cup {d} \in SUBSET Docs /\ D \ {d} \in SUBSET Docs
    OBVIOUS
<1>4. With(c, d, kind) \in DocumentChanges /\ Without(c, d) \in DocumentChanges
    BY <1>2, <1>3 DEF DocumentChanges
<1> QED BY <1>1, <1>4 DEF With, Without

(* A document is a change for the targets that wait for nothing.              *)
LEMMA DocumentFacts ==
    ASSUME WatchIInv, HandleDocumentChange, NEW m, m = messages[1]
    PROVE  /\ Read("document") /\ StateTypes'
           /\ m \in Message /\ m.kind = "document" /\ m.doc \in Docs
           /\ UNCHANGED <<listening, token, stored, keys, current, astray, requests>>
           /\ \A t \in Targets :
                  EnsureTargetState(t)' =
                      IF t \in m.updated /\ IsActiveTarget(t)
                      THEN AddDocumentToTarget(EnsureTargetState(t), t, m.doc)
                      ELSE IF t \in m.removed /\ IsActiveTarget(t)
                           THEN RemoveDocumentFromTarget(EnsureTargetState(t), t, m.doc)
                           ELSE EnsureTargetState(t)
           /\ \A t \in Targets :
                  /\ EnsureTargetState(t)'.outstanding = EnsureTargetState(t).outstanding
                  /\ EnsureTargetState(t)'.current = EnsureTargetState(t).current
<1> DEFINE In(t) == t \in m.updated /\ IsActiveTarget(t)
           Out(t) == t \in m.removed /\ IsActiveTarget(t)
           D == {t \in Targets : In(t) \/ Out(t)}
           New(t) == IF In(t) THEN AddDocumentToTarget(EnsureTargetState(t), t, m.doc)
                     ELSE IF Out(t) THEN RemoveDocumentFromTarget(EnsureTargetState(t), t, m.doc)
                     ELSE EnsureTargetState(t)
<1>1. Read("document")
    BY DEF HandleDocumentChange
<1>2. /\ m \in Message /\ m.kind = "document" /\ m.doc \in Docs /\ Head(messages) = m
    BY <1>1, ReadFacts, MessageParts
<1>3. /\ states' = [t \in DOMAIN states \cup D |->
                       IF In(t) THEN AddDocumentToTarget(EnsureTargetState(t), t, m.doc)
                       ELSE IF Out(t) THEN RemoveDocumentFromTarget(EnsureTargetState(t), t, m.doc)
                       ELSE states[t]]
      /\ UNCHANGED <<listening, token, stored, keys, current, astray, requests>>
    BY <1>2 DEF HandleDocumentChange
<1>4. \A t : EnsureTargetState(t) \in TargetState
    BY WatchParts, StateParts
<1>5. \A t \in Targets :
          /\ New(t) \in TargetState
          /\ New(t).outstanding = EnsureTargetState(t).outstanding
          /\ New(t).current = EnsureTargetState(t).current
    <2> TAKE t \in Targets
    <2> DEFINE s == EnsureTargetState(t)
               kind == IF m.doc \in keys[t] THEN "modified" ELSE "added"
    <2>1. s \in TargetState /\ s.changes \in DocumentChanges
        BY <1>4 DEF TargetState
    <2>2. kind \in {"added", "modified", "removed"}
        OBVIOUS
    <2> HIDE DEF s, kind
    <2>3. /\ With(s.changes, m.doc, kind) \in DocumentChanges
          /\ With(s.changes, m.doc, "removed") \in DocumentChanges
          /\ Without(s.changes, m.doc) \in DocumentChanges
        BY <1>2, <2>1, <2>2, ChangesGrow
    <2>4. /\ AddDocumentToTarget(s, t, m.doc) \in TargetState
          /\ AddDocumentToTarget(s, t, m.doc).outstanding = s.outstanding
          /\ AddDocumentToTarget(s, t, m.doc).current = s.current
        BY <2>1, <2>3 DEF AddDocumentToTarget, TargetState, kind
    <2>5. /\ RemoveDocumentFromTarget(s, t, m.doc) \in TargetState
          /\ RemoveDocumentFromTarget(s, t, m.doc).outstanding = s.outstanding
          /\ RemoveDocumentFromTarget(s, t, m.doc).current = s.current
        BY <2>1, <2>3 DEF RemoveDocumentFromTarget, TargetState
    <2>6. New(t) \in {s, AddDocumentToTarget(s, t, m.doc), RemoveDocumentFromTarget(s, t, m.doc)}
        BY DEF s
    <2> QED BY <2>1, <2>4, <2>5, <2>6 DEF s
<1>6. DOMAIN states \subseteq Targets /\ DOMAIN states' = DOMAIN states \cup D
    BY <1>3, WatchParts DEF StateTypes
<1>7. \A t \in DOMAIN states \cup D : states'[t] = New(t)
    <2>1. \A t \in DOMAIN states : EnsureTargetState(t) = states[t]
        BY DEF EnsureTargetState
    <2> HIDE DEF In, Out
    <2> QED BY <1>3, <2>1 DEF D
<1>8. \A t \in Targets : EnsureTargetState(t)' = New(t)
    <2> TAKE t \in Targets
    <2>1. CASE t \in DOMAIN states \cup D
        BY <1>6, <1>7, <2>1 DEF EnsureTargetState
    <2>2. CASE t \notin DOMAIN states \cup D
        <3>1. ~In(t) /\ ~Out(t) /\ t \notin DOMAIN states /\ t \notin DOMAIN states'
            BY <1>6, <2>2
        <3> QED BY <3>1 DEF EnsureTargetState
    <2> QED BY <2>1, <2>2
<1>9. StateTypes'
    <2>1. D \subseteq Targets
        OBVIOUS
    <2> HIDE DEF New, D
    <2>2. \A t \in DOMAIN states' : states'[t] \in TargetState
        BY <1>5, <1>6, <1>7, <2>1
    <2>3. states' = [t \in DOMAIN states' |-> states'[t]]
        BY <1>3
    <2> QED BY <1>6, <2>1, <2>2, <2>3 DEF StateTypes
<1> QED BY <1>1, <1>2, <1>3, <1>5, <1>8, <1>9

LEMMA DocumentStep ==
    ASSUME WatchIInv, HandleDocumentChange
    PROVE  WatchIInv'
<1>1. PICK m : m = messages[1]
    OBVIOUS
<1>2. /\ Read("document") /\ StateTypes'
      /\ UNCHANGED <<listening, token, stored, keys, current, requests>>
      /\ \A t \in Targets : EnsureTargetState(t)'.outstanding = EnsureTargetState(t).outstanding
    BY <1>1, DocumentFacts
<1> QED BY <1>2, OtherReadStep

LEMMA ChangedFacts ==
    ASSUME NEW s \in TargetState, NEW kind
    PROVE  Changed(s, kind) \in SUBSET Docs
<1>1. s.changes \in DocumentChanges
    BY DEF TargetState
<1> QED BY <1>1 DEF Changed, DocumentChanges

LEMMA HasParts ==
    ASSUME WatchIInv, NEW t \in Targets
    PROVE  /\ keys[t] \in SUBSET Docs /\ Has(t) \in SUBSET Docs
           /\ EnsureTargetState(t).changes = <<>> => Has(t) = keys[t]
<1>1. EnsureTargetState(t) \in TargetState
    BY WatchParts, StateParts
<1>2. Changed(EnsureTargetState(t), "added") \in SUBSET Docs
    BY <1>1, ChangedFacts
<1>3. keys[t] \in SUBSET Docs
    BY DEF WatchIInv, WatchTypeOK
<1>4. ASSUME EnsureTargetState(t).changes = <<>>
      PROVE  \A kind : Changed(EnsureTargetState(t), kind) = {}
    BY <1>4, NoChanges DEF Changed
<1>5. EnsureTargetState(t).changes = <<>> => Has(t) = keys[t]
    BY <1>4 DEF Has
<1> QED BY <1>2, <1>3, <1>5 DEF Has

(* A snapshot: what each target has, and which are listened to again.         *)
Again == mismatched \cap listening

LEMMA SnapshotFacts ==
    ASSUME WatchIInv, RaiseWatchSnapshot
    PROVE  /\ Read("snapshot") /\ StateTypes'
           /\ messages[1] \in Message /\ messages[1].kind = "snapshot" /\ messages[1].holds \in [Targets -> SUBSET Docs]
           /\ Again \in SUBSET Targets /\ IsFiniteSet(Again)
           /\ UNCHANGED listening
           /\ token' \in [Targets -> Tokens] /\ stored' \in [Targets -> Tokens]
           /\ keys' \in [Targets -> SUBSET Docs] /\ current' \in [Targets -> BOOLEAN]
           /\ \A t \in Targets :
                  /\ t \in Included => /\ keys'[t] = Has(t)
                                       /\ current'[t] = EnsureTargetState(t).current
                                       /\ EnsureTargetState(t)'.changes = <<>>
                  /\ t \notin Included =>
                         /\ keys'[t] = keys[t]
                         /\ EnsureTargetState(t)'.changes = EnsureTargetState(t).changes
                  /\ EnsureTargetState(t)'.current = EnsureTargetState(t).current
                  /\ EnsureTargetState(t)'.outstanding =
                         EnsureTargetState(t).outstanding + (IF t \in Again THEN 2 ELSE 0)
           /\ astray' = (astray \ Again) \cup {t \in Again : Misleads(NoToken, keys'[t])}
           /\ WithRewatch(requests, Again, requests')
<1>0. PICK m, again : m = messages[1] /\ again = Again
    OBVIOUS
<1> DEFINE New(t) == RecordPendingTargetRequest(
                         IF t \in Included THEN [states[t] EXCEPT !.changes = <<>>]
                                           ELSE EnsureTargetState(t),
                         IF t \in again THEN 2 ELSE 0)
<1>1. Read("snapshot")
    BY DEF RaiseWatchSnapshot
<1>2. /\ m \in Message /\ m.kind = "snapshot" /\ m.holds \in [Targets -> SUBSET Docs]
      /\ Head(messages) = m
    BY <1>0, <1>1, ReadFacts, MessageParts
<1>3. TakeSnapshot(m.holds, again)
    BY <1>0, <1>2 DEF RaiseWatchSnapshot, Again
<1>4. WatchTypeOK /\ StateTypes
    BY WatchParts DEF WatchIInv
<1>5. again \in SUBSET Targets /\ IsFiniteSet(again)
    <2>1. again \subseteq listening
        BY <1>0 DEF Again
    <2> QED BY <1>4, <2>1, FS_Subset DEF WatchTypeOK
<1>6. \A t \in Included : states[t] = EnsureTargetState(t)
    BY DEF Included, EnsureTargetState
<1>7. keys' = [t \in Targets |->
                  IF t \in Included
                  THEN (keys[t] \cup Changed(states[t], "added")) \ Changed(states[t], "removed")
                  ELSE keys[t]]
    BY <1>3 DEF TakeSnapshot
<1>8. \A t \in Targets : keys'[t] = IF t \in Included THEN Has(t) ELSE keys[t]
    BY <1>6, <1>7 DEF Has
<1>9. keys' \in [Targets -> SUBSET Docs]
    <2>1. \A t \in Targets : keys'[t] \in SUBSET Docs
        BY <1>8, HasParts
    <2>2. keys' = [t \in Targets |-> keys'[t]]
        BY <1>7
    <2> QED BY <2>1, <2>2
<1>10. /\ current' \in [Targets -> BOOLEAN]
       /\ \A t \in Included : t \in Targets => current'[t] = EnsureTargetState(t).current
    <2>1. current' = [t \in Targets |-> IF t \in Included THEN states[t].current ELSE current[t]]
        BY <1>3 DEF TakeSnapshot
    <2>2. \A t \in Targets : EnsureTargetState(t).current \in BOOLEAN /\ current[t] \in BOOLEAN
        BY <1>4, StateParts DEF WatchTypeOK
    <2>3. \A t \in Included : states[t].current = EnsureTargetState(t).current
        BY <1>6
    <2> QED BY <2>1, <2>2, <2>3
<1>11. token' \in [Targets -> Tokens] /\ stored' \in [Targets -> Tokens]
    <2>1. \A t \in Targets : m.holds[t] \in Tokens /\ NoToken \in Tokens
        BY <1>2 DEF Tokens
    <2>2. \A t \in Targets : token[t] \in Tokens /\ stored[t] \in Tokens
        BY <1>4 DEF WatchTypeOK
    <2>3. /\ stored' = [t \in Targets |-> IF t \in Included THEN m.holds[t] ELSE stored[t]]
          /\ token' = [t \in Targets |-> IF t \in again THEN NoToken
                                         ELSE IF t \in Included THEN m.holds[t] ELSE token[t]]
        BY <1>3 DEF TakeSnapshot
    <2> QED BY <2>1, <2>2, <2>3
<1>12. ASSUME NEW t \in Targets
       PROVE  /\ New(t) \in TargetState
              /\ New(t).outstanding =
                     EnsureTargetState(t).outstanding + (IF t \in again THEN 2 ELSE 0)
              /\ New(t).current = EnsureTargetState(t).current
              /\ t \in Included => New(t).changes = <<>>
              /\ t \notin Included => New(t).changes = EnsureTargetState(t).changes
              /\ t \notin Included /\ t \notin again => New(t) = EnsureTargetState(t)
    <2> DEFINE s == IF t \in Included THEN [states[t] EXCEPT !.changes = <<>>]
                                      ELSE EnsureTargetState(t)
               n == IF t \in again THEN 2 ELSE 0
    <2>1. EnsureTargetState(t) \in TargetState /\ EnsureTargetState(t).outstanding \in Int
        BY <1>4, StateParts
    <2>2. /\ s \in TargetState /\ s.outstanding = EnsureTargetState(t).outstanding
          /\ s.current = EnsureTargetState(t).current
          /\ t \in Included => s.changes = <<>>
          /\ t \notin Included => s.changes = EnsureTargetState(t).changes
        BY <1>6, <2>1, NoChanges DEF TargetState
    <2>3. n \in Int
        OBVIOUS
    <2>4. ASSUME t \notin Included, t \notin again
          PROVE  New(t) = EnsureTargetState(t)
        <3>1. New(t) = RecordPendingTargetRequest(EnsureTargetState(t), 0)
            BY <2>4
        <3>2. RecordPendingTargetRequest(EnsureTargetState(t), 0) = EnsureTargetState(t)
            BY <2>1 DEF RecordPendingTargetRequest, TargetState
        <3> QED BY <3>1, <3>2
    <2>5. New(t) = RecordPendingTargetRequest(s, n)
        OBVIOUS
    <2> HIDE DEF s, New
    <2>6. /\ New(t) \in TargetState /\ New(t).outstanding = s.outstanding + n
          /\ New(t).current = s.current /\ New(t).changes = s.changes
        BY <2>2, <2>3, <2>5, RecordParts
    <2> QED BY <2>2, <2>4, <2>6
<1>13. states' = [t \in DOMAIN states \cup again |-> New(t)]
    BY <1>3 DEF TakeSnapshot
<1> HIDE DEF New
<1>14. StateTypes'
    <2>1. DOMAIN states \cup again \subseteq Targets
        BY <1>4, <1>5 DEF StateTypes
    <2> QED BY <1>12, <1>13, <2>1 DEF StateTypes
<1>15. ASSUME NEW t \in Targets
       PROVE  EnsureTargetState(t)' = New(t)
    <2>1. CASE t \in DOMAIN states \cup again
        BY <1>13, <2>1 DEF EnsureTargetState
    <2>2. CASE t \notin DOMAIN states \cup again
        <3>1. t \notin Included /\ t \notin again /\ EnsureTargetState(t) = FreshState
            BY <2>2 DEF Included, EnsureTargetState
        <3>2. EnsureTargetState(t)' = FreshState
            BY <1>13, <2>2 DEF EnsureTargetState
        <3> QED BY <1>12, <3>1, <3>2
    <2> QED BY <2>1, <2>2
<1>16. /\ UNCHANGED listening
       /\ astray' = (astray \ again) \cup {t \in again : Misleads(NoToken, keys'[t])}
       /\ WithRewatch(requests, again, requests')
    BY <1>3 DEF TakeSnapshot, WithRewatch
<1>17. \A t \in Targets :
           /\ t \in Included => /\ keys'[t] = Has(t)
                                /\ current'[t] = EnsureTargetState(t).current
                                /\ EnsureTargetState(t)'.changes = <<>>
           /\ t \notin Included =>
                  /\ keys'[t] = keys[t]
                  /\ EnsureTargetState(t)'.changes = EnsureTargetState(t).changes
           /\ EnsureTargetState(t)'.current = EnsureTargetState(t).current
           /\ EnsureTargetState(t)'.outstanding =
                  EnsureTargetState(t).outstanding + (IF t \in again THEN 2 ELSE 0)
    BY <1>8, <1>10, <1>12, <1>15
<1> QED BY <1>0, <1>1, <1>2, <1>5, <1>9, <1>10, <1>11, <1>14, <1>16, <1>17

LEMMA SnapshotStep ==
    ASSUME WatchIInv, RaiseWatchSnapshot
    PROVE  WatchIInv'
<1>1. PICK again : again = Again
    OBVIOUS
<1>2. /\ Read("snapshot") /\ StateTypes' /\ UNCHANGED listening
      /\ again \in SUBSET Targets /\ IsFiniteSet(again)
      /\ token' \in [Targets -> Tokens] /\ stored' \in [Targets -> Tokens]
      /\ keys' \in [Targets -> SUBSET Docs] /\ current' \in [Targets -> BOOLEAN]
      /\ \A t \in Targets : EnsureTargetState(t)'.outstanding =
             EnsureTargetState(t).outstanding + (IF t \in again THEN 2 ELSE 0)
      /\ WithRewatch(requests, again, requests')
    <2>1. /\ Read("snapshot") /\ StateTypes' /\ UNCHANGED listening
          /\ again \in SUBSET Targets /\ IsFiniteSet(again)
        BY <1>1, SnapshotFacts
    <2>2. /\ token' \in [Targets -> Tokens] /\ stored' \in [Targets -> Tokens]
          /\ keys' \in [Targets -> SUBSET Docs] /\ current' \in [Targets -> BOOLEAN]
        BY <1>1, SnapshotFacts
    <2>3. ASSUME NEW t \in Targets
          PROVE  EnsureTargetState(t)'.outstanding =
                     EnsureTargetState(t).outstanding + (IF t \in again THEN 2 ELSE 0)
        BY <1>1, SnapshotFacts
    <2>4. WithRewatch(requests, again, requests')
        BY <1>1, SnapshotFacts
    <2> QED BY <2>1, <2>2, <2>3, <2>4
<1>3. /\ open' /\ messages' \in Seq(Message) /\ RefusalsAreKnown' /\ open
      /\ UNCHANGED <<results, serving, denied>>
      /\ messages[1].kind = "snapshot"
      /\ \A t : /\ Cardinality(AnswersFor(t, messages')) \in Nat
                /\ Cardinality(AnswersFor(t, messages)) =
                       Cardinality(AnswersFor(t, messages')) + One(IsAnswer(messages[1], t))
    BY <1>2, ReadFacts
<1>4. /\ WatchTypeOK /\ StateTypes /\ requests \in Seq(Request)
      /\ \A t \in Targets \ denied : Counted(t)
    BY <1>3, WatchParts DEF WatchIInv
<1>5. ASSUME NEW t \in Targets
      PROVE  /\ requests' \in Seq(Request) /\ Cardinality(RequestsFor(t, requests)) \in Nat
             /\ Cardinality(RequestsFor(t, requests')) =
                    Cardinality(RequestsFor(t, requests)) + (IF t \in again THEN 2 ELSE 0)
    BY <1>2, <1>4, Rewatched
<1>6. requests' \in Seq(Request)
    <2>1. PICK order \in SetToSeqs(again) : requests' = requests \o Rewatch(order)
        BY <1>2 DEF WithRewatch
    <2>2. Rewatch(order) \in Seq(Request)
        BY <1>2, RewatchFacts
    <2> QED BY <1>4, <2>1, <2>2, ConcatProperties
<1>7. ASSUME NEW t \in Targets \ denied'
      PROVE  Counted(t)'
    <2>1. t \in Targets \ denied /\ ~IsAnswer(messages[1], t)
        BY <1>3 DEF IsAnswer
    <2>2. OnTheWire(t)' = OnTheWire(t) + (IF t \in again THEN 2 ELSE 0)
        BY <1>3, <1>5, <2>1, OnTheWireParts, OnTheWirePartsNext DEF One
    <2> QED BY <1>2, <1>4, <2>1, <2>2 DEF Counted
<1>8. WatchTypeOK'
    BY <1>2, <1>3, <1>4, <1>6 DEF WatchTypeOK, StateTypes
<1> QED BY <1>3, <1>7, <1>8, WatchNext
-----------------------------------------------------------------------------
(* The number of outstanding responses is the number of answers to come       *)

LEMMA WatchStep == WatchIInv /\ [Next]_vars => WatchIInv'
<1> SUFFICES ASSUME WatchIInv, [Next]_vars PROVE WatchIInv'
    OBVIOUS
<1>1. ASSUME NEW t \in Targets, Listen(t) \/ StopListening(t)
      PROVE  WatchIInv'
    BY <1>1, ListenStep
<1>2. CASE OnWatchStreamOpen
    BY <1>2, OpenStep
<1>3. CASE OnWatchStreamClose \/ ApplyOnlineStateChange
    BY <1>3, CloseStep
<1>4. ASSUME NEW t \in Targets, NEW d \in Docs, ChangeResults(t, d)
      PROVE  WatchIInv'
    BY <1>4, ChangeResultsStep
<1>5. CASE HandleRequest
    BY <1>5, HandleRequestStep
<1>6. ASSUME NEW d \in Docs, SendDocument(d) \/ SendModified(d)
      PROVE  WatchIInv'
    BY <1>6, SendDocumentStep
<1>7. ASSUME NEW t \in Targets, SendCurrent(t)
      PROVE  WatchIInv'
    BY <1>7, SendCurrentStep
<1>8. CASE (\E t \in Targets : SendReset(t)) \/ SendSnapshot
    BY <1>8, SendResetStep
<1>9. CASE TargetAdded \/ TargetRemoved
    BY <1>9, AnswerStep
<1>10. CASE TargetCurrent \/ TargetReset \/ ProcessTargetError \/ HandleExistenceFilter
    BY <1>10, TargetChangeStep
<1>11. CASE HandleDocumentChange
    BY <1>11, DocumentStep
<1>12. CASE RaiseWatchSnapshot
    BY <1>12, SnapshotStep
<1>13. CASE UNCHANGED vars
    <2>1. /\ UNCHANGED <<clientVars, open, requests, messages, backendVars>>
        BY <1>13 DEF vars
    <2>2. /\ UNCHANGED <<listening, token, stored, keys, current, states, open, requests,
                         messages, results, serving, denied>>
        BY <2>1 DEF clientVars, backendVars
    <2> QED BY <2>2 DEF WatchIInv, WatchTypeOK, ClosedIsEmpty, RefusalsAreKnown,
                        OutstandingResponses, EnsureTargetState, OnTheWire
<1> QED BY <1>1, <1>2, <1>3, <1>4, <1>5, <1>6, <1>7, <1>8, <1>9, <1>10, <1>11, <1>12, <1>13
        DEF Next, BackendSends, ClientReads

(* On every behaviour: the types; a closed stream has left nothing behind; a  *)
(* target that is refused is known to be; and the number of outstanding       *)
(* responses of a target is the number of requests and answers on their way   *)
(* (RecordPendingTargetRequest, RecordTargetResponse).                        *)
THEOREM WatchInvariant == Spec => []WatchIInv
<1>1. Init => WatchIInv
    BY WatchInit
<1>2. WatchIInv /\ [Next]_vars => WatchIInv'
    BY WatchStep
<1> QED BY <1>1, <1>2, PTL DEF Spec

(* remote_event.h:208, "The number of outstanding responses (adds or removes) *)
(* that we are waiting on": it is, for any targets, documents and bounds, as  *)
(* long as no listen of the target is refused on the stream.                  *)
THEOREM AnswersAreCounted == Spec => []OutstandingResponses
<1>1. WatchIInv => OutstandingResponses
    BY DEF WatchIInv
<1> QED BY <1>1, WatchInvariant, PTL
-----------------------------------------------------------------------------
(* What the backend has told of a target since it answered the listen         *)

NoneFor(t, s) == \A i \in 1 .. Len(s) : s[i].target # t
NoAnswer(t, s) == \A i \in 1 .. Len(s) : ~IsAnswer(s[i], t)

(* The messages s tell of t all that came between a and now: all of them, or  *)
(* those behind the answer to the listen.                                     *)
Continues(t, s, now, a) == \E f : History(t, s, 0, f, now) /\ f[0] = a
Restarts(t, s, now, a) == \E b, f : b # 0 /\ History(t, s, b, f, now) /\ f[b] = a

LEMMA HistoryAppend ==
    ASSUME NEW s \in Seq(Message), NEW m \in Message, NEW new \in Told, NEW t,
           NEW b, NEW f, NEW last, History(t, s, b, f, last),
           ~IsAnswer(m, t), Tells(t, last, m, new)
    PROVE  \E g : History(t, Append(s, m), b, g, new) /\ g[b] = f[b]
<1> DEFINE n == Len(s)
           r == Append(s, m)
           g == [i \in 0 .. n + 1 |-> IF i = n + 1 THEN new ELSE f[i]]
<1>1. /\ n \in Nat /\ Len(r) = n + 1 /\ r[n + 1] = m
      /\ \A i \in 1 .. n : r[i] = s[i]
    BY EndGrows
<1>2. /\ b \in 0 .. n /\ f \in [0 .. n -> Told] /\ f[n] = last
      /\ b # 0 => s[b].kind = "added" /\ s[b].target = t
      /\ \A i \in b + 1 .. n : ~IsAnswer(s[i], t) /\ Tells(t, f[i - 1], s[i], f[i])
    BY DEF History
<1> HIDE DEF r, n
<1>3. /\ g \in [0 .. n + 1 -> Told] /\ g[n + 1] = new
      /\ \A i \in 0 .. n : g[i] = f[i]
    BY <1>1, <1>2
<1> HIDE DEF g
<1>4. g[b] = f[b] /\ b \in 0 .. n + 1
    BY <1>1, <1>2, <1>3
<1>5. b # 0 => r[b].kind = "added" /\ r[b].target = t
    <2>1. b # 0 => b \in 1 .. n
        BY <1>1, <1>2
    <2> QED BY <1>1, <1>2, <2>1
<1>6. ASSUME NEW i \in b + 1 .. n + 1
      PROVE  ~IsAnswer(r[i], t) /\ Tells(t, g[i - 1], r[i], g[i])
    <2>1. CASE i = n + 1
        <3>1. i - 1 = n /\ n \in 0 .. n
            BY <1>1, <2>1
        <3>2. g[i - 1] = last /\ r[i] = m /\ g[i] = new
            BY <1>1, <1>2, <1>3, <2>1, <3>1
        <3> QED BY <3>2
    <2>2. CASE i # n + 1
        <3>1. i \in b + 1 .. n /\ i \in 1 .. n /\ i \in 0 .. n /\ i - 1 \in 0 .. n
            BY <1>1, <1>2, <2>2
        <3>2. g[i - 1] = f[i - 1] /\ r[i] = s[i] /\ g[i] = f[i]
            BY <1>1, <1>3, <3>1
        <3> QED BY <1>2, <3>1, <3>2
    <2> QED BY <2>1, <2>2
<1>7. History(t, r, b, g, new)
    BY <1>1, <1>3, <1>4, <1>5, <1>6 DEF History
<1> QED BY <1>4, <1>7 DEF r

LEMMA ToldOn ==
    ASSUME NEW s \in Seq(Message), NEW m \in Message, NEW new \in Told, NEW t, NEW last, NEW a,
           ~IsAnswer(m, t), Tells(t, last, m, new)
    PROVE  /\ Continues(t, s, last, a) => Continues(t, Append(s, m), new, a)
           /\ Restarts(t, s, last, a) => Restarts(t, Append(s, m), new, a)
<1>1. ASSUME Continues(t, s, last, a)
      PROVE  Continues(t, Append(s, m), new, a)
    <2>1. PICK f : History(t, s, 0, f, last) /\ f[0] = a
        BY <1>1 DEF Continues
    <2>2. \E g : History(t, Append(s, m), 0, g, new) /\ g[0] = f[0]
        BY <2>1, HistoryAppend
    <2> QED BY <2>1, <2>2 DEF Continues
<1>2. ASSUME Restarts(t, s, last, a)
      PROVE  Restarts(t, Append(s, m), new, a)
    <2>1. PICK b, f : b # 0 /\ History(t, s, b, f, last) /\ f[b] = a
        BY <1>2 DEF Restarts
    <2>2. \E g : History(t, Append(s, m), b, g, new) /\ g[b] = f[b]
        BY <2>1, HistoryAppend
    <2> QED BY <2>1, <2>2 DEF Restarts
<1> QED BY <1>1, <1>2

(* The answer to a listen, and what it starts from.                           *)
LEMMA ToldFirst ==
    ASSUME NEW s \in Seq(Message), NEW m \in Message, NEW new \in Told, NEW t,
           m.kind = "added", m.target = t
    PROVE  Restarts(t, Append(s, m), new, new)
<1> DEFINE n == Len(s)
           r == Append(s, m)
           g == [i \in 0 .. n + 1 |-> new]
<1>1. n \in Nat /\ Len(r) = n + 1 /\ r[n + 1] = m
    BY EndGrows
<1> HIDE DEF r, n
<1>2. /\ n + 1 \in 0 .. n + 1 /\ n + 1 # 0 /\ g \in [0 .. n + 1 -> Told] /\ g[n + 1] = new
      /\ \A i \in (n + 1) + 1 .. n + 1 : FALSE
    BY <1>1
<1> HIDE DEF g
<1>3. History(t, r, n + 1, g, new)
    BY <1>1, <1>2 DEF History
<1> QED BY <1>2, <1>3 DEF Restarts, r

(* The message at the front is read.                                          *)
LEMMA HistoryTail ==
    ASSUME NEW s \in Seq(Message), s # <<>>, NEW t, NEW b, NEW f, NEW now,
           History(t, s, b, f, now), NEW c, c = IF b = 0 THEN 0 ELSE b - 1
    PROVE  \E g : /\ History(t, Tail(s), c, g, now)
                  /\ g[c] = IF b = 0 THEN f[1] ELSE f[b]
<1> DEFINE n == Len(Tail(s))
           r == Tail(s)
           g == [i \in 0 .. n |-> f[i + 1]]
<1>1. /\ n \in Nat /\ Len(s) = n + 1
      /\ \A i \in 1 .. n : r[i] = s[i + 1]
    BY FrontLeaves
<1>2. /\ b \in 0 .. n + 1 /\ f \in [0 .. n + 1 -> Told] /\ f[n + 1] = now
      /\ b # 0 => s[b].kind = "added" /\ s[b].target = t
      /\ \A i \in b + 1 .. n + 1 : ~IsAnswer(s[i], t) /\ Tells(t, f[i - 1], s[i], f[i])
    BY <1>1 DEF History
<1> HIDE DEF n
<1>3. Len(r) = n
    BY DEF n
<1> HIDE DEF r
<1>4. g \in [0 .. n -> Told] /\ \A i \in 0 .. n : g[i] = f[i + 1]
    BY <1>1, <1>2
<1> HIDE DEF g
<1>5. c \in 0 .. n /\ (c = 0 => b \in {0, 1}) /\ (b # 0 => b = c + 1) /\ n \in 0 .. n
    BY <1>1, <1>2
<1>6. g[c] = IF b = 0 THEN f[1] ELSE f[b]
    <2>1. g[c] = f[c + 1]
        BY <1>4, <1>5
    <2> QED BY <1>5, <2>1
<1>7. c # 0 => r[c].kind = "added" /\ r[c].target = t
    <2>1. c # 0 => c \in 1 .. n /\ b = c + 1 /\ b # 0
        BY <1>1, <1>5
    <2> QED BY <1>1, <1>2, <2>1
<1>8. ASSUME NEW i \in c + 1 .. n
      PROVE  ~IsAnswer(r[i], t) /\ Tells(t, g[i - 1], r[i], g[i])
    <2>1. /\ i + 1 \in b + 1 .. n + 1 /\ i \in 1 .. n /\ i \in 0 .. n /\ i - 1 \in 0 .. n
          /\ (i + 1) - 1 = i /\ (i - 1) + 1 = i
        BY <1>1, <1>2, <1>5
    <2>2. g[i - 1] = f[i] /\ r[i] = s[i + 1] /\ g[i] = f[i + 1]
        BY <1>1, <1>4, <2>1
    <2>3. ~IsAnswer(s[i + 1], t) /\ Tells(t, f[(i + 1) - 1], s[i + 1], f[i + 1])
        BY <1>2, <2>1
    <2> QED BY <2>1, <2>2, <2>3
<1>9. g[n] = now
    BY <1>2, <1>4, <1>5
<1>10. History(t, r, c, g, now)
    BY <1>3, <1>4, <1>5, <1>7, <1>8, <1>9 DEF History
<1> QED BY <1>6, <1>10 DEF r

LEMMA ToldSince ==
    ASSUME NEW s \in Seq(Message), NEW t, NEW now, NEW a
    PROVE  /\ Continues(t, s, now, a) => NoAnswer(t, s) /\ a \in Told
           /\ Restarts(t, s, now, a) => ~NoAnswer(t, s) /\ a \in Told
<1>1. Len(s) \in Nat
    BY LenProperties
<1>2. ASSUME Continues(t, s, now, a)
      PROVE  NoAnswer(t, s) /\ a \in Told
    <2>1. PICK f : History(t, s, 0, f, now) /\ f[0] = a
        BY <1>2 DEF Continues
    <2>2. f \in [0 .. Len(s) -> Told] /\ 0 \in 0 .. Len(s)
        BY <1>1, <2>1 DEF History
    <2>3. \A i \in 1 .. Len(s) : i \in 0 + 1 .. Len(s)
        BY <1>1
    <2>4. \A i \in 1 .. Len(s) : ~IsAnswer(s[i], t)
        BY <2>1, <2>3 DEF History
    <2> QED BY <2>1, <2>2, <2>4 DEF NoAnswer
<1>3. ASSUME Restarts(t, s, now, a)
      PROVE  ~NoAnswer(t, s) /\ a \in Told
    <2>1. PICK b, f : b # 0 /\ History(t, s, b, f, now) /\ f[b] = a
        BY <1>3 DEF Restarts
    <2>2. b \in 0 .. Len(s) /\ f \in [0 .. Len(s) -> Told] /\ s[b].kind = "added" /\ s[b].target = t
        BY <2>1 DEF History
    <2>3. b \in 1 .. Len(s)
        BY <1>1, <2>1, <2>2
    <2>4. IsAnswer(s[b], t)
        BY <2>2 DEF IsAnswer
    <2> QED BY <2>1, <2>2, <2>3, <2>4 DEF NoAnswer
<1> QED BY <1>2, <1>3

LEMMA Heard ==
    ASSUME NEW s \in Seq(Message), s # <<>>, NEW t, NEW now, NEW a
    PROVE  /\ Continues(t, s, now, a) =>
                  \E b \in Told : Tells(t, a, s[1], b) /\ Continues(t, Tail(s), now, b)
           /\ Restarts(t, s, now, a) =>
                  \/ s[1].kind = "added" /\ s[1].target = t /\ Continues(t, Tail(s), now, a)
                  \/ Restarts(t, Tail(s), now, a)
<1>1. Len(s) \in Nat /\ Len(s) # 0 /\ 1 \in 1 .. Len(s)
    BY FrontLeaves
<1>2. ASSUME Continues(t, s, now, a)
      PROVE  \E b \in Told : Tells(t, a, s[1], b) /\ Continues(t, Tail(s), now, b)
    <2>1. PICK f : History(t, s, 0, f, now) /\ f[0] = a
        BY <1>2 DEF Continues
    <2>2. PICK g : History(t, Tail(s), 0, g, now) /\ g[0] = f[1]
        BY <2>1, HistoryTail
    <2>3. f \in [0 .. Len(s) -> Told] /\ 1 \in 0 .. Len(s) /\ 1 \in 0 + 1 .. Len(s) /\ 1 - 1 = 0
        BY <1>1, <2>1 DEF History
    <2>4. Tells(t, f[1 - 1], s[1], f[1]) /\ f[1] \in Told
        BY <2>1, <2>3 DEF History
    <2> QED BY <2>1, <2>2, <2>3, <2>4 DEF Continues
<1>3. ASSUME Restarts(t, s, now, a)
      PROVE  \/ s[1].kind = "added" /\ s[1].target = t /\ Continues(t, Tail(s), now, a)
             \/ Restarts(t, Tail(s), now, a)
    <2>1. PICK b, f : b # 0 /\ History(t, s, b, f, now) /\ f[b] = a
        BY <1>3 DEF Restarts
    <2>2. b \in Nat /\ s[b].kind = "added" /\ s[b].target = t
        BY <1>1, <2>1 DEF History
    <2>3. PICK g : History(t, Tail(s), b - 1, g, now) /\ g[b - 1] = f[b]
        BY <2>1, HistoryTail
    <2>4. CASE b = 1
        <3>1. b - 1 = 0
            BY <2>4
        <3> QED BY <2>1, <2>2, <2>3, <2>4, <3>1 DEF Continues
    <2>5. CASE b # 1
        <3>1. b - 1 # 0
            BY <2>2, <2>5
        <3> QED BY <2>1, <2>3, <3>1 DEF Restarts
    <2> QED BY <2>4, <2>5
<1> QED BY <1>2, <1>3

(* A request at place j is the last one for t, and puts right what is wrong.  *)
LastAt(j, t, s, has) ==
    /\ s[j].kind = "watch" /\ s[j].target = t /\ ~Misleads(s[j].token, has)
    /\ \A i \in j + 1 .. Len(s) : s[i].target # t

Asks(t, s, has) == \E j \in 1 .. Len(s) : LastAt(j, t, s, has)

LEMMA AsksTail ==
    ASSUME NEW s \in Seq(Request), s # <<>>, NEW t, NEW has
    PROVE  /\ Asks(t, s, has) =>
                  \/ /\ s[1].kind = "watch" /\ s[1].target = t /\ ~Misleads(s[1].token, has)
                     /\ NoneFor(t, Tail(s))
                  \/ Asks(t, Tail(s), has)
           /\ NoneFor(t, s) => s[1].target # t /\ NoneFor(t, Tail(s))
<1> DEFINE n == Len(Tail(s))
           r == Tail(s)
<1>1. /\ n \in Nat /\ Len(s) = n + 1
      /\ \A i \in 1 .. n : i + 1 \in 1 .. n + 1 /\ r[i] = s[i + 1]
    BY FrontLeaves
<1> HIDE DEF n
<1>2. Len(r) = n
    BY DEF n
<1> HIDE DEF r
<1>3. ASSUME NoneFor(t, s)
      PROVE  s[1].target # t /\ NoneFor(t, r)
    BY <1>1, <1>2, <1>3 DEF NoneFor
<1>4. ASSUME Asks(t, s, has)
      PROVE  \/ /\ s[1].kind = "watch" /\ s[1].target = t /\ ~Misleads(s[1].token, has)
                /\ NoneFor(t, r)
             \/ Asks(t, r, has)
    <2>1. PICK j \in 1 .. n + 1 :
              /\ s[j].kind = "watch" /\ s[j].target = t /\ ~Misleads(s[j].token, has)
              /\ \A i \in j + 1 .. n + 1 : s[i].target # t
        BY <1>1, <1>4 DEF Asks, LastAt
    <2>2. CASE j = 1
        <3>1. \A i \in 1 .. n : i + 1 \in 1 + 1 .. n + 1
            BY <1>1
        <3>2. NoneFor(t, r)
            BY <1>1, <1>2, <2>1, <2>2, <3>1 DEF NoneFor
        <3> QED BY <2>1, <2>2, <3>2
    <2>3. CASE j # 1
        <3>1. j - 1 \in 1 .. n /\ (j - 1) + 1 = j
            BY <1>1, <2>3
        <3>2. r[j - 1] = s[j]
            BY <1>1, <3>1
        <3>3. \A i \in (j - 1) + 1 .. n : i \in 1 .. n /\ i + 1 \in j + 1 .. n + 1
            BY <1>1, <2>3
        <3>4. \A i \in (j - 1) + 1 .. n : r[i].target # t
            BY <1>1, <2>1, <3>3
        <3>5. LastAt(j - 1, t, r, has)
            BY <1>2, <2>1, <3>2, <3>4 DEF LastAt
        <3> QED BY <1>2, <3>1, <3>5 DEF Asks
    <2> QED BY <2>2, <2>3
<1> QED BY <1>3, <1>4 DEF r

LEMMA AsksAppend ==
    ASSUME NEW s \in Seq(Request), NEW r \in Request, NEW t, NEW has
    PROVE  /\ r.kind = "watch" /\ r.target = t /\ ~Misleads(r.token, has) =>
                  Asks(t, Append(s, r), has)
           /\ r.target # t /\ Asks(t, s, has) => Asks(t, Append(s, r), has)
           /\ r.target # t /\ NoneFor(t, s) => NoneFor(t, Append(s, r))
<1> DEFINE n == Len(s)
           q == Append(s, r)
<1>1. /\ n \in Nat /\ Len(q) = n + 1 /\ q[n + 1] = r
      /\ \A i \in 1 .. n : q[i] = s[i]
    BY EndGrows
<1> HIDE DEF q
<1>2. ASSUME r.kind = "watch", r.target = t, ~Misleads(r.token, has)
      PROVE  Asks(t, q, has)
    <2> HIDE DEF n
    <2>1. n + 1 \in 1 .. n + 1 /\ \A i \in (n + 1) + 1 .. n + 1 : FALSE
        BY <1>1
    <2>2. LastAt(n + 1, t, q, has)
        BY <1>1, <1>2, <2>1 DEF LastAt
    <2> QED BY <1>1, <2>1, <2>2 DEF Asks
<1>3. ASSUME r.target # t, NEW j \in 0 .. n,
             \A i \in j + 1 .. n : s[i].target # t
      PROVE  \A i \in j + 1 .. n + 1 : q[i].target # t
    <2> HIDE DEF n
    <2> TAKE i \in j + 1 .. n + 1
    <2>1. CASE i = n + 1
        BY <1>1, <1>3, <2>1
    <2>2. CASE i # n + 1
        <3>1. i \in j + 1 .. n /\ i \in 1 .. n
            BY <1>1, <2>2
        <3> QED BY <1>1, <1>3, <3>1
    <2> QED BY <2>1, <2>2
<1>4. ASSUME r.target # t, Asks(t, s, has)
      PROVE  Asks(t, q, has)
    <2>1. PICK j \in 1 .. n : LastAt(j, t, s, has)
        BY <1>4 DEF Asks
    <2>2. \A i \in j + 1 .. n + 1 : q[i].target # t
        <3>1. j \in 0 .. n
            BY <1>1
        <3> QED BY <1>3, <1>4, <2>1, <3>1 DEF LastAt
    <2>3. LastAt(j, t, q, has)
        BY <1>1, <2>1, <2>2 DEF LastAt
    <2> HIDE DEF n
    <2>4. j \in 1 .. n + 1
        BY <1>1
    <2> QED BY <1>1, <2>3, <2>4 DEF Asks
<1>5. ASSUME r.target # t, NoneFor(t, s)
      PROVE  NoneFor(t, q)
    <2>1. 0 \in 0 .. n
        BY <1>1
    <2>2. \A i \in 0 + 1 .. n : s[i].target # t
        BY <1>5 DEF NoneFor
    <2>3. \A i \in 0 + 1 .. n + 1 : q[i].target # t
        BY <1>3, <1>5, <2>1, <2>2
    <2> QED BY <1>1, <2>3 DEF NoneFor
<1> QED BY <1>2, <1>4, <1>5 DEF q

LEMMA AsksRewatch ==
    ASSUME NEW S \in SUBSET Targets, IsFiniteSet(S), NEW s \in Seq(Request), NEW r,
           WithRewatch(s, S, r), NEW t \in Targets, NEW has
    PROVE  /\ t \in S /\ ~Misleads(NoToken, has) => Asks(t, r, has)
           /\ t \notin S /\ Asks(t, s, has) => Asks(t, r, has)
           /\ t \notin S /\ NoneFor(t, s) => NoneFor(t, r)
<1> DEFINE n == Len(s)
           m == Len(r)
<1>1. /\ n \in Nat /\ m \in Nat /\ n <= m
      /\ \A i \in 1 .. n : r[i] = s[i]
      /\ \A i \in 1 .. m : i > n => r[i].target \in S
      /\ t \in S => \E j \in 1 .. m :
             r[j] = Watch(t, NoToken) /\ \A i \in j + 1 .. m : r[i].target # t
    BY Rewatched
<1> HIDE DEF n, m
<1>2. ASSUME t \in S, ~Misleads(NoToken, has)
      PROVE  Asks(t, r, has)
    <2>1. PICK j \in 1 .. m :
              r[j] = Watch(t, NoToken) /\ \A i \in j + 1 .. m : r[i].target # t
        BY <1>1, <1>2
    <2>2. r[j].kind = "watch" /\ r[j].target = t /\ r[j].token = NoToken
        BY <2>1 DEF Watch
    <2> QED BY <1>2, <2>1, <2>2 DEF Asks, LastAt, m
<1>3. ASSUME t \notin S, NEW j \in 0 .. n, \A i \in j + 1 .. n : s[i].target # t
      PROVE  \A i \in j + 1 .. m : r[i].target # t
    <2> TAKE i \in j + 1 .. m
    <2>1. CASE i > n
        <3>1. i \in 1 .. m
            BY <1>1
        <3> QED BY <1>1, <1>3, <2>1, <3>1
    <2>2. CASE ~(i > n)
        <3>1. i \in j + 1 .. n /\ i \in 1 .. n
            BY <1>1, <2>2
        <3> QED BY <1>1, <1>3, <3>1
    <2> QED BY <2>1, <2>2
<1>4. ASSUME t \notin S, Asks(t, s, has)
      PROVE  Asks(t, r, has)
    <2>1. PICK j \in 1 .. n : LastAt(j, t, s, has)
        BY <1>4 DEF Asks, n
    <2>2. j \in 0 .. n /\ j \in 1 .. m
        BY <1>1
    <2>3. \A i \in j + 1 .. m : r[i].target # t
        BY <1>3, <1>4, <2>1, <2>2 DEF LastAt, n
    <2>4. LastAt(j, t, r, has)
        BY <1>1, <2>1, <2>3 DEF LastAt, m
    <2> QED BY <2>2, <2>4 DEF Asks, m
<1>5. ASSUME t \notin S, NoneFor(t, s)
      PROVE  NoneFor(t, r)
    <2>1. 0 \in 0 .. n
        BY <1>1
    <2>2. \A i \in 0 + 1 .. n : s[i].target # t
        BY <1>5 DEF NoneFor, n
    <2>3. \A i \in 0 + 1 .. m : r[i].target # t
        BY <1>3, <1>5, <2>1, <2>2
    <2> QED BY <2>3 DEF NoneFor, m
<1> QED BY <1>2, <1>4, <1>5

(* Nothing is waited for just when nothing is on its way.                     *)
LEMMA NothingOnTheWire ==
    WatchIInv /\ open =>
        \A t \in Targets \ denied :
            EnsureTargetState(t).outstanding = 0 <=> NoneFor(t, requests) /\ NoAnswer(t, messages)
<1> SUFFICES ASSUME WatchIInv, open, NEW t \in Targets \ denied
             PROVE  EnsureTargetState(t).outstanding = 0
                        <=> NoneFor(t, requests) /\ NoAnswer(t, messages)
    OBVIOUS
<1> DEFINE R == RequestsFor(t, requests)
           A == AnswersFor(t, messages)
<1>1. requests \in Seq(Request) /\ messages \in Seq(Message) /\ Counted(t)
    BY WatchParts
<1>2. /\ R \in SUBSET (1 .. Len(requests)) /\ A \in SUBSET (1 .. Len(messages))
      /\ Len(requests) \in Nat /\ Len(messages) \in Nat
    BY <1>1, LenProperties DEF RequestsFor, AnswersFor
<1>3. IsFiniteSet(R) /\ IsFiniteSet(A)
    <2>1. IsFiniteSet(1 .. Len(requests)) /\ IsFiniteSet(1 .. Len(messages))
        BY <1>2, FS_Interval
    <2> HIDE DEF R, A
    <2> QED BY <1>2, <2>1, FS_Subset
<1>4. /\ NoneFor(t, requests) <=> R = {}
      /\ NoAnswer(t, messages) <=> A = {}
    <2>1. \A i : i \in R <=> i \in 1 .. Len(requests) /\ requests[i].target = t
        BY DEF RequestsFor
    <2>2. \A i : i \in A <=> i \in 1 .. Len(messages) /\ IsAnswer(messages[i], t)
        BY DEF AnswersFor, IsAnswer
    <2> HIDE DEF R, A
    <2>3. NoneFor(t, requests) <=> R = {}
        BY <2>1 DEF NoneFor
    <2>4. NoAnswer(t, messages) <=> A = {}
        BY <2>2 DEF NoAnswer
    <2> QED BY <2>3, <2>4
<1>5. EnsureTargetState(t).outstanding = Cardinality(R) + Cardinality(A)
    BY <1>1, OnTheWireParts DEF Counted
<1> HIDE DEF R, A
<1>6. /\ Cardinality(R) \in Nat /\ Cardinality(A) \in Nat
      /\ Cardinality(R) = 0 <=> R = {}
      /\ Cardinality(A) = 0 <=> A = {}
    BY <1>3, FS_CardinalityType, FS_EmptySet
<1> QED BY <1>4, <1>5, <1>6
-----------------------------------------------------------------------------
(* The targets that are followed                                              *)

Fit(a, has, cur) == Agrees(has, a) \/ (a.current /\ ~a.filter /\ ~cur)

Hears(t, s, now, had, has, cur) ==
    \/ \E a \in Told : Continues(t, s, now, a) /\ Fit(a, has, cur)
    \/ \E a \in Told : Restarts(t, s, now, a) /\ Agrees(had, a)

LEMMA HearsParts ==
    ASSUME NEW s \in Seq(Message), NEW t, NEW now, NEW had, NEW has, NEW cur
    PROVE  Hears(t, s, now, had, has, cur) <=>
               \E b \in 0 .. Len(s), f \in [0 .. Len(s) -> Told] :
                   /\ History(t, s, b, f, now)
                   /\ IF b = 0 THEN Fit(f[0], has, cur) ELSE Agrees(had, f[b])
<1>1. ASSUME NEW b \in 0 .. Len(s), NEW f \in [0 .. Len(s) -> Told], History(t, s, b, f, now),
             IF b = 0 THEN Fit(f[0], has, cur) ELSE Agrees(had, f[b])
      PROVE  Hears(t, s, now, had, has, cur)
    <2>1. CASE b = 0
        <3>1. Continues(t, s, now, f[0]) /\ f[0] \in Told
            BY <1>1, <2>1 DEF Continues
        <3> QED BY <1>1, <2>1, <3>1 DEF Hears
    <2>2. CASE b # 0
        <3>1. Restarts(t, s, now, f[b]) /\ f[b] \in Told
            BY <1>1, <2>2 DEF Restarts
        <3> QED BY <1>1, <2>2, <3>1 DEF Hears
    <2> QED BY <2>1, <2>2
<1>2. ASSUME NEW a \in Told, Continues(t, s, now, a), Fit(a, has, cur)
      PROVE  \E b \in 0 .. Len(s), f \in [0 .. Len(s) -> Told] :
                 /\ History(t, s, b, f, now)
                 /\ IF b = 0 THEN Fit(f[0], has, cur) ELSE Agrees(had, f[b])
    <2>1. PICK f : History(t, s, 0, f, now) /\ f[0] = a
        BY <1>2 DEF Continues
    <2>2. 0 \in 0 .. Len(s) /\ f \in [0 .. Len(s) -> Told]
        BY <2>1 DEF History
    <2> QED BY <1>2, <2>1, <2>2
<1>3. ASSUME NEW a \in Told, Restarts(t, s, now, a), Agrees(had, a)
      PROVE  \E b \in 0 .. Len(s), f \in [0 .. Len(s) -> Told] :
                 /\ History(t, s, b, f, now)
                 /\ IF b = 0 THEN Fit(f[0], has, cur) ELSE Agrees(had, f[b])
    <2>1. PICK b, f : b # 0 /\ History(t, s, b, f, now) /\ f[b] = a
        BY <1>3 DEF Restarts
    <2>2. b \in 0 .. Len(s) /\ f \in [0 .. Len(s) -> Told]
        BY <2>1 DEF History
    <2> QED BY <1>3, <2>1, <2>2
<1> QED BY <1>1, <1>2, <1>3 DEF Hears

IsFollowed(t) ==
    \/ Asks(t, requests, keys[t])
    \/ /\ NoneFor(t, requests) /\ t \in DOMAIN serving
       /\ Hears(t, messages, serving[t], keys[t], Has(t), EnsureTargetState(t).current)

LEMMA FollowedParts ==
    WatchIInv => (Followed <=> (open => \A t \in listening \ (denied \cup astray) : IsFollowed(t)))
<1> SUFFICES ASSUME WatchIInv
             PROVE  Followed <=> (open => \A t \in listening \ (denied \cup astray) : IsFollowed(t))
    OBVIOUS
<1>1. messages \in Seq(Message)
    BY WatchParts
<1>2. ASSUME NEW t
      PROVE  AsksAgain(t) <=> Asks(t, requests, keys[t])
    BY DEF AsksAgain, Asks, LastAt
<1>3. ASSUME NEW t
      PROVE  IsTold(t) <=>
                 /\ NoneFor(t, requests) /\ t \in DOMAIN serving
                 /\ Hears(t, messages, serving[t], keys[t], Has(t), EnsureTargetState(t).current)
    <2>1. PICK has, cur : has = Has(t) /\ cur = EnsureTargetState(t).current
        OBVIOUS
    <2>2. \A a : Mismatched(t, a) <=> a.current /\ ~a.filter /\ ~cur
        BY <2>1 DEF Mismatched
    <2>3. \A a : Fit(a, has, cur) <=> Agrees(Has(t), a) \/ Mismatched(t, a)
        BY <2>1, <2>2 DEF Fit
    <2>4. Hears(t, messages, serving[t], keys[t], has, cur) <=>
              \E b \in 0 .. Len(messages), f \in [0 .. Len(messages) -> Told] :
                  /\ History(t, messages, b, f, serving[t])
                  /\ IF b = 0 THEN Fit(f[0], has, cur) ELSE Agrees(keys[t], f[b])
        BY <1>1, HearsParts
    <2>5. Hears(t, messages, serving[t], keys[t], has, cur) <=>
              \E b \in 0 .. Len(messages), f \in [0 .. Len(messages) -> Told] :
                  /\ History(t, messages, b, f, serving[t])
                  /\ IF b = 0 THEN Agrees(Has(t), f[0]) \/ Mismatched(t, f[0])
                              ELSE Agrees(keys[t], f[b])
        BY <2>3, <2>4
    <2> QED BY <2>1, <2>5 DEF IsTold, NoneFor
<1> QED BY <1>2, <1>3 DEF Followed, IsFollowed

(* What is noted of a document fits what there is of it.                      *)
Fits(c, has) ==
    \A d \in DOMAIN c : (c[d] = "added" => d \notin has) /\ (c[d] = "removed" => d \in has)

LEMMA FitsParts ==
    WatchIInv => (ChangesFit <=> \A t \in Targets : Fits(EnsureTargetState(t).changes, keys[t]))
<1> SUFFICES ASSUME WatchIInv
             PROVE  ChangesFit <=> \A t \in Targets : Fits(EnsureTargetState(t).changes, keys[t])
    OBVIOUS
<1>1. DOMAIN states \subseteq Targets
    BY WatchParts DEF StateTypes
<1>2. \A t \in DOMAIN states : EnsureTargetState(t) = states[t]
    BY DEF EnsureTargetState
<1>3. \A t : t \notin DOMAIN states => Fits(EnsureTargetState(t).changes, keys[t])
    BY FreshParts, NoChanges DEF EnsureTargetState, Fits
<1>4. ChangesFit <=> \A t \in DOMAIN states : Fits(EnsureTargetState(t).changes, keys[t])
    BY <1>2 DEF ChangesFit, Fits
<1> QED BY <1>1, <1>3, <1>4

(* What the invariant says of the present, and what there is to show.         *)
LEMMA CurrentParts ==
    ASSUME CurrentIInv
    PROVE  /\ WatchIInv /\ FilterAfterCurrent
           /\ \A t \in Targets : Fits(EnsureTargetState(t).changes, keys[t])
           /\ open => \A t \in listening \ (denied \cup astray) : t \in Targets /\ IsFollowed(t)
<1>1. WatchIInv /\ FilterAfterCurrent /\ ChangesFit /\ Followed
    BY DEF CurrentIInv
<1>2. listening \subseteq Targets
    BY <1>1 DEF WatchIInv, WatchTypeOK
<1> QED BY <1>1, <1>2, FitsParts, FollowedParts

LEMMA CurrentNext ==
    ASSUME WatchIInv', FilterAfterCurrent',
           \A t \in Targets : Fits(EnsureTargetState(t)'.changes, keys'[t]),
           open' => \A t \in listening' \ (denied' \cup astray') : IsFollowed(t)'
    PROVE  CurrentIInv'
<1>1. (WatchIInv =>
          (ChangesFit <=> \A t \in Targets : Fits(EnsureTargetState(t).changes, keys[t])))'
    BY FitsParts, PTL
<1>2. (WatchIInv =>
          (Followed <=> (open => \A t \in listening \ (denied \cup astray) : IsFollowed(t))))'
    BY FollowedParts, PTL
<1>3. ChangesFit'
    BY <1>1
<1>4. Followed'
    BY <1>2
<1> QED BY <1>3, <1>4 DEF CurrentIInv

(* What is followed stays so, if what was told is, and more is told.          *)
LEMMA StaysFollowed ==
    ASSUME NEW t, IsFollowed(t), keys'[t] = keys[t],
           Asks(t, requests, keys[t]) => Asks(t, requests', keys[t]),
           NoneFor(t, requests) => NoneFor(t, requests'),
           Has(t)' = Has(t), EnsureTargetState(t)'.current = EnsureTargetState(t).current,
           t \in DOMAIN serving =>
               /\ t \in DOMAIN serving'
               /\ \A a : /\ Continues(t, messages, serving[t], a) =>
                                Continues(t, messages', serving'[t], a)
                         /\ Restarts(t, messages, serving[t], a) =>
                                Restarts(t, messages', serving'[t], a)
    PROVE  IsFollowed(t)'
<1>1. CASE Asks(t, requests, keys[t])
    BY <1>1 DEF IsFollowed
<1>2. CASE /\ NoneFor(t, requests) /\ t \in DOMAIN serving
           /\ Hears(t, messages, serving[t], keys[t], Has(t), EnsureTargetState(t).current)
    <2>1. Hears(t, messages', serving'[t], keys'[t], Has(t)', EnsureTargetState(t)'.current)
        BY <1>2 DEF Hears
    <2> QED BY <1>2, <2>1 DEF IsFollowed
<1> QED BY <1>1, <1>2 DEF IsFollowed

(* The client does nothing.                                                   *)
LEMMA BackendStep ==
    ASSUME CurrentIInv, WatchIInv', FilterAfterCurrent',
           UNCHANGED <<clientVars, open, requests, denied>>,
           \A t \in DOMAIN serving :
               /\ t \in DOMAIN serving'
               /\ \A a : /\ Continues(t, messages, serving[t], a) =>
                                Continues(t, messages', serving'[t], a)
                         /\ Restarts(t, messages, serving[t], a) =>
                                Restarts(t, messages', serving'[t], a)
    PROVE  CurrentIInv'
<1>1. /\ \A t : EnsureTargetState(t)' = EnsureTargetState(t) /\ Has(t)' = Has(t)
      /\ keys' = keys /\ listening' = listening /\ astray' = astray
    BY DEF EnsureTargetState, Has, clientVars
<1>2. \A t \in Targets : Fits(EnsureTargetState(t)'.changes, keys'[t])
    BY <1>1, CurrentParts
<1>3. ASSUME open', NEW t \in listening' \ (denied' \cup astray')
      PROVE  IsFollowed(t)'
    <2>1. IsFollowed(t)
        BY <1>1, <1>3, CurrentParts
    <2>2. /\ UNCHANGED requests /\ keys'[t] = keys[t] /\ Has(t)' = Has(t)
          /\ EnsureTargetState(t)'.current = EnsureTargetState(t).current
        BY <1>1
    <2>3. t \in DOMAIN serving =>
              /\ t \in DOMAIN serving'
              /\ \A a : /\ Continues(t, messages, serving[t], a) =>
                               Continues(t, messages', serving'[t], a)
                        /\ Restarts(t, messages, serving[t], a) =>
                               Restarts(t, messages', serving'[t], a)
        OBVIOUS
    <2> QED BY <2>1, <2>2, <2>3, StaysFollowed
<1> QED BY <1>2, <1>3, CurrentNext

(* One message more, which tells what was told.                               *)
LEMMA OneMessageStep ==
    ASSUME CurrentIInv, WatchIInv', FilterAfterCurrent',
           UNCHANGED <<clientVars, open, requests, denied>>,
           NEW m \in Message, m.kind \notin {"added", "removed"}, messages' = Append(messages, m),
           \A t \in DOMAIN serving : t \in DOMAIN serving' /\ Tells(t, serving[t], m, serving'[t])
    PROVE  CurrentIInv'
<1>1. WatchIInv /\ messages \in Seq(Message)
    BY CurrentParts, WatchParts
<1>2. ASSUME NEW t \in DOMAIN serving
      PROVE  \A a : /\ Continues(t, messages, serving[t], a) =>
                           Continues(t, messages', serving'[t], a)
                    /\ Restarts(t, messages, serving[t], a) =>
                           Restarts(t, messages', serving'[t], a)
    <2>1. serving'[t] \in Told /\ ~IsAnswer(m, t) /\ Tells(t, serving[t], m, serving'[t])
        BY <1>2 DEF WatchIInv, WatchTypeOK, IsAnswer
    <2> QED BY <1>1, <2>1, ToldOn
<1> QED BY <1>2, BackendStep
-----------------------------------------------------------------------------
(* The backend tells, and what is followed is followed on                     *)

LEMMA FilterParts ==
    ASSUME CurrentIInv
    PROVE  \A t \in DOMAIN serving : serving[t].current => ~serving[t].filter
BY CurrentParts DEF FilterAfterCurrent

LEMMA CurrentSendDocument ==
    ASSUME CurrentIInv, WatchIInv', NEW d \in Docs, SendDocument(d)
    PROVE  CurrentIInv'
<1>1. /\ WatchIInv /\ UNCHANGED <<clientVars, open, requests, denied>>
    BY CurrentParts DEF SendDocument
<1>2. PICK in \in SUBSET Targets, out \in SUBSET Targets :
          /\ messages' = Append(messages, Document(d, in, out))
          /\ DOMAIN serving' = DOMAIN serving
          /\ \A t \in DOMAIN serving :
                 /\ serving'[t].told = (serving[t].told \ {e \in {d} : t \in out})
                                           \cup {e \in {d} : t \in in}
                 /\ serving'[t].current = serving[t].current
                 /\ serving'[t].filter = serving[t].filter
    BY <1>1, SendDocumentFacts
<1> DEFINE m == Document(d, in, out)
<1>3. /\ m \in Message /\ m.kind = "document" /\ m.doc = d /\ m.updated = in /\ m.removed = out
    BY MessageKinds
<1> HIDE DEF m
<1>4. \A t \in DOMAIN serving : t \in DOMAIN serving' /\ Tells(t, serving[t], m, serving'[t])
    BY <1>2, <1>3 DEF Tells
<1>5. FilterAfterCurrent'
    BY <1>2, FilterParts DEF FilterAfterCurrent
<1>6. messages' = Append(messages, m)
    BY <1>2 DEF m
<1> QED BY <1>1, <1>3, <1>4, <1>5, <1>6, OneMessageStep

LEMMA CurrentSendModified ==
    ASSUME CurrentIInv, WatchIInv', NEW d \in Docs, SendModified(d)
    PROVE  CurrentIInv'
<1> DEFINE in == {t \in DOMAIN serving : d \in results[t] \cap serving[t].told}
           m == Document(d, in, {})
<1>1. /\ UNCHANGED <<clientVars, open, requests, denied, serving>>
      /\ messages' = Append(messages, m)
    BY DEF SendModified
<1>2. in \in SUBSET Targets /\ \A t \in in : d \in serving[t].told
    BY CurrentParts, WatchParts DEF ServingTypes
<1>3. /\ m \in Message /\ m.kind = "document" /\ m.doc = d /\ m.updated = in /\ m.removed = {}
    BY <1>2, MessageKinds
<1> HIDE DEF m, in
<1>4. ASSUME NEW t \in DOMAIN serving
      PROVE  t \in DOMAIN serving' /\ Tells(t, serving[t], m, serving'[t])
    <2>1. serving[t].told =
              (serving[t].told \ {e \in {d} : t \in {}}) \cup {e \in {d} : t \in in}
        BY <1>2
    <2> QED BY <1>1, <1>3, <1>4, <2>1 DEF Tells
<1>5. FilterAfterCurrent'
    BY <1>1, FilterParts DEF FilterAfterCurrent
<1> QED BY <1>1, <1>3, <1>4, <1>5, OneMessageStep

LEMMA CurrentSendReset ==
    ASSUME CurrentIInv, WatchIInv', NEW u \in Targets, SendReset(u)
    PROVE  CurrentIInv'
<1> DEFINE m == Says("reset", u)
<1>1. /\ WatchIInv /\ UNCHANGED <<clientVars, open, requests, denied>>
    BY CurrentParts DEF SendReset
<1>2. /\ messages' = Append(messages, m) /\ DOMAIN serving' = DOMAIN serving
      /\ \A t \in DOMAIN serving : t # u => serving'[t] = serving[t]
      /\ serving'[u] = [told |-> {}, current |-> FALSE, filter |-> FALSE]
    BY <1>1, SendResetFacts
<1>3. m \in Message /\ m.kind = "reset" /\ m.target = u
    BY MessageKinds
<1> HIDE DEF m
<1>4. ASSUME NEW t \in DOMAIN serving
      PROVE  t \in DOMAIN serving' /\ Tells(t, serving[t], m, serving'[t])
    <2>1. CASE t = u
        BY <1>2, <1>3, <1>4, <2>1 DEF Tells
    <2>2. CASE t # u
        BY <1>2, <1>3, <1>4, <2>2 DEF Tells
    <2> QED BY <2>1, <2>2
<1>5. FilterAfterCurrent'
    BY <1>2, FilterParts DEF FilterAfterCurrent
<1> QED BY <1>1, <1>2, <1>3, <1>4, <1>5, OneMessageStep

LEMMA CurrentSendSnapshot ==
    ASSUME CurrentIInv, WatchIInv', SendSnapshot
    PROVE  CurrentIInv'
<1> DEFINE m == Snapshot(results)
<1>1. /\ UNCHANGED <<clientVars, open, requests, denied, serving>>
      /\ messages' = Append(messages, m)
      /\ \A t \in DOMAIN serving : serving[t].current /\ serving[t].told = results[t]
    BY DEF SendSnapshot
<1>2. results \in [Targets -> SUBSET Docs]
    BY CurrentParts DEF WatchIInv, WatchTypeOK
<1>3. m \in Message /\ m.kind = "snapshot" /\ m.holds = results
    BY <1>2, MessageKinds
<1> HIDE DEF m
<1>4. \A t \in DOMAIN serving : t \in DOMAIN serving' /\ Tells(t, serving[t], m, serving'[t])
    BY <1>1, <1>3, FilterParts DEF Tells
<1>5. FilterAfterCurrent'
    BY <1>1, FilterParts DEF FilterAfterCurrent
<1> QED BY <1>1, <1>3, <1>4, <1>5, OneMessageStep

LEMMA CurrentSendCurrent ==
    ASSUME CurrentIInv, WatchIInv', NEW u \in Targets, SendCurrent(u)
    PROVE  CurrentIInv'
<1> DEFINE c == Says("current", u)
           f == Filter(u, Cardinality(results[u]))
<1>1. /\ WatchIInv /\ UNCHANGED <<clientVars, open, requests, denied>>
      /\ messages \in Seq(Message) /\ ServingTypes
    BY CurrentParts, WatchParts DEF SendCurrent
<1>2. /\ u \in DOMAIN serving /\ ~serving[u].current /\ serving[u].told = results[u]
      /\ Cardinality(results[u]) \in Nat
      /\ ServingTypes' /\ DOMAIN serving' = DOMAIN serving
      /\ \A t \in DOMAIN serving : t # u => serving'[t] = serving[t]
      /\ serving'[u] = [told |-> serving[u].told, current |-> TRUE, filter |-> FALSE]
      /\ IF serving[u].filter THEN messages' = Append(Append(messages, c), f)
                              ELSE messages' = Append(messages, c)
    BY <1>1, SendCurrentFacts
<1>3. /\ c \in Message /\ c.kind = "current" /\ c.target = u
      /\ f \in Message /\ f.kind = "filter" /\ f.target = u /\ f.count = Cardinality(serving[u].told)
    BY <1>2, MessageKinds
<1> HIDE DEF c, f
<1>4. FilterAfterCurrent'
    BY <1>2, FilterParts DEF FilterAfterCurrent
<1>5. CASE ~serving[u].filter
    <2>1. serving[u].filter = FALSE /\ messages' = Append(messages, c)
        BY <1>1, <1>2, <1>5, ServingParts
    <2>2. ASSUME NEW t \in DOMAIN serving
          PROVE  t \in DOMAIN serving' /\ Tells(t, serving[t], c, serving'[t])
        <3>1. CASE t = u
            <4>1. /\ serving'[u].current = TRUE /\ serving'[u].told = serving[u].told
                  /\ serving'[u].filter = FALSE
                BY <1>2
            <4>2. /\ ~serving[t].current /\ serving'[t].current = TRUE
                  /\ serving'[t].told = serving[t].told /\ serving'[t].filter = serving[t].filter
                BY <1>2, <2>1, <3>1, <4>1, Zenon
            <4>3. t \in DOMAIN serving'
                BY <1>2
            <4> QED BY <1>3, <3>1, <4>2, <4>3 DEF Tells
        <3>2. CASE t # u
            BY <1>2, <1>3, <2>2, <3>2 DEF Tells
        <3> QED BY <3>1, <3>2
    <2> QED BY <1>1, <1>3, <1>4, <2>1, <2>2, OneMessageStep
<1>6. CASE serving[u].filter
    <2> DEFINE mid(t) == IF t = u
                         THEN [told |-> serving[u].told, current |-> TRUE, filter |-> TRUE]
                         ELSE serving[t]
    <2>1. serving[u].filter = TRUE /\ messages' = Append(Append(messages, c), f)
        BY <1>1, <1>2, <1>6, ServingParts
    <2>2. Append(messages, c) \in Seq(Message)
        BY <1>1, <1>3, EndGrows
    <2>3. ASSUME NEW t \in DOMAIN serving
          PROVE  /\ mid(t) \in Told /\ Tells(t, serving[t], c, mid(t))
                 /\ serving'[t] \in Told /\ Tells(t, mid(t), f, serving'[t])
        <3>1. serving[t] \in Told /\ serving[u] \in Told /\ serving'[t] \in Told
            BY <1>1, <1>2, <2>3 DEF ServingTypes
        <3>2. CASE t = u
            <4>1. /\ mid(t).told = serving[u].told /\ mid(t).current = TRUE /\ mid(t).filter = TRUE
                  /\ mid(t) \in Told
                BY <1>1, <1>2, <3>2, ServingParts DEF Told
            <4> HIDE DEF mid
            <4>2. Tells(t, serving[t], c, mid(t))
                BY <1>2, <1>3, <2>1, <3>2, <4>1 DEF Tells
            <4>3. Tells(t, mid(t), f, serving'[t])
                BY <1>2, <1>3, <3>2, <4>1 DEF Tells
            <4> QED BY <3>1, <4>1, <4>2, <4>3
        <3>3. CASE t # u
            <4>1. mid(t) = serving[t] /\ serving'[t] = serving[t]
                BY <1>2, <2>3, <3>3
            <4> HIDE DEF mid
            <4> QED BY <1>3, <3>1, <3>3, <4>1 DEF Tells
        <3> QED BY <3>2, <3>3
    <2> HIDE DEF mid
    <2>4. ASSUME NEW t \in DOMAIN serving
          PROVE  \A a : /\ Continues(t, messages, serving[t], a) =>
                               Continues(t, messages', serving'[t], a)
                        /\ Restarts(t, messages, serving[t], a) =>
                               Restarts(t, messages', serving'[t], a)
        <3>1. ~IsAnswer(c, t) /\ ~IsAnswer(f, t)
            BY <1>3 DEF IsAnswer
        <3>2. \A a : /\ Continues(t, messages, serving[t], a) =>
                            Continues(t, Append(messages, c), mid(t), a)
                     /\ Restarts(t, messages, serving[t], a) =>
                            Restarts(t, Append(messages, c), mid(t), a)
            BY <1>1, <1>3, <2>3, <3>1, ToldOn
        <3>3. \A a : /\ Continues(t, Append(messages, c), mid(t), a) =>
                            Continues(t, messages', serving'[t], a)
                     /\ Restarts(t, Append(messages, c), mid(t), a) =>
                            Restarts(t, messages', serving'[t], a)
            BY <1>3, <2>1, <2>2, <2>3, <3>1, ToldOn
        <3> QED BY <3>2, <3>3
    <2>5. \A t \in DOMAIN serving : t \in DOMAIN serving'
        BY <1>2
    <2> QED BY <1>1, <1>4, <2>4, <2>5, BackendStep
<1> QED BY <1>5, <1>6

LEMMA CurrentChangeResults ==
    ASSUME CurrentIInv, WatchIInv', NEW u \in Targets, NEW d \in Docs, ChangeResults(u, d)
    PROVE  CurrentIInv'
<1>1. UNCHANGED <<clientVars, open, requests, messages, serving, denied>>
    BY DEF ChangeResults
<1>2. FilterAfterCurrent'
    BY <1>1, FilterParts DEF FilterAfterCurrent
<1> QED BY <1>1, <1>2, BackendStep
-----------------------------------------------------------------------------
(* The app and the stream                                                     *)

LEMMA HasSame ==
    ASSUME NEW t, keys'[t] = keys[t], EnsureTargetState(t)'.changes = EnsureTargetState(t).changes
    PROVE  Has(t)' = Has(t)
BY DEF Has, Changed

LEMMA ListenFacts ==
    ASSUME WatchIInv, NEW u \in Targets, Listen(u) \/ StopListening(u)
    PROVE  \A t : /\ EnsureTargetState(t)'.changes = EnsureTargetState(t).changes
                  /\ EnsureTargetState(t)'.current = EnsureTargetState(t).current
<1>1. StateTypes
    BY WatchParts
<1>2. CASE open
    <2>1. states' = WithState(u, RecordPendingTargetRequest(EnsureTargetState(u), 1))
        BY <1>2 DEF Listen, StopListening
    <2>2. /\ RecordPendingTargetRequest(EnsureTargetState(u), 1) \in TargetState
          /\ RecordPendingTargetRequest(EnsureTargetState(u), 1).current = EnsureTargetState(u).current
          /\ RecordPendingTargetRequest(EnsureTargetState(u), 1).changes = EnsureTargetState(u).changes
        BY <1>1, StateParts, RecordParts
    <2>3. /\ EnsureTargetState(u)' = RecordPendingTargetRequest(EnsureTargetState(u), 1)
          /\ \A t : t # u => EnsureTargetState(t)' = EnsureTargetState(t)
        BY <1>1, <2>1, <2>2, OneState
    <2> QED BY <2>2, <2>3
<1>3. CASE ~open
    <2>1. UNCHANGED states
        BY <1>3 DEF Listen, StopListening
    <2> QED BY <2>1 DEF EnsureTargetState
<1> QED BY <1>2, <1>3

LEMMA CurrentListen ==
    ASSUME CurrentIInv, WatchIInv', NEW u \in Targets, Listen(u) \/ StopListening(u)
    PROVE  CurrentIInv'
<1>1. WatchIInv /\ requests \in Seq(Request) /\ stored[u] \in Tokens /\ NoToken \in Tokens
    BY CurrentParts, WatchParts DEF WatchIInv, WatchTypeOK, Tokens
<1>2. /\ UNCHANGED <<keys, open, messages, serving, denied>>
      /\ \A t : t # u => /\ t \in listening' => t \in listening
                         /\ t \in astray => t \in astray'
    BY DEF Listen, StopListening, backendVars
<1>3. \A t : /\ EnsureTargetState(t)'.changes = EnsureTargetState(t).changes
             /\ EnsureTargetState(t)'.current = EnsureTargetState(t).current
    BY <1>1, ListenFacts
<1>4. \A t \in Targets : Fits(EnsureTargetState(t)'.changes, keys'[t])
    BY <1>2, <1>3, CurrentParts
<1>5. FilterAfterCurrent'
    BY <1>2, FilterParts DEF FilterAfterCurrent
<1>6. ASSUME open', NEW t \in listening' \ (denied' \cup astray')
      PROVE  IsFollowed(t)'
    <2>1. PICK r \in Request :
              /\ r.target = u /\ requests' = Append(requests, r)
              /\ Listen(u) => r = Watch(u, stored[u])
        <3>1. /\ Watch(u, stored[u]) \in Request /\ Watch(u, stored[u]).target = u
              /\ Unwatch(u) \in Request /\ Unwatch(u).target = u
            BY <1>1, RequestParts
        <3>2. CASE Listen(u)
            BY <1>2, <1>6, <3>1, <3>2 DEF Listen
        <3>3. CASE ~Listen(u)
            BY <1>2, <1>6, <3>1, <3>3 DEF StopListening
        <3> QED BY <3>2, <3>3
    <2>2. CASE t = u
        <3>1. Listen(u)
            BY <1>6, <2>2 DEF StopListening
        <3>2. ~Misleads(stored[u], keys[u])
            BY <1>6, <2>2, <3>1 DEF Listen
        <3>3. r.kind = "watch" /\ r.target = u /\ r.token = stored[u]
            BY <2>1, <3>1 DEF Watch
        <3>4. Asks(u, requests', keys[u])
            BY <1>1, <2>1, <3>2, <3>3, AsksAppend
        <3> QED BY <1>2, <2>2, <3>4 DEF IsFollowed
    <2>3. CASE t # u
        <3>1. IsFollowed(t)
            BY <1>2, <1>6, <2>3, CurrentParts
        <3>2. /\ Asks(t, requests, keys[t]) => Asks(t, requests', keys[t])
              /\ NoneFor(t, requests) => NoneFor(t, requests')
            BY <1>1, <2>1, <2>3, AsksAppend
        <3>3. /\ Has(t)' = Has(t) /\ keys'[t] = keys[t]
              /\ EnsureTargetState(t)'.current = EnsureTargetState(t).current
            BY <1>2, <1>3, HasSame
        <3>4. t \in DOMAIN serving =>
                  /\ t \in DOMAIN serving'
                  /\ \A a : /\ Continues(t, messages, serving[t], a) =>
                                   Continues(t, messages', serving'[t], a)
                            /\ Restarts(t, messages, serving[t], a) =>
                                   Restarts(t, messages', serving'[t], a)
            BY <1>2
        <3> QED BY <3>1, <3>2, <3>3, <3>4, StaysFollowed
    <2> QED BY <2>2, <2>3
<1> QED BY <1>4, <1>5, <1>6, CurrentNext

LEMMA CurrentOpen ==
    ASSUME CurrentIInv, WatchIInv', OnWatchStreamOpen
    PROVE  CurrentIInv'
<1>1. /\ WatchTypeOK /\ serving = <<>>
      /\ states' = [t \in listening |-> RecordPendingTargetRequest(FreshState, 1)]
      /\ UNCHANGED <<listening, token, keys, serving>>
      /\ astray' = {t \in listening : Misleads(token[t], keys[t])}
    BY CurrentParts DEF WatchIInv, ClosedIsEmpty, OnWatchStreamOpen, backendVars
<1>2. PICK order \in SetToSeqs(listening) :
          requests' = [i \in 1 .. Len(order) |-> Watch(order[i], token[order[i]])]
    BY DEF OnWatchStreamOpen
<1>3. RecordPendingTargetRequest(FreshState, 1).changes = <<>>
    BY FreshParts, RecordParts
<1>4. ASSUME NEW t \in Targets
      PROVE  Fits(EnsureTargetState(t)'.changes, keys'[t])
    <2>1. EnsureTargetState(t)'.changes = <<>>
        BY <1>1, <1>3, FreshParts DEF EnsureTargetState
    <2> QED BY <2>1, NoChanges DEF Fits
<1>5. FilterAfterCurrent'
    BY <1>1, NoChanges DEF FilterAfterCurrent
<1>6. ASSUME NEW t \in listening' \ (denied' \cup astray')
      PROVE  IsFollowed(t)'
    <2>1. t \in listening /\ t \in Targets /\ ~Misleads(token[t], keys[t])
        BY <1>1, <1>6 DEF WatchTypeOK
    <2>2. PICK r : r = requests' /\ r = [i \in 1 .. Len(order) |-> Watch(order[i], token[order[i]])]
        BY <1>2
    <2>3. PICK j \in 1 .. Len(r) :
              r[j] = Watch(t, token[t]) /\ \A i \in j + 1 .. Len(r) : r[i].target # t
        BY <1>1, <1>2, <2>1, <2>2, Asked
    <2>4. r[j].kind = "watch" /\ r[j].target = t /\ r[j].token = token[t]
        BY <2>3 DEF Watch
    <2>5. Asks(t, r, keys[t])
        BY <2>1, <2>3, <2>4 DEF Asks, LastAt
    <2> QED BY <1>1, <2>2, <2>5 DEF IsFollowed
<1> QED BY <1>4, <1>5, <1>6, CurrentNext

LEMMA CurrentClose ==
    ASSUME CurrentIInv, WatchIInv', OnWatchStreamClose \/ ApplyOnlineStateChange
    PROVE  CurrentIInv'
<1>1. ~open' /\ states' = <<>> /\ serving' = <<>>
    BY CurrentParts DEF WatchIInv, ClosedIsEmpty, OnWatchStreamClose, ApplyOnlineStateChange, backendVars
<1>2. ASSUME NEW t \in Targets
      PROVE  Fits(EnsureTargetState(t)'.changes, keys'[t])
    <2>1. EnsureTargetState(t)'.changes = <<>>
        BY <1>1, NoChanges, FreshParts DEF EnsureTargetState
    <2> QED BY <2>1, NoChanges DEF Fits
<1>3. FilterAfterCurrent'
    BY <1>1, NoChanges DEF FilterAfterCurrent
<1> QED BY <1>1, <1>2, <1>3, CurrentNext

(* The backend answers: the listen that was asked for is what is followed.    *)
LEMMA CurrentHandleRequest ==
    ASSUME CurrentIInv, WatchIInv', HandleRequest
    PROVE  CurrentIInv'
<1>1. PICK u, k : u = requests[1].target /\ k = requests[1].token
    OBVIOUS
<1>2. WatchIInv /\ requests \in Seq(Request) /\ messages \in Seq(Message)
    BY CurrentParts, WatchParts
<1>3. /\ open /\ requests # <<>> /\ u \in Targets /\ requests' = Tail(requests)
      /\ UNCHANGED <<clientVars, open, results>> /\ ServingTypes'
      /\ \A t : t # u => /\ t \in DOMAIN serving' <=> t \in DOMAIN serving
                         /\ t \in DOMAIN serving => serving'[t] = serving[t]
    BY <1>1, <1>2, HandleFacts
<1>4. PICK kind \in {"added", "refused", "removed"} :
          /\ messages' = Append(messages, Says(kind, u))
          /\ denied' = IF kind = "refused" THEN denied \cup {u} ELSE denied
          /\ kind = "removed" => requests[1].kind = "unwatch"
          /\ kind = "added" =>
                 /\ u \in DOMAIN serving' /\ ~serving'[u].current
                 /\ k = NoToken => serving'[u].told = {} /\ ~serving'[u].filter
                 /\ k # NoToken => serving'[u].told \subseteq k /\ serving'[u].filter
          /\ kind = "refused" => serving' = serving
          /\ kind = "removed" => serving' = Without(serving, u)
    <2>1. \/ /\ messages' = Append(messages, Says("added", u))
             /\ denied' = denied
             /\ u \in DOMAIN serving' /\ ~serving'[u].current
             /\ k = NoToken => serving'[u].told = {} /\ ~serving'[u].filter
             /\ k # NoToken => serving'[u].told \subseteq k /\ serving'[u].filter
          \/ /\ messages' = Append(messages, Says("refused", u))
             /\ denied' = denied \cup {u} /\ serving' = serving
          \/ /\ requests[1].kind = "unwatch" /\ messages' = Append(messages, Says("removed", u))
             /\ denied' = denied /\ serving' = Without(serving, u)
        BY <1>1, <1>2, HandleFacts
    <2> QED BY <2>1, Zenon
<1> DEFINE m == Says(kind, u)
<1>5. m \in Message /\ m.kind = kind /\ m.target = u /\ messages' = Append(messages, m)
    BY <1>3, <1>4, MessageKinds
<1> HIDE DEF m
<1>6. /\ \A t : EnsureTargetState(t)' = EnsureTargetState(t) /\ Has(t)' = Has(t)
      /\ keys' = keys /\ listening' = listening /\ astray' = astray
    BY <1>3 DEF EnsureTargetState, Has, clientVars
<1>7. \A t \in Targets : Fits(EnsureTargetState(t)'.changes, keys'[t])
    BY <1>6, CurrentParts
<1>8. FilterAfterCurrent'
    <2>1. \A t \in DOMAIN serving' : t # u => ~(serving'[t].current /\ serving'[t].filter)
        BY <1>3, FilterParts
    <2>2. u \in DOMAIN serving' => ~(serving'[u].current /\ serving'[u].filter)
        <3>1. CASE kind = "added"
            BY <1>4, <3>1
        <3>2. CASE kind = "refused"
            BY <1>4, <3>2, FilterParts
        <3>3. CASE kind = "removed"
            BY <1>4, <3>3 DEF Without
        <3> QED BY <3>1, <3>2, <3>3
    <2> QED BY <2>1, <2>2 DEF FilterAfterCurrent
<1>9. ASSUME NEW t \in listening' \ (denied' \cup astray')
      PROVE  IsFollowed(t)'
    <2>1. IsFollowed(t) /\ t \in Targets /\ keys[t] \in SUBSET Docs
        BY <1>2, <1>3, <1>4, <1>6, CurrentParts, HasParts
    <2>2. CASE Asks(t, requests, keys[t])
        <3>1. CASE Asks(t, Tail(requests), keys[t])
            BY <1>3, <1>6, <3>1 DEF IsFollowed
        <3>2. CASE ~Asks(t, Tail(requests), keys[t])
            <4>1. /\ requests[1].kind = "watch" /\ requests[1].target = t
                  /\ ~Misleads(requests[1].token, keys[t]) /\ NoneFor(t, Tail(requests))
                BY <1>2, <1>3, <2>2, <3>2, AsksTail
            <4>2. t = u /\ kind = "added" /\ ~Misleads(k, keys[t])
                BY <1>1, <1>4, <1>9, <4>1
            <4>3. t \in DOMAIN serving' /\ serving'[t] \in Told
                BY <1>3, <1>4, <4>2 DEF ServingTypes
            <4>4. Agrees(keys[t], serving'[t])
                <5>1. CASE k = NoToken
                    BY <1>4, <4>2, <5>1 DEF Misleads, Agrees
                <5>2. CASE k # NoToken
                    BY <1>4, <4>2, <5>2 DEF Misleads, Agrees
                <5> QED BY <5>1, <5>2
            <4>5. Restarts(t, messages', serving'[t], serving'[t])
                BY <1>2, <1>5, <4>2, <4>3, ToldFirst
            <4>6. Hears(t, messages', serving'[t], keys'[t], Has(t)', EnsureTargetState(t)'.current)
                BY <1>6, <4>3, <4>4, <4>5 DEF Hears
            <4> QED BY <1>3, <4>1, <4>3, <4>6 DEF IsFollowed
        <3> QED BY <3>1, <3>2
    <2>3. CASE NoneFor(t, requests)
        <3>1. t # u /\ NoneFor(t, requests')
            BY <1>1, <1>2, <1>3, <2>3, AsksTail
        <3>2. ~Asks(t, requests, keys[t])
            BY <2>3 DEF NoneFor, Asks, LastAt
        <3>3. ASSUME t \in DOMAIN serving
              PROVE  /\ t \in DOMAIN serving'
                     /\ \A a : /\ Continues(t, messages, serving[t], a) =>
                                      Continues(t, messages', serving'[t], a)
                               /\ Restarts(t, messages, serving[t], a) =>
                                      Restarts(t, messages', serving'[t], a)
            <4>1. t \in DOMAIN serving' /\ serving'[t] = serving[t] /\ serving'[t] \in Told
                BY <1>3, <3>1, <3>3 DEF ServingTypes
            <4>2. ~IsAnswer(m, t)
                BY <1>5, <3>1 DEF IsAnswer
            <4>3. Tells(t, serving[t], m, serving'[t])
                BY <1>5, <3>1, <4>1 DEF Tells
            <4> QED BY <1>2, <1>5, <4>1, <4>2, <4>3, ToldOn
        <3> QED BY <1>6, <2>1, <3>1, <3>2, <3>3, StaysFollowed
    <2> QED BY <2>1, <2>2, <2>3 DEF IsFollowed
<1> QED BY <1>7, <1>8, <1>9, CurrentNext
-----------------------------------------------------------------------------
(* The client reads, and what is followed is followed on                      *)

(* What is noted of each target makes sense after the step.                   *)
NotesFit == \A t \in Targets : Fits(EnsureTargetState(t)'.changes, keys[t])

(* The last answer to a listen leaves nothing noted of the listen before it.  *)
Clears(kind) ==
    \A t \in Targets :
        kind = "added" /\ IsAnswer(messages[1], t) /\ EnsureTargetState(t)'.outstanding = 0
            => Has(t)' = keys[t]

(* The client makes of the message what the backend meant by it.              *)
Keeps(t) ==
    \A a \in Told, b \in Told :
        IsActiveTarget(t) /\ ~IsAnswer(messages[1], t) /\ Tells(t, a, messages[1], b)
                /\ Fit(a, Has(t), EnsureTargetState(t).current)
            => Fit(b, Has(t)', EnsureTargetState(t)'.current)

LEMMA CurrentRead ==
    ASSUME CurrentIInv, WatchIInv', NEW kind, Read(kind),
           UNCHANGED <<keys, requests, astray>>, listening' \in SUBSET listening,
           NotesFit, Clears(kind), \A t \in Targets \ denied : Keeps(t)
    PROVE  CurrentIInv'
<1>1. WatchIInv /\ messages \in Seq(Message)
    BY CurrentParts, WatchParts
<1>2. /\ open /\ open' /\ messages # <<>> /\ messages[1].kind = kind /\ messages' = Tail(messages)
      /\ messages' \in Seq(Message) /\ UNCHANGED <<serving, denied>>
    BY <1>1, ReadFacts
<1>3. FilterAfterCurrent'
    BY <1>2, FilterParts DEF FilterAfterCurrent
<1>4. /\ \A t \in Targets \ denied :
             EnsureTargetState(t).outstanding = 0 <=> NoneFor(t, requests) /\ NoAnswer(t, messages)
      /\ \A t \in Targets \ denied :
             EnsureTargetState(t)'.outstanding = 0
                 <=> NoneFor(t, requests') /\ NoAnswer(t, messages')
    <2>1. (WatchIInv /\ open =>
              \A t \in Targets \ denied :
                  EnsureTargetState(t).outstanding = 0
                      <=> NoneFor(t, requests) /\ NoAnswer(t, messages))'
        BY NothingOnTheWire, PTL
    <2>2. \A t \in Targets \ denied' :
              EnsureTargetState(t)'.outstanding = 0
                  <=> NoneFor(t, requests') /\ NoAnswer(t, messages')
        BY <1>2, <2>1
    <2> QED BY <1>1, <1>2, <2>2, NothingOnTheWire
<1>5. ASSUME NEW t \in listening' \ (denied' \cup astray')
      PROVE  IsFollowed(t)'
    <2>1. /\ IsFollowed(t) /\ t \in Targets \ denied /\ t \in listening
        BY <1>2, <1>5, CurrentParts
    <2>2. CASE Asks(t, requests, keys[t])
        BY <2>2 DEF IsFollowed
    <2>3. CASE ~Asks(t, requests, keys[t])
        <3>1. /\ NoneFor(t, requests) /\ t \in DOMAIN serving
              /\ Hears(t, messages, serving[t], keys[t], Has(t), EnsureTargetState(t).current)
            BY <2>1, <2>3 DEF IsFollowed
        <3>2. Hears(t, messages', serving[t], keys[t], Has(t)', EnsureTargetState(t)'.current)
            <4>1. ASSUME NEW a \in Told, Continues(t, messages, serving[t], a),
                         Fit(a, Has(t), EnsureTargetState(t).current)
                  PROVE  \E b \in Told : /\ Continues(t, messages', serving[t], b)
                                         /\ Fit(b, Has(t)', EnsureTargetState(t)'.current)
                <5>1. NoAnswer(t, messages)
                    BY <1>1, <4>1, ToldSince
                <5>2. ~IsAnswer(messages[1], t)
                    BY <1>1, <1>2, <5>1, FrontLeaves DEF NoAnswer
                <5>3. IsActiveTarget(t)
                    BY <1>4, <2>1, <3>1, <5>1 DEF IsActiveTarget
                <5>4. PICK b \in Told :
                          Tells(t, a, messages[1], b) /\ Continues(t, messages', serving[t], b)
                    BY <1>1, <1>2, <4>1, Heard
                <5>5. Fit(b, Has(t)', EnsureTargetState(t)'.current)
                    BY <2>1, <4>1, <5>2, <5>3, <5>4 DEF Keeps
                <5> QED BY <5>4, <5>5
            <4>2. ASSUME NEW a \in Told, Restarts(t, messages, serving[t], a), Agrees(keys[t], a)
                  PROVE  \/ /\ Continues(t, messages', serving[t], a)
                            /\ Fit(a, Has(t)', EnsureTargetState(t)'.current)
                         \/ Restarts(t, messages', serving[t], a)
                <5>1. \/ /\ messages[1].kind = "added" /\ messages[1].target = t
                         /\ Continues(t, messages', serving[t], a)
                      \/ Restarts(t, messages', serving[t], a)
                    BY <1>1, <1>2, <4>2, Heard
                <5>2. ASSUME messages[1].kind = "added", messages[1].target = t,
                             Continues(t, messages', serving[t], a)
                      PROVE  Fit(a, Has(t)', EnsureTargetState(t)'.current)
                    <6>1. NoAnswer(t, messages')
                        BY <1>2, <5>2, ToldSince
                    <6>2. EnsureTargetState(t)'.outstanding = 0
                        BY <1>4, <2>1, <3>1, <6>1
                    <6>3. kind = "added" /\ IsAnswer(messages[1], t)
                        BY <1>2, <5>2 DEF IsAnswer
                    <6>4. Has(t)' = keys[t]
                        BY <2>1, <6>2, <6>3 DEF Clears
                    <6> QED BY <4>2, <6>4 DEF Fit
                <5> QED BY <5>1, <5>2
            <4> QED BY <3>1, <4>1, <4>2 DEF Hears
        <3> QED BY <1>2, <3>1, <3>2 DEF IsFollowed
    <2> QED BY <2>2, <2>3
<1>6. \A t \in Targets : Fits(EnsureTargetState(t)'.changes, keys'[t])
    BY DEF NotesFit
<1> QED BY <1>3, <1>5, <1>6, CurrentNext

LEMMA NothingNoted ==
    WatchIInv => \A x \in Targets : EnsureTargetState(x).changes = <<>> => Has(x) = keys[x]
<1> SUFFICES ASSUME WatchIInv, NEW x \in Targets
             PROVE  EnsureTargetState(x).changes = <<>> => Has(x) = keys[x]
    OBVIOUS
<1> QED BY HasParts

LEMMA FitsNothing == \A has : Fits(<<>>, has)
BY NoChanges DEF Fits

LEMMA CurrentAnswer ==
    ASSUME CurrentIInv, WatchIInv', TargetAdded \/ TargetRemoved
    PROVE  CurrentIInv'
<1>1. WatchIInv
    BY CurrentParts
<1>2. PICK u : u = messages[1].target
    OBVIOUS
<1>3. PICK kind :
          /\ Read(kind) /\ UNCHANGED <<listening, keys, requests, astray>>
          /\ IsAnswer(messages[1], u) /\ u \in Targets
          /\ \A t : t # u => EnsureTargetState(t)' = EnsureTargetState(t) /\ ~IsAnswer(messages[1], t)
          /\ \/ EnsureTargetState(u)'.changes = <<>>
             \/ EnsureTargetState(u)'.changes = EnsureTargetState(u).changes
          /\ kind = "added" /\ EnsureTargetState(u)'.outstanding = 0 =>
                 EnsureTargetState(u)'.changes = <<>>
    <2>1. CASE TargetAdded
        <3>1. /\ Read("added") /\ u \in Targets
              /\ UNCHANGED <<listening, keys, requests, astray>>
              /\ IsAnswer(messages[1], u)
              /\ \A t : t # u =>
                     EnsureTargetState(t)' = EnsureTargetState(t) /\ ~IsAnswer(messages[1], t)
              /\ EnsureTargetState(u)'.outstanding = 0 => EnsureTargetState(u)'.changes = <<>>
              /\ \/ EnsureTargetState(u)'.changes = <<>>
                 \/ EnsureTargetState(u)'.changes = EnsureTargetState(u).changes
            BY <1>1, <1>2, <2>1, TargetAddedFacts
        <3> QED BY <3>1
    <2>2. CASE TargetRemoved
        <3>1. /\ Read("removed") /\ u \in Targets
              /\ UNCHANGED <<listening, keys, requests, astray>>
              /\ IsAnswer(messages[1], u)
              /\ \A t : t # u =>
                     EnsureTargetState(t)' = EnsureTargetState(t) /\ ~IsAnswer(messages[1], t)
              /\ \/ EnsureTargetState(u)'.changes = <<>>
                 \/ EnsureTargetState(u)'.changes = EnsureTargetState(u).changes
            BY <1>1, <1>2, <2>2, TargetRemovedFacts
        <3> QED BY <3>1
    <2> QED BY <2>1, <2>2
<1>4. ASSUME NEW t \in Targets
      PROVE  Fits(EnsureTargetState(t)'.changes, keys[t])
    <2>1. \/ EnsureTargetState(t)'.changes = <<>>
          \/ EnsureTargetState(t)'.changes = EnsureTargetState(t).changes
        BY <1>3
    <2> QED BY <2>1, CurrentParts, FitsNothing
<1>5. ASSUME NEW t \in Targets, kind = "added", IsAnswer(messages[1], t),
             EnsureTargetState(t)'.outstanding = 0
      PROVE  Has(t)' = keys[t]
    <2>1. EnsureTargetState(t)'.changes = <<>>
        BY <1>3, <1>5
    <2>2. (WatchIInv => \A x \in Targets : EnsureTargetState(x).changes = <<>> => Has(x) = keys[x])'
        BY NothingNoted, PTL
    <2> QED BY <1>3, <2>1, <2>2
<1>6. ASSUME NEW t \in Targets
      PROVE  Keeps(t)
    <2> SUFFICES ASSUME NEW a \in Told, NEW b \in Told, IsActiveTarget(t), ~IsAnswer(messages[1], t),
                        Tells(t, a, messages[1], b), Fit(a, Has(t), EnsureTargetState(t).current)
                 PROVE  Fit(b, Has(t)', EnsureTargetState(t)'.current)
        BY DEF Keeps
    <2>1. t # u /\ messages[1].kind \in {"added", "removed"}
        BY <1>3 DEF IsAnswer
    <2>2. EnsureTargetState(t)' = EnsureTargetState(t)
        BY <1>3, <2>1
    <2>3. b = a
        BY <2>1 DEF Tells
    <2>4. Has(t)' = Has(t)
        BY <1>3, <2>2 DEF Has
    <2> QED BY <2>2, <2>3, <2>4
<1>7. Read(kind) /\ UNCHANGED <<keys, requests, astray>> /\ listening' \in SUBSET listening
    BY <1>3
<1>8. NotesFit
    BY <1>4 DEF NotesFit
<1>9. Clears(kind)
    BY <1>5 DEF Clears
<1> QED BY <1>6, <1>7, <1>8, <1>9, CurrentRead

(* A message to one target, which is no answer, is nothing to the others.     *)
LEMMA CurrentOne ==
    ASSUME CurrentIInv, WatchIInv', NEW kind \in {"current", "reset", "filter", "refused"},
           Read(kind), UNCHANGED <<keys, requests, astray>>, listening' \in SUBSET listening,
           NEW u \in Targets, u = messages[1].target,
           \A t : t # u => EnsureTargetState(t)' = EnsureTargetState(t),
           Fits(EnsureTargetState(u)'.changes, keys[u]), u \notin denied => Keeps(u)
    PROVE  CurrentIInv'
<1>1. messages[1].kind = kind
    BY CurrentParts, ReadFacts
<1>2. NotesFit
    <2>1. ASSUME NEW t \in Targets
          PROVE  Fits(EnsureTargetState(t)'.changes, keys[t])
        <3>1. CASE t = u
            BY <3>1
        <3>2. CASE t # u
            BY <3>2, CurrentParts
        <3> QED BY <3>1, <3>2
    <2> QED BY <2>1 DEF NotesFit
<1>3. Clears(kind)
    BY DEF Clears
<1>4. ASSUME NEW t \in Targets \ denied
      PROVE  Keeps(t)
    <2>1. CASE t = u
        BY <2>1
    <2>2. CASE t # u
        <3> SUFFICES ASSUME NEW a \in Told, NEW b \in Told, Tells(t, a, messages[1], b),
                            Fit(a, Has(t), EnsureTargetState(t).current)
                     PROVE  Fit(b, Has(t)', EnsureTargetState(t)'.current)
            BY DEF Keeps
        <3>1. EnsureTargetState(t)' = EnsureTargetState(t)
            BY <2>2
        <3>2. b = a
            BY <1>1, <2>2 DEF Tells
        <3>3. Has(t)' = Has(t)
            BY <3>1 DEF Has
        <3> QED BY <3>1, <3>2, <3>3
    <2> QED BY <2>1, <2>2
<1> QED BY <1>2, <1>3, <1>4, CurrentRead

LEMMA CurrentTargetError ==
    ASSUME CurrentIInv, WatchIInv', ProcessTargetError
    PROVE  CurrentIInv'
<1>1. WatchIInv
    BY CurrentParts
<1>2. PICK u : u = messages[1].target
    OBVIOUS
<1>3. /\ Read("refused") /\ u \in Targets /\ u \in denied
      /\ listening' = listening \ {u} /\ UNCHANGED <<keys, requests, astray>>
      /\ \A t : t # u => EnsureTargetState(t)' = EnsureTargetState(t)
    BY <1>1, <1>2, ProcessTargetErrorFacts
<1>4. \/ EnsureTargetState(u)'.changes = <<>>
      \/ EnsureTargetState(u)'.changes = EnsureTargetState(u).changes
    BY <1>1, <1>2, ProcessTargetErrorFacts
<1>5. Fits(EnsureTargetState(u)'.changes, keys[u])
    BY <1>3, <1>4, CurrentParts, FitsNothing
<1>6. listening' \in SUBSET listening
    BY <1>3
<1> QED BY <1>2, <1>3, <1>5, <1>6, CurrentOne

(* A target is current once the client has all it was told of it.             *)
LEMMA CurrentTargetCurrent ==
    ASSUME CurrentIInv, WatchIInv', TargetCurrent
    PROVE  CurrentIInv'
<1>1. WatchIInv
    BY CurrentParts
<1>2. PICK u : u = messages[1].target
    OBVIOUS
<1>3. /\ Read("current") /\ u \in Targets
      /\ UNCHANGED <<listening, keys, requests, astray>>
      /\ \A t : t # u => EnsureTargetState(t)' = EnsureTargetState(t)
      /\ EnsureTargetState(u)'.changes = EnsureTargetState(u).changes
    BY <1>1, <1>2, TargetCurrentFacts
<1>4. Fits(EnsureTargetState(u)'.changes, keys[u])
    BY <1>3, CurrentParts
<1>5. Keeps(u)
    <2> SUFFICES ASSUME NEW a \in Told, NEW b \in Told, Tells(u, a, messages[1], b),
                        Fit(a, Has(u), EnsureTargetState(u).current)
                 PROVE  Fit(b, Has(u)', EnsureTargetState(u)'.current)
        BY DEF Keeps
    <2>1. messages[1].kind = "current"
        BY <1>1, <1>3, ReadFacts
    <2>2. ~a.current /\ b.told = a.told /\ b.filter = a.filter
        BY <1>2, <2>1 DEF Tells
    <2>3. Has(u)' = Has(u)
        BY <1>3 DEF Has, Changed
    <2> QED BY <2>2, <2>3 DEF Fit, Agrees
<1> QED BY <1>2, <1>3, <1>4, <1>5, CurrentOne

(* A reset takes back what the client has, as the backend tells it anew.      *)
LEMMA ResetKeeps ==
    ASSUME WatchIInv, WatchIInv', UNCHANGED keys, NEW u \in Targets,
           EnsureTargetState(u)' = ResetTarget(u)
    PROVE  /\ Has(u)' = {} /\ ~EnsureTargetState(u)'.current
           /\ Fits(EnsureTargetState(u)'.changes, keys[u])
<1>1. ResetTarget(u)' = ResetTarget(u)
    BY DEF ResetTarget, FreshState
<1>2. /\ ~EnsureTargetState(u)'.current
      /\ EnsureTargetState(u)'.changes = [d \in keys[u] |-> "removed"]
    BY <1>1, ResetParts
<1>3. Has(u)' = {}
    <2>1. /\ Changed(EnsureTargetState(u)', "added") = {}
          /\ Changed(EnsureTargetState(u)', "removed") = keys[u]
        BY <1>2 DEF Changed
    <2> QED BY <2>1 DEF Has
<1> QED BY <1>2, <1>3 DEF Fits

LEMMA CurrentTargetReset ==
    ASSUME CurrentIInv, WatchIInv', TargetReset
    PROVE  CurrentIInv'
<1>1. WatchIInv
    BY CurrentParts
<1>2. PICK u : u = messages[1].target
    OBVIOUS
<1>3. /\ Read("reset") /\ u \in Targets
      /\ UNCHANGED <<listening, keys, requests, astray>>
      /\ \A t : t # u => EnsureTargetState(t)' = EnsureTargetState(t)
      /\ IsActiveTarget(u) => EnsureTargetState(u)' = ResetTarget(u)
      /\ ~IsActiveTarget(u) => EnsureTargetState(u)' = EnsureTargetState(u)
    BY <1>1, <1>2, TargetResetFacts
<1>4. Fits(EnsureTargetState(u)'.changes, keys[u])
    <2>1. CASE IsActiveTarget(u)
        BY <1>1, <1>3, <2>1, ResetKeeps
    <2>2. CASE ~IsActiveTarget(u)
        BY <1>3, <2>2, CurrentParts
    <2> QED BY <2>1, <2>2
<1>5. Keeps(u)
    <2> SUFFICES ASSUME NEW a \in Told, NEW b \in Told, Tells(u, a, messages[1], b),
                        IsActiveTarget(u)
                 PROVE  Fit(b, Has(u)', EnsureTargetState(u)'.current)
        BY DEF Keeps
    <2>1. messages[1].kind = "reset"
        BY <1>1, <1>3, ReadFacts
    <2>2. b.told = {}
        BY <1>2, <2>1 DEF Tells
    <2>3. Has(u)' = {}
        BY <1>1, <1>3, ResetKeeps
    <2> QED BY <2>2, <2>3 DEF Fit, Agrees
<1> QED BY <1>2, <1>3, <1>4, <1>5, CurrentOne

(* The count that is compared with a filter counts what the client has.       *)
LEMMA CountFacts ==
    ASSUME WatchIInv, NEW u \in Targets, Fits(EnsureTargetState(u).changes, keys[u])
    PROVE  /\ IsFiniteSet(Has(u))
           /\ GetCurrentDocumentCountForTarget(u) = Cardinality(Has(u))
<1>1. PICK K, A, R : /\ K = keys[u] /\ A = Changed(EnsureTargetState(u), "added")
                     /\ R = Changed(EnsureTargetState(u), "removed")
    OBVIOUS
<1>2. EnsureTargetState(u) \in TargetState
    BY WatchParts, StateParts
<1>3. K \in SUBSET Docs /\ A \in SUBSET Docs /\ R \in SUBSET Docs
    BY <1>1, <1>2, HasParts, ChangedFacts
<1>4. IsFiniteSet(K) /\ IsFiniteSet(A) /\ IsFiniteSet(R)
    BY <1>3, WatchAssumption, FS_Subset
<1>5. K \cap A = {} /\ (K \cup A) \cap R = R
    BY <1>1 DEF Fits, Changed
<1>6. IsFiniteSet(K \cup A) /\ Cardinality(K \cup A) = Cardinality(K) + Cardinality(A)
    <2>1. /\ IsFiniteSet(K \cup A)
          /\ Cardinality(K \cup A) = Cardinality(K) + Cardinality(A) - Cardinality(K \cap A)
        BY <1>4, FS_Union
    <2>2. Cardinality(K \cap A) = 0
        BY <1>5, FS_EmptySet
    <2>3. Cardinality(K) \in Nat /\ Cardinality(A) \in Nat
        BY <1>4, FS_CardinalityType
    <2> QED BY <2>1, <2>2, <2>3
<1>7. /\ IsFiniteSet((K \cup A) \ R)
      /\ Cardinality((K \cup A) \ R) = Cardinality(K \cup A) - Cardinality((K \cup A) \cap R)
    BY <1>6, FS_Difference
<1>8. Has(u) = (K \cup A) \ R
    BY <1>1 DEF Has
<1>9. GetCurrentDocumentCountForTarget(u) = Cardinality(K) + Cardinality(A) - Cardinality(R)
    BY <1>1 DEF GetCurrentDocumentCountForTarget
<1>10. Cardinality(K) \in Nat /\ Cardinality(A) \in Nat /\ Cardinality(R) \in Nat
    BY <1>4, FS_CardinalityType
<1>11. Cardinality(Has(u)) = Cardinality(K) + Cardinality(A) - Cardinality(R)
    <2>1. Cardinality((K \cup A) \cap R) = Cardinality(R)
        BY <1>5, Zenon
    <2>2. Cardinality(Has(u)) = Cardinality((K \cup A) \ R)
        BY <1>8, Zenon
    <2> QED BY <1>6, <1>7, <1>10, <2>1, <2>2
<1> QED BY <1>7, <1>8, <1>9, <1>11

(* A filter that matches shows that the client has no more than it was told.  *)
LEMMA CurrentExistenceFilter ==
    ASSUME CurrentIInv, WatchIInv', HandleExistenceFilter
    PROVE  CurrentIInv'
<1>1. WatchIInv
    BY CurrentParts
<1>2. PICK u : u = messages[1].target
    OBVIOUS
<1>3. /\ Read("filter") /\ u \in Targets
      /\ UNCHANGED <<listening, keys, requests, astray>>
      /\ \A t : t # u => EnsureTargetState(t)' = EnsureTargetState(t)
    BY <1>1, <1>2, HandleExistenceFilterFacts
<1>4. IF IsActiveTarget(u) /\ GetCurrentDocumentCountForTarget(u) # messages[1].count
      THEN EnsureTargetState(u)' = ResetTarget(u)
      ELSE EnsureTargetState(u)' = EnsureTargetState(u)
    BY <1>1, <1>2, HandleExistenceFilterFacts
<1>5. Fits(EnsureTargetState(u).changes, keys[u])
    BY <1>3, CurrentParts
<1>6. Fits(EnsureTargetState(u)'.changes, keys[u])
    <2>1. CASE EnsureTargetState(u)' = ResetTarget(u)
        BY <1>1, <1>3, <2>1, ResetKeeps
    <2>2. CASE EnsureTargetState(u)' = EnsureTargetState(u)
        BY <1>5, <2>2
    <2> QED BY <1>4, <2>1, <2>2
<1>7. Keeps(u)
    <2> SUFFICES ASSUME NEW a \in Told, NEW b \in Told, Tells(u, a, messages[1], b),
                        IsActiveTarget(u), Fit(a, Has(u), EnsureTargetState(u).current)
                 PROVE  Fit(b, Has(u)', EnsureTargetState(u)'.current)
        BY DEF Keeps
    <2>1. messages[1].kind = "filter"
        BY <1>1, <1>3, ReadFacts
    <2>2. /\ a.filter /\ messages[1].count = Cardinality(a.told)
          /\ ~b.filter /\ b.current /\ b.told = a.told
        BY <1>2, <2>1 DEF Tells
    <2>3. a.told \subseteq Has(u)
        BY <2>2 DEF Fit, Agrees
    <2>4. CASE GetCurrentDocumentCountForTarget(u) # messages[1].count
        <3>1. EnsureTargetState(u)' = ResetTarget(u)
            BY <1>4, <2>4
        <3>2. ~EnsureTargetState(u)'.current
            BY <1>1, <1>3, <3>1, ResetKeeps
        <3> QED BY <2>2, <3>2 DEF Fit
    <2>5. CASE GetCurrentDocumentCountForTarget(u) = messages[1].count
        <3>1. EnsureTargetState(u)' = EnsureTargetState(u)
            BY <1>4, <2>5
        <3>2. Has(u)' = Has(u)
            BY <1>3, <3>1 DEF Has
        <3>3. IsFiniteSet(Has(u)) /\ Cardinality(Has(u)) = Cardinality(a.told)
            BY <1>1, <1>3, <1>5, <2>2, <2>5, CountFacts
        <3>4. a.told = Has(u)
            BY <2>3, <3>3, FS_Subset
        <3> QED BY <2>2, <3>2, <3>4 DEF Fit, Agrees
    <2> QED BY <2>4, <2>5
<1> QED BY <1>2, <1>3, <1>6, <1>7, CurrentOne

(* What a client that has noted s of target t will have.                      *)
Noted(s, t) == (keys[t] \cup Changed(s, "added")) \ Changed(s, "removed")

(* A document that enters a target is there from then on, one that leaves it  *)
(* is not, and what is noted of it fits what the client has.                  *)
LEMMA DocumentNoted ==
    ASSUME NEW s \in TargetState, NEW t, NEW d \in Docs, Fits(s.changes, keys[t])
    PROVE  /\ Fits(AddDocumentToTarget(s, t, d).changes, keys[t])
           /\ Fits(RemoveDocumentFromTarget(s, t, d).changes, keys[t])
           /\ Noted(AddDocumentToTarget(s, t, d), t) = Noted(s, t) \cup {d}
           /\ Noted(RemoveDocumentFromTarget(s, t, d), t) = Noted(s, t) \ {d}
<1> DEFINE c == s.changes
           e == AddDocumentToTarget(s, t, d).changes
           r == RemoveDocumentFromTarget(s, t, d).changes
           kind == IF d \in keys[t] THEN "modified" ELSE "added"
<1>1. /\ e = With(c, d, kind)
      /\ r = IF d \in keys[t] THEN With(c, d, "removed") ELSE Without(c, d)
    BY DEF AddDocumentToTarget, RemoveDocumentFromTarget, TargetState
<1>2. kind \in {"added", "modified", "removed"}
    OBVIOUS
<1>3. \A s1 : \A x : x \in Noted(s1, t) <=>
          /\ x \in keys[t] \/ (x \in DOMAIN s1.changes /\ s1.changes[x] = "added")
          /\ ~(x \in DOMAIN s1.changes /\ s1.changes[x] = "removed")
    BY DEF Noted, Changed
<1>4. Fits(c, keys[t])
    OBVIOUS
<1> HIDE DEF c, e, r
<1>5. ASSUME NEW k \in {"added", "modified", "removed"}
      PROVE  /\ DOMAIN With(c, d, k) = DOMAIN c \cup {d} /\ With(c, d, k)[d] = k
             /\ DOMAIN Without(c, d) = DOMAIN c \ {d}
             /\ \A x \in DOMAIN c : x # d => With(c, d, k)[x] = c[x] /\ Without(c, d)[x] = c[x]
    BY DEF With, Without
<1>6. /\ DOMAIN e = DOMAIN c \cup {d} /\ e[d] = kind
      /\ \A x \in DOMAIN c : x # d => e[x] = c[x]
    BY <1>1, <1>2, <1>5
<1>7. /\ d \in keys[t] => DOMAIN r = DOMAIN c \cup {d} /\ r[d] = "removed"
      /\ d \notin keys[t] => DOMAIN r = DOMAIN c \ {d}
      /\ \A x \in DOMAIN c : x # d => r[x] = c[x]
    <2>1. CASE d \in keys[t]
        <3>1. r = With(c, d, "removed")
            BY <1>1, <2>1
        <3> QED BY <1>5, <2>1, <3>1
    <2>2. CASE d \notin keys[t]
        <3>1. r = Without(c, d)
            BY <1>1, <2>2
        <3> QED BY <1>5, <2>2, <3>1
    <2> QED BY <2>1, <2>2
<1>8. Fits(e, keys[t])
    BY <1>4, <1>6 DEF Fits
<1>9. Fits(r, keys[t])
    BY <1>4, <1>7 DEF Fits
<1>10. Noted(AddDocumentToTarget(s, t, d), t) = Noted(s, t) \cup {d}
    <2>1. ASSUME NEW x
          PROVE  x \in Noted(AddDocumentToTarget(s, t, d), t) <=> x \in Noted(s, t) \cup {d}
        <3>1. x \in Noted(AddDocumentToTarget(s, t, d), t) <=>
                  /\ x \in keys[t] \/ (x \in DOMAIN e /\ e[x] = "added")
                  /\ ~(x \in DOMAIN e /\ e[x] = "removed")
            BY <1>3 DEF e
        <3>2. x \in Noted(s, t) <=>
                  /\ x \in keys[t] \/ (x \in DOMAIN c /\ c[x] = "added")
                  /\ ~(x \in DOMAIN c /\ c[x] = "removed")
            BY <1>3 DEF c
        <3> QED BY <1>6, <3>1, <3>2
    <2> QED BY <2>1
<1>11. Noted(RemoveDocumentFromTarget(s, t, d), t) = Noted(s, t) \ {d}
    <2>1. ASSUME NEW x
          PROVE  x \in Noted(RemoveDocumentFromTarget(s, t, d), t) <=> x \in Noted(s, t) \ {d}
        <3>1. x \in Noted(RemoveDocumentFromTarget(s, t, d), t) <=>
                  /\ x \in keys[t] \/ (x \in DOMAIN r /\ r[x] = "added")
                  /\ ~(x \in DOMAIN r /\ r[x] = "removed")
            BY <1>3 DEF r
        <3>2. x \in Noted(s, t) <=>
                  /\ x \in keys[t] \/ (x \in DOMAIN c /\ c[x] = "added")
                  /\ ~(x \in DOMAIN c /\ c[x] = "removed")
            BY <1>3 DEF c
        <3> QED BY <1>7, <3>1, <3>2
    <2> QED BY <2>1
<1> QED BY <1>8, <1>9, <1>10, <1>11 DEF e, r

(* The client notes what the backend told it.                                 *)
LEMMA CurrentDocumentChange ==
    ASSUME CurrentIInv, WatchIInv', HandleDocumentChange
    PROVE  CurrentIInv'
<1>1. WatchIInv
    BY CurrentParts
<1>2. PICK m : m = messages[1]
    OBVIOUS
<1>3. /\ Read("document") /\ m.kind = "document" /\ m.doc \in Docs
      /\ UNCHANGED <<listening, keys, requests, astray>>
      /\ \A t \in Targets : EnsureTargetState(t)'.current = EnsureTargetState(t).current
    BY <1>1, <1>2, DocumentFacts
<1>4. \A t \in Targets :
          EnsureTargetState(t)' =
              IF t \in m.updated /\ IsActiveTarget(t)
              THEN AddDocumentToTarget(EnsureTargetState(t), t, m.doc)
              ELSE IF t \in m.removed /\ IsActiveTarget(t)
                   THEN RemoveDocumentFromTarget(EnsureTargetState(t), t, m.doc)
                   ELSE EnsureTargetState(t)
    BY <1>1, <1>2, DocumentFacts
<1>5. ASSUME NEW t \in Targets
      PROVE  /\ Fits(EnsureTargetState(t)'.changes, keys[t])
             /\ Has(t)' = IF t \in m.updated /\ IsActiveTarget(t) THEN Has(t) \cup {m.doc}
                          ELSE IF t \in m.removed /\ IsActiveTarget(t) THEN Has(t) \ {m.doc}
                          ELSE Has(t)
    <2>1. EnsureTargetState(t) \in TargetState /\ Fits(EnsureTargetState(t).changes, keys[t])
        BY <1>1, WatchParts, StateParts, CurrentParts
    <2>2. PICK s : s = EnsureTargetState(t)
        OBVIOUS
    <2>3. Has(t) = Noted(s, t) /\ Has(t)' = Noted(EnsureTargetState(t)', t)
        BY <1>3, <2>2 DEF Has, Noted, Changed
    <2>4. /\ Fits(AddDocumentToTarget(s, t, m.doc).changes, keys[t])
          /\ Fits(RemoveDocumentFromTarget(s, t, m.doc).changes, keys[t])
          /\ Noted(AddDocumentToTarget(s, t, m.doc), t) = Noted(s, t) \cup {m.doc}
          /\ Noted(RemoveDocumentFromTarget(s, t, m.doc), t) = Noted(s, t) \ {m.doc}
        BY <1>3, <2>1, <2>2, DocumentNoted
    <2>5. CASE t \in m.updated /\ IsActiveTarget(t)
        <3>1. EnsureTargetState(t)' = AddDocumentToTarget(s, t, m.doc)
            BY <1>4, <2>2, <2>5
        <3> QED BY <2>3, <2>4, <2>5, <3>1
    <2>6. CASE ~(t \in m.updated /\ IsActiveTarget(t)) /\ t \in m.removed /\ IsActiveTarget(t)
        <3>1. EnsureTargetState(t)' = RemoveDocumentFromTarget(s, t, m.doc)
            BY <1>4, <2>2, <2>6
        <3> QED BY <2>3, <2>4, <2>6, <3>1
    <2>7. CASE /\ ~(t \in m.updated /\ IsActiveTarget(t))
               /\ ~(t \in m.removed /\ IsActiveTarget(t))
        <3>1. EnsureTargetState(t)' = s
            BY <1>4, <2>2, <2>7
        <3> QED BY <2>1, <2>2, <2>3, <2>7, <3>1
    <2> QED BY <2>5, <2>6, <2>7
<1>6. NotesFit
    BY <1>5 DEF NotesFit
<1>7. Clears("document")
    BY DEF Clears
<1>8. ASSUME NEW t \in Targets
      PROVE  Keeps(t)
    <2> SUFFICES ASSUME NEW a \in Told, NEW b \in Told, IsActiveTarget(t),
                        Tells(t, a, messages[1], b), Fit(a, Has(t), EnsureTargetState(t).current)
                 PROVE  Fit(b, Has(t)', EnsureTargetState(t)'.current)
        BY DEF Keeps
    <2>1. /\ b.told = (a.told \ {d \in {m.doc} : t \in m.removed})
                          \cup {d \in {m.doc} : t \in m.updated}
          /\ b.current = a.current /\ b.filter = a.filter
        BY <1>2, <1>3 DEF Tells
    <2>2. EnsureTargetState(t)'.current = EnsureTargetState(t).current
        BY <1>3
    <2>3. Has(t)' = (Has(t) \ {d \in {m.doc} : t \in m.removed})
                        \cup {d \in {m.doc} : t \in m.updated}
        <3>1. Has(t)' = IF t \in m.updated THEN Has(t) \cup {m.doc}
                        ELSE IF t \in m.removed THEN Has(t) \ {m.doc} ELSE Has(t)
            BY <1>5
        <3> QED BY <3>1
    <2>4. Agrees(Has(t), a) => Agrees(Has(t)', b)
        BY <2>1, <2>3 DEF Agrees
    <2> QED BY <2>1, <2>2, <2>4 DEF Fit
<1> QED BY <1>3, <1>6, <1>7, <1>8, CurrentRead

(* A snapshot changes nothing of what the client will have: it becomes what   *)
(* the client has.  A target that does not match is asked for anew.           *)
LEMMA CurrentRaiseSnapshot ==
    ASSUME CurrentIInv, WatchIInv', RaiseWatchSnapshot
    PROVE  CurrentIInv'
<1>1. WatchIInv /\ requests \in Seq(Request) /\ messages \in Seq(Message)
    BY CurrentParts, WatchParts
<1>2. PICK again : again = Again
    OBVIOUS
<1>3. /\ Read("snapshot") /\ UNCHANGED listening
      /\ again \in SUBSET Targets /\ IsFiniteSet(again)
      /\ astray' = (astray \ again) \cup {t \in again : Misleads(NoToken, keys'[t])}
      /\ WithRewatch(requests, again, requests')
    BY <1>1, <1>2, SnapshotFacts
<1>4. ASSUME NEW t \in Targets
      PROVE  /\ t \in Included => keys'[t] = Has(t) /\ EnsureTargetState(t)'.changes = <<>>
             /\ t \notin Included =>
                    /\ keys'[t] = keys[t]
                    /\ EnsureTargetState(t)'.changes = EnsureTargetState(t).changes
             /\ EnsureTargetState(t)'.current = EnsureTargetState(t).current
    BY <1>1, SnapshotFacts
<1>5. /\ open /\ open' /\ messages # <<>> /\ messages[1].kind = "snapshot"
      /\ messages' = Tail(messages) /\ messages' \in Seq(Message)
      /\ UNCHANGED <<serving, denied>>
    BY <1>1, <1>3, ReadFacts
<1>6. FilterAfterCurrent'
    BY <1>5, FilterParts DEF FilterAfterCurrent
<1>7. ASSUME NEW t \in Targets
      PROVE  Fits(EnsureTargetState(t)'.changes, keys'[t])
    <2>1. CASE t \in Included
        BY <1>4, <2>1, FitsNothing
    <2>2. CASE t \notin Included
        BY <1>4, <2>2, CurrentParts
    <2> QED BY <2>1, <2>2
<1>8. ASSUME NEW t \in Targets
      PROVE  Has(t)' = Has(t)
    <2>1. CASE t \in Included
        <3>1. (WatchIInv =>
                  \A x \in Targets : EnsureTargetState(x).changes = <<>> => Has(x) = keys[x])'
            BY NothingNoted, PTL
        <3> QED BY <1>4, <2>1, <3>1
    <2>2. CASE t \notin Included
        BY <1>4, <2>2 DEF Has, Changed
    <2> QED BY <2>1, <2>2
<1>9. ASSUME NEW t \in Targets \ denied, ~(NoneFor(t, requests) /\ NoAnswer(t, messages))
      PROVE  keys'[t] = keys[t]
    <2>1. EnsureTargetState(t).outstanding # 0
        BY <1>1, <1>5, <1>9, NothingOnTheWire
    <2>2. t \notin Included
        BY <2>1 DEF Included, IsActiveTarget
    <2> QED BY <1>4, <2>2
<1>10. ASSUME NEW t \in listening' \ (denied' \cup astray')
       PROVE  IsFollowed(t)'
    <2>1. t \in Targets \ denied /\ t \in listening
        BY <1>1, <1>3, <1>5 DEF WatchIInv, WatchTypeOK
    <2>2. CASE t \in again
        <3>1. ~Misleads(NoToken, keys'[t])
            BY <1>3, <1>10, <2>2
        <3>2. Asks(t, requests', keys'[t])
            BY <1>1, <1>3, <2>1, <2>2, <3>1, AsksRewatch
        <3> QED BY <3>2 DEF IsFollowed
    <2>3. CASE t \notin again
        <3>1. IsFollowed(t)
            <4>1. t \notin astray
                BY <1>3, <1>10, <2>3
            <4> QED BY <1>5, <2>1, <4>1, CurrentParts
        <3>2. CASE Asks(t, requests, keys[t])
            <4>1. ~NoneFor(t, requests)
                BY <3>2 DEF Asks, LastAt, NoneFor
            <4>2. keys'[t] = keys[t]
                BY <1>9, <2>1, <4>1
            <4>3. Asks(t, requests', keys[t])
                BY <1>1, <1>3, <2>1, <2>3, <3>2, AsksRewatch
            <4> QED BY <4>2, <4>3 DEF IsFollowed
        <3>3. CASE ~Asks(t, requests, keys[t])
            <4>1. /\ NoneFor(t, requests) /\ t \in DOMAIN serving
                  /\ Hears(t, messages, serving[t], keys[t], Has(t), EnsureTargetState(t).current)
                BY <3>1, <3>3 DEF IsFollowed
            <4>2. NoneFor(t, requests')
                BY <1>1, <1>3, <2>1, <2>3, <4>1, AsksRewatch
            <4>3. ASSUME NEW a \in Told, Continues(t, messages, serving[t], a)
                  PROVE  Continues(t, messages', serving[t], a)
                <5>1. PICK b \in Told :
                          Tells(t, a, messages[1], b) /\ Continues(t, messages', serving[t], b)
                    BY <1>1, <1>5, <4>3, Heard
                <5>2. b = a
                    BY <1>5, <5>1 DEF Tells
                <5> QED BY <5>1, <5>2
            <4>4. ASSUME NEW a \in Told, Restarts(t, messages, serving[t], a)
                  PROVE  Restarts(t, messages', serving[t], a) /\ keys'[t] = keys[t]
                <5>1. Restarts(t, messages', serving[t], a)
                    BY <1>1, <1>5, <4>4, Heard
                <5>2. ~NoAnswer(t, messages)
                    BY <1>1, <4>4, ToldSince
                <5> QED BY <1>9, <2>1, <5>1, <5>2
            <4>5. Has(t)' = Has(t) /\ EnsureTargetState(t)'.current = EnsureTargetState(t).current
                BY <1>4, <1>8, <2>1
            <4>6. Hears(t, messages', serving[t], keys'[t], Has(t)', EnsureTargetState(t)'.current)
                BY <4>1, <4>3, <4>4, <4>5 DEF Hears
            <4> QED BY <1>5, <4>1, <4>2, <4>6 DEF IsFollowed
        <3> QED BY <3>2, <3>3
    <2> QED BY <2>2, <2>3
<1> QED BY <1>6, <1>7, <1>10, CurrentNext
-----------------------------------------------------------------------------
(* What is followed is followed for ever                                      *)

LEMMA CurrentInit == Init => CurrentIInv
<1> SUFFICES ASSUME Init PROVE CurrentIInv
    OBVIOUS
<1>1. WatchIInv
    BY WatchInit
<1>2. ~open /\ DOMAIN states = {} /\ DOMAIN serving = {}
    BY NoChanges DEF Init
<1> QED BY <1>1, <1>2 DEF CurrentIInv, FilterAfterCurrent, ChangesFit, Followed

LEMMA CurrentStep == CurrentIInv /\ [Next]_vars => CurrentIInv'
<1> SUFFICES ASSUME CurrentIInv, [Next]_vars PROVE CurrentIInv'
    OBVIOUS
<1>1. WatchIInv /\ WatchIInv'
    BY CurrentParts, WatchStep
<1>2. ASSUME NEW t \in Targets, Listen(t) \/ StopListening(t)
      PROVE  CurrentIInv'
    BY <1>1, <1>2, CurrentListen
<1>3. CASE OnWatchStreamOpen
    BY <1>1, <1>3, CurrentOpen
<1>4. CASE OnWatchStreamClose \/ ApplyOnlineStateChange
    BY <1>1, <1>4, CurrentClose
<1>5. ASSUME NEW t \in Targets, NEW d \in Docs, ChangeResults(t, d)
      PROVE  CurrentIInv'
    BY <1>1, <1>5, CurrentChangeResults
<1>6. CASE HandleRequest
    BY <1>1, <1>6, CurrentHandleRequest
<1>7. ASSUME NEW d \in Docs, SendDocument(d) \/ SendModified(d)
      PROVE  CurrentIInv'
    BY <1>1, <1>7, CurrentSendDocument, CurrentSendModified
<1>8. ASSUME NEW t \in Targets, SendCurrent(t) \/ SendReset(t)
      PROVE  CurrentIInv'
    BY <1>1, <1>8, CurrentSendCurrent, CurrentSendReset
<1>9. CASE SendSnapshot
    BY <1>1, <1>9, CurrentSendSnapshot
<1>10. CASE TargetAdded \/ TargetRemoved
    BY <1>1, <1>10, CurrentAnswer
<1>11. CASE TargetCurrent \/ TargetReset
    BY <1>1, <1>11, CurrentTargetCurrent, CurrentTargetReset
<1>12. CASE ProcessTargetError \/ HandleExistenceFilter
    BY <1>1, <1>12, CurrentTargetError, CurrentExistenceFilter
<1>13. CASE HandleDocumentChange
    BY <1>1, <1>13, CurrentDocumentChange
<1>14. CASE RaiseWatchSnapshot
    BY <1>1, <1>14, CurrentRaiseSnapshot
<1>15. CASE UNCHANGED vars
    <2>1. UNCHANGED <<clientVars, open, requests, messages, backendVars>>
        BY <1>15 DEF vars
    <2>2. UNCHANGED <<clientVars, open, requests, messages, serving, denied>>
        BY <2>1 DEF backendVars
    <2>3. FilterAfterCurrent'
        BY <2>2, FilterParts DEF FilterAfterCurrent
    <2> QED BY <1>1, <2>2, <2>3, BackendStep
<1> QED BY <1>2, <1>3, <1>4, <1>5, <1>6, <1>7, <1>8, <1>9, <1>10, <1>11, <1>12, <1>13, <1>14,
           <1>15 DEF Next, BackendSends, ClientReads

(* On every behaviour, of each target that is listened to on an open stream,  *)
(* that was not refused on it and whose listen can put right what is wrong,   *)
(* either the last request is still to be handled, or what the backend has    *)
(* told of it since is what the messages on the wire will make of what the    *)
(* client has; or a filter did not match, and it is not current until it is   *)
(* asked for anew (HandleExistenceFilter, RaiseWatchSnapshot).                *)
THEOREM ListensAreFollowed == Spec => []CurrentIInv
<1>1. Init => CurrentIInv
    BY CurrentInit
<1>2. CurrentIInv /\ [Next]_vars => CurrentIInv'
    BY CurrentStep
<1> QED BY <1>1, <1>2, PTL DEF Spec

(* The view of a target that waits for nothing is what the backend has, if    *)
(* the snapshot says it is current.                                           *)
LEMMA SnapshotIsTrue ==
    ASSUME CurrentIInv, RaiseWatchSnapshot, NEW t \in Included \ (astray \cup denied), current'[t]
    PROVE  keys'[t] = Head(messages).holds[t]
<1>1. WatchIInv /\ messages \in Seq(Message)
    BY CurrentParts, WatchParts
<1>2. t \in Targets /\ t \in listening /\ EnsureTargetState(t).outstanding = 0
    BY <1>1, WatchParts DEF Included, IsActiveTarget, StateTypes
<1>3. Read("snapshot") /\ keys'[t] = Has(t) /\ EnsureTargetState(t).current
    BY <1>1, <1>2, SnapshotFacts
<1>4. /\ open /\ messages # <<>> /\ messages[1].kind = "snapshot"
      /\ Head(messages) = messages[1]
    BY <1>1, <1>3, ReadFacts
<1>5. NoneFor(t, requests) /\ NoAnswer(t, messages)
    BY <1>1, <1>2, <1>4, NothingOnTheWire
<1>6. IsFollowed(t)
    BY <1>2, <1>4, CurrentParts
<1>7. Hears(t, messages, serving[t], keys[t], Has(t), EnsureTargetState(t).current)
    <2>1. ~Asks(t, requests, keys[t])
        BY <1>5 DEF Asks, LastAt, NoneFor
    <2> QED BY <1>6, <2>1 DEF IsFollowed
<1>8. PICK a \in Told : /\ Continues(t, messages, serving[t], a)
                        /\ Fit(a, Has(t), EnsureTargetState(t).current)
    <2>1. ASSUME NEW a, Restarts(t, messages, serving[t], a)
          PROVE  FALSE
        BY <1>1, <1>5, <2>1, ToldSince
    <2> QED BY <1>7, <2>1 DEF Hears
<1>9. PICK b \in Told : Tells(t, a, messages[1], b)
    BY <1>1, <1>4, <1>8, Heard
<1>10. ~a.filter /\ messages[1].holds[t] = a.told
    BY <1>4, <1>9 DEF Tells
<1>11. Has(t) = a.told
    BY <1>3, <1>8, <1>10 DEF Fit, Agrees
<1> QED BY <1>3, <1>4, <1>10, <1>11

(* A view that is told it is current has what the backend had in the snapshot *)
(* (CreateRemoteEvent, RaiseWatchSnapshot), for any targets, documents and    *)
(* bounds, through listens that cross, resets, lost streams and deletes that  *)
(* the backend forgot.                                                        *)
THEOREM CurrentViewsAreTrue == Spec => CurrentIsTrue
<1>1. CurrentIInv =>
          [RaiseWatchSnapshot =>
               \A t \in Included \ (astray \cup denied) :
                   current'[t] => keys'[t] = Head(messages).holds[t]]_vars
    BY SnapshotIsTrue
<1> QED BY <1>1, ListensAreFollowed, PTL DEF CurrentIsTrue
=============================================================================
