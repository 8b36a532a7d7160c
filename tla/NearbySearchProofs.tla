------------------------- MODULE NearbySearchProofs -------------------------
(* Proofs of the safety properties of NearbySearch, for every set of places  *)
(* and every bound.                                                          *)
EXTENDS NearbySearch, SequenceTheorems, TLAPS

-----------------------------------------------------------------------------
(* What the steps do to the handler's record, field by field.                *)
LEMMA MarkRaceFacts ==
    ASSUME NEW kind \in {"cleared", "copied"}, loop \in LoopType, MarkRace(kind)
    PROVE  /\ loop' \in LoopType
           /\ loop'.pc = loop.pc
           /\ loop'.req = loop.req
           /\ loop'.next = loop.next
           /\ loop'.seen = loop.seen
           /\ loop.pc # "write" => loop'.raced = loop.raced
           /\ loop.pc = "write" => loop'.raced = loop.raced \cup {kind}
BY DEF MarkRace, LoopType

LEMMA BeginFacts ==
    ASSUME TypeOK, BeginCompletion
    PROVE  /\ loop' \in LoopType
           /\ loop'.pc = "read"
           /\ loop'.req = delegateQueue[1]
           /\ loop'.next = 1
           /\ loop'.seen = loop.seen
           /\ loop'.raced = loop.raced
           /\ delegateQueue' \in Seq(Requests)
           /\ Len(delegateQueue) \in Nat
           /\ Len(delegateQueue') = Len(delegateQueue) - 1
           /\ \A i \in 1 .. Len(delegateQueue') : delegateQueue'[i] = delegateQueue[i + 1]
<1>1. delegateQueue # <<>> /\ delegateQueue \in Seq(Requests) /\ loop \in LoopType
    BY DEF TypeOK, BeginCompletion
<1>2. delegateQueue' = Tail(delegateQueue)
    BY DEF BeginCompletion
<1>3. Head(delegateQueue) = delegateQueue[1] /\ Head(delegateQueue) \in Requests
    BY <1>1, HeadTailProperties
<1>4. /\ delegateQueue' \in Seq(Requests)
      /\ Len(delegateQueue) \in Nat
      /\ Len(delegateQueue') = Len(delegateQueue) - 1
      /\ \A i \in 1 .. Len(delegateQueue') : delegateQueue'[i] = delegateQueue[i + 1]
    BY <1>1, <1>2, HeadTailProperties, LenProperties
<1>5. loop' = [loop EXCEPT !.pc = "read", !.req = delegateQueue[1], !.next = 1]
    BY <1>3 DEF BeginCompletion
<1>6. delegateQueue[1] \in 0 .. MaxUpdates /\ 1 \in 1 .. MaxItems + 1
    BY <1>3, SearchAssumption DEF Requests
<1>7. /\ loop' \in LoopType
      /\ loop'.pc = "read"
      /\ loop'.req = delegateQueue[1]
      /\ loop'.next = 1
      /\ loop'.seen = loop.seen
      /\ loop'.raced = loop.raced
    BY <1>1, <1>5, <1>6 DEF LoopType
<1> QED BY <1>4, <1>7

LEMMA ReadFacts ==
    ASSUME TypeOK, ReadList
    PROVE  /\ loop' \in LoopType
           /\ loop'.pc = "write"
           /\ loop'.req = loop.req
           /\ loop'.next = loop.next
           /\ loop'.seen = restaurants
           /\ loop'.raced = loop.raced
BY DEF TypeOK, ReadList, LoopType

LEMMA WriteFacts ==
    ASSUME TypeOK, Bookkeeping, WriteList
    PROVE  /\ loop' \in LoopType
           /\ loop'.pc = "read"
           /\ loop'.req = loop.req
           /\ loop'.next = loop.next + 1
           /\ loop'.seen = <<>>
           /\ loop'.raced = {}
           /\ loop.req \in Requests
           /\ loop.next \in Items
           /\ CurrentRow \in Row
<1>1. loop \in LoopType /\ loop.pc = "write" /\ loop' = NextItem
    BY DEF TypeOK, WriteList
<1>2. loop.req \in 1 .. Len(reported) /\ loop.next <= answer[loop.req].n
    BY <1>1 DEF Bookkeeping
<1>3. loop.req \in Requests
    BY <1>2, SearchAssumption DEF TypeOK, Requests
<1>4. answer[loop.req].n \in 0 .. MaxItems /\ loop.next \in 1 .. MaxItems + 1
    BY <1>1, <1>3 DEF TypeOK, AnswerType, LoopType
<1>5. loop.next \in Items /\ loop.next + 1 \in 1 .. MaxItems + 1
    BY <1>2, <1>4, SearchAssumption DEF Items
<1>6. <<>> \in Seq(Row)
    OBVIOUS
<1>7. /\ loop' \in LoopType
      /\ loop'.pc = "read"
      /\ loop'.req = loop.req
      /\ loop'.next = loop.next + 1
      /\ loop'.seen = <<>>
      /\ loop'.raced = {}
    BY <1>1, <1>5, <1>6 DEF NextItem, LoopType
<1> QED BY <1>3, <1>5, <1>7 DEF CurrentRow, Row

LEMMA EndFacts ==
    ASSUME TypeOK, EndCompletion
    PROVE  /\ loop' \in LoopType
           /\ loop'.pc = "idle"
           /\ loop'.req = loop.req
           /\ loop'.next = loop.next
           /\ loop'.seen = loop.seen
           /\ loop'.raced = loop.raced
BY DEF TypeOK, EndCompletion, LoopType

LEMMA ReportFacts ==
    ASSUME NEW l \in Locations, TypeOK, DidUpdateLocations(l)
    PROVE  /\ reported' \in Seq(Locations)
           /\ Len(reported) \in Nat
           /\ Len(reported') = Len(reported) + 1
           /\ Len(reported') <= MaxUpdates
           /\ waiting' = waiting \cup {Len(reported')}
           /\ Len(reported') \in Requests
           /\ restaurants' = <<>>
           /\ MarkRace("cleared")
<1>1. /\ reported \in Seq(Locations)
      /\ reported' = Append(reported, l)
      /\ Len(reported) < MaxUpdates
      /\ waiting' = waiting \cup {Len(reported) + 1}
      /\ restaurants' = <<>>
      /\ MarkRace("cleared")
    BY DEF TypeOK, DidUpdateLocations, FetchData
<1>2. /\ reported' \in Seq(Locations)
      /\ Len(reported') = Len(reported) + 1
      /\ Len(reported) \in Nat
    BY <1>1, AppendProperties, LenProperties
<1> QED BY <1>1, <1>2, SearchAssumption DEF Requests

LEMMA AnswerFacts ==
    ASSUME NEW r \in waiting, NEW a \in AnswerType, TypeOK, Answer(r, a)
    PROVE  /\ r \in Requests
           /\ delegateQueue' \in Seq(Requests)
           /\ Len(delegateQueue) \in Nat
           /\ Len(delegateQueue') = Len(delegateQueue) + 1
           /\ \A i \in 1 .. Len(delegateQueue) : delegateQueue'[i] = delegateQueue[i]
           /\ delegateQueue'[Len(delegateQueue) + 1] = r
           /\ answer' \in [Requests -> AnswerType]
           /\ \A q \in Requests : q # r => answer'[q] = answer[q]
           /\ answer'[r] = a
<1>1. r \in Requests /\ delegateQueue \in Seq(Requests)
    BY DEF TypeOK
<1>2. delegateQueue' = Append(delegateQueue, r) /\ answer' = [answer EXCEPT ![r] = a]
    BY DEF Answer
<1> QED BY <1>1, <1>2, AppendProperties, LenProperties DEF TypeOK

-----------------------------------------------------------------------------
(* Types and bookkeeping.                                                    *)
LEMMA TypeStep == TypeOK /\ Bookkeeping /\ [Next]_vars => TypeOK'
<1> SUFFICES ASSUME TypeOK, Bookkeeping, [Next]_vars PROVE TypeOK'
    OBVIOUS
<1>1. ASSUME NEW status \in AuthorizationStatus, DidChangeAuthorization(status)
      PROVE TypeOK'
    BY <1>1 DEF TypeOK, DidChangeAuthorization
<1>2. ASSUME NEW l \in Locations, DidUpdateLocations(l) PROVE TypeOK'
    <2>1. loop' \in LoopType
        BY <1>2, ReportFacts, MarkRaceFacts DEF TypeOK
    <2>2. /\ reported' \in Seq(Locations) /\ Len(reported') <= MaxUpdates
          /\ waiting' = waiting \cup {Len(reported')}
          /\ Len(reported') \in Requests
          /\ restaurants' = <<>>
        BY <1>2, ReportFacts
    <2>3. waiting' \subseteq Requests /\ restaurants' \in Seq(Row)
        BY <2>2 DEF TypeOK
    <2> QED BY <1>2, <2>1, <2>2, <2>3 DEF TypeOK, DidUpdateLocations
<1>3. ASSUME ShowButton PROVE TypeOK'
    BY <1>3 DEF TypeOK, ShowButton
<1>4. ASSUME Prepare PROVE TypeOK'
    <2>1. loop' \in LoopType
        BY <1>4, MarkRaceFacts DEF Prepare, TypeOK
    <2> QED BY <1>4, <2>1 DEF Prepare, TypeOK
<1>5. ASSUME NEW row \in 1 .. Len(shown), CellForRowWithoutImage(row) PROVE TypeOK'
    BY <1>5 DEF TypeOK, CellForRowWithoutImage
<1>6. ASSUME NEW r \in waiting, NEW a \in AnswerType, Answer(r, a) PROVE TypeOK'
    <2>1. waiting' \subseteq Requests
        BY <1>6 DEF Answer, TypeOK
    <2> QED BY <1>6, <2>1, AnswerFacts DEF Answer, TypeOK
<1>7. ASSUME BeginCompletion PROVE TypeOK'
    BY <1>7, BeginFacts DEF TypeOK, BeginCompletion
<1>8. ASSUME ReadList PROVE TypeOK'
    BY <1>8, ReadFacts DEF TypeOK, ReadList
<1>9. ASSUME WriteList PROVE TypeOK'
    <2>1. CurrentRow \in Row /\ loop.seen \in Seq(Row) /\ loop' \in LoopType
        BY <1>9, WriteFacts DEF TypeOK, LoopType
    <2>2. /\ restaurants' \in {restaurants, Append(restaurants, CurrentRow),
                                Append(loop.seen, CurrentRow)}
          /\ shown' \in {shown, Append(shown, CurrentRow)}
        BY <1>9 DEF WriteList, AppendOutcomes, CopyOutcomes
    <2>3. \A list \in Seq(Row) : Append(list, CurrentRow) \in Seq(Row)
        BY <2>1, AppendProperties
    <2>4. restaurants' \in Seq(Row) /\ shown' \in Seq(Row)
        BY <2>1, <2>2, <2>3 DEF TypeOK
    <2> QED BY <1>9, <2>1, <2>4 DEF TypeOK, WriteList
<1>10. ASSUME WriteReleasedList PROVE TypeOK'
    BY <1>10 DEF TypeOK, WriteReleasedList
<1>11. ASSUME EndCompletion PROVE TypeOK'
    BY <1>11, EndFacts DEF TypeOK, EndCompletion
<1>12. CASE UNCHANGED vars
    BY <1>12 DEF TypeOK, vars
<1> QED BY <1>1, <1>2, <1>3, <1>4, <1>5, <1>6, <1>7, <1>8, <1>9, <1>10, <1>11, <1>12 DEF Next

LEMMA BookkeepingStep == TypeOK /\ Bookkeeping /\ [Next]_vars => Bookkeeping'
<1> SUFFICES ASSUME TypeOK, Bookkeeping, [Next]_vars PROVE Bookkeeping'
    OBVIOUS
<1>1. ASSUME NEW status \in AuthorizationStatus, DidChangeAuthorization(status)
      PROVE Bookkeeping'
    BY <1>1 DEF Bookkeeping, DidChangeAuthorization
<1>2. ASSUME NEW l \in Locations, DidUpdateLocations(l) PROVE Bookkeeping'
    <2>1. /\ loop'.pc = loop.pc /\ loop'.req = loop.req /\ loop'.next = loop.next
          /\ answer' = answer /\ delegateQueue' = delegateQueue
        BY <1>2, ReportFacts, MarkRaceFacts DEF TypeOK, DidUpdateLocations
    <2>2. /\ Len(reported) \in Nat
          /\ Len(reported') = Len(reported) + 1
          /\ waiting' = waiting \cup {Len(reported')}
        BY <1>2, ReportFacts
    <2>3. /\ \A q \in 1 .. Len(reported) : q \in 1 .. Len(reported') /\ q # Len(reported')
          /\ Len(reported') \in 1 .. Len(reported')
        BY <2>2
    <2>4. waiting' \subseteq 1 .. Len(reported')
        BY <2>2, <2>3 DEF Bookkeeping
    <2>5. \A i \in 1 .. Len(delegateQueue') :
              /\ delegateQueue'[i] \in 1 .. Len(reported')
              /\ delegateQueue'[i] \notin waiting'
        BY <2>1, <2>2, <2>3 DEF Bookkeeping
    <2>6. loop'.pc # "idle" => loop'.req \in 1 .. Len(reported') /\ loop'.req \notin waiting'
        BY <2>1, <2>2, <2>3 DEF Bookkeeping
    <2> QED BY <2>1, <2>4, <2>5, <2>6 DEF Bookkeeping
<1>3. ASSUME ShowButton PROVE Bookkeeping'
    BY <1>3 DEF Bookkeeping, ShowButton
<1>4. ASSUME Prepare PROVE Bookkeeping'
    <2>1. loop'.pc = loop.pc /\ loop'.req = loop.req /\ loop'.next = loop.next
        BY <1>4, MarkRaceFacts DEF Prepare, TypeOK
    <2> QED BY <1>4, <2>1 DEF Bookkeeping, Prepare
<1>5. ASSUME NEW row \in 1 .. Len(shown), CellForRowWithoutImage(row) PROVE Bookkeeping'
    BY <1>5 DEF Bookkeeping, CellForRowWithoutImage
<1>6. ASSUME NEW r \in waiting, NEW a \in AnswerType, Answer(r, a) PROVE Bookkeeping'
    <2>1. /\ waiting' = waiting \ {r}
          /\ reported' = reported /\ loop' = loop
        BY <1>6 DEF Answer
    <2>2. \A i \in 1 .. Len(delegateQueue') :
              \/ i \in 1 .. Len(delegateQueue) /\ delegateQueue'[i] = delegateQueue[i]
              \/ i = Len(delegateQueue) + 1 /\ delegateQueue'[i] = r
        BY <1>6, AnswerFacts
    <2>3. r \in 1 .. Len(reported)
        BY DEF Bookkeeping
    <2>6. \A i, j \in 1 .. Len(delegateQueue') :
              delegateQueue'[i] = delegateQueue'[j] => i = j
        BY <2>2 DEF Bookkeeping
    <2>7. \A i \in 1 .. Len(delegateQueue') :
              /\ delegateQueue'[i] \in 1 .. Len(reported)
              /\ delegateQueue'[i] \notin waiting'
        BY <2>1, <2>2, <2>3 DEF Bookkeeping
    <2>8. loop.pc # "idle" => \A i \in 1 .. Len(delegateQueue') : delegateQueue'[i] # loop.req
        BY <2>2 DEF Bookkeeping
    <2>4. Len(reported) \in Nat /\ 1 .. Len(reported) \subseteq Requests
        BY SearchAssumption DEF TypeOK, Requests
    <2>5. loop.pc # "idle" => answer'[loop.req] = answer[loop.req]
        BY <1>6, <2>4, AnswerFacts DEF Bookkeeping
    <2> QED BY <2>1, <2>5, <2>6, <2>7, <2>8 DEF Bookkeeping
<1>7. ASSUME BeginCompletion PROVE Bookkeeping'
    <2>1. /\ reported' = reported /\ waiting' = waiting /\ answer' = answer
          /\ Len(delegateQueue) >= 1
        <3>1. delegateQueue # <<>> /\ reported' = reported /\ waiting' = waiting /\ answer' = answer
            BY <1>7 DEF BeginCompletion
        <3>2. Len(delegateQueue) \in Nat /\ Len(delegateQueue) # 0
            BY <3>1, LenProperties, EmptySeq DEF TypeOK
        <3> QED BY <3>1, <3>2
    <2>2. /\ loop'.req \in 1 .. Len(reported)
          /\ loop'.req \notin waiting
          /\ \A i \in 1 .. Len(delegateQueue') : delegateQueue'[i] # loop'.req
        <3>1. /\ loop'.req = delegateQueue[1] /\ 1 \in 1 .. Len(delegateQueue)
              /\ \A i \in 1 .. Len(delegateQueue') :
                     /\ i + 1 \in 1 .. Len(delegateQueue) /\ i + 1 # 1
                     /\ delegateQueue'[i] = delegateQueue[i + 1]
            BY <1>7, <2>1, BeginFacts
        <3>2. delegateQueue[1] \in 1 .. Len(reported) /\ delegateQueue[1] \notin waiting
            BY <3>1 DEF Bookkeeping
        <3>3. \A k \in 1 .. Len(delegateQueue) : k # 1 => delegateQueue[k] # delegateQueue[1]
            BY <3>1 DEF Bookkeeping
        <3> QED BY <3>1, <3>2, <3>3
    <2>3. loop'.next <= answer[loop'.req].n + 1
        <3>1. loop'.req \in Requests
            BY <2>2, SearchAssumption DEF TypeOK, Requests
        <3>2. answer[loop'.req].n \in Nat
            BY <3>1, SearchAssumption DEF TypeOK, AnswerType
        <3> QED BY <1>7, <3>2, BeginFacts
    <2>4. \A i \in 1 .. Len(delegateQueue') :
              i + 1 \in 1 .. Len(delegateQueue) /\ delegateQueue'[i] = delegateQueue[i + 1]
        BY <1>7, BeginFacts
    <2>5. \A i \in 1 .. Len(delegateQueue') :
              /\ delegateQueue'[i] \in 1 .. Len(reported')
              /\ delegateQueue'[i] \notin waiting'
        BY <2>1, <2>4 DEF Bookkeeping
    <2>6. \A i, j \in 1 .. Len(delegateQueue') :
              delegateQueue'[i] = delegateQueue'[j] => i = j
        BY <2>4 DEF Bookkeeping
    <2>7. loop'.pc = "read"
        BY <1>7, BeginFacts
    <2> QED BY <2>1, <2>2, <2>3, <2>5, <2>6, <2>7 DEF Bookkeeping
<1>8. ASSUME ReadList PROVE Bookkeeping'
    BY <1>8, ReadFacts DEF Bookkeeping, ReadList
<1>9. ASSUME WriteList PROVE Bookkeeping'
    <2>1. loop.next + 1 <= answer[loop.req].n + 1
        <3>1. loop.req \in Requests /\ loop.next \in Items
            BY <1>9, WriteFacts
        <3>2. answer[loop.req].n \in Int /\ loop.next \in Int
            BY <3>1, SearchAssumption DEF TypeOK, AnswerType, Items
        <3> QED BY <1>9, <3>2 DEF WriteList, Bookkeeping
    <2> QED BY <1>9, <2>1, WriteFacts DEF Bookkeeping, WriteList
<1>10. ASSUME WriteReleasedList PROVE Bookkeeping'
    BY <1>10 DEF Bookkeeping, WriteReleasedList
<1>11. ASSUME EndCompletion PROVE Bookkeeping'
    BY <1>11, EndFacts DEF Bookkeeping, EndCompletion
<1>12. CASE UNCHANGED vars
    BY <1>12 DEF Bookkeeping, vars
<1> QED BY <1>1, <1>2, <1>3, <1>4, <1>5, <1>6, <1>7, <1>8, <1>9, <1>10, <1>11, <1>12 DEF Next

LEMMA TypeInit == Init => TypeOK /\ Bookkeeping
<1> SUFFICES ASSUME Init PROVE TypeOK /\ Bookkeeping
    OBVIOUS
<1>1. loop \in LoopType /\ loop.pc = "idle"
    BY SearchAssumption DEF Init, LoopType
<1>2. answer \in [Requests -> AnswerType]
    BY SearchAssumption DEF Init, AnswerType, NoAnswer
<1>3. /\ reported \in Seq(Locations) /\ Len(reported) = 0
      /\ delegateQueue \in Seq(Requests) /\ Len(delegateQueue) = 0
      /\ restaurants \in Seq(Row) /\ shown \in Seq(Row)
    BY EmptySeq DEF Init
<1>4. monitoring \in BOOLEAN /\ waiting \subseteq Requests
    BY DEF Init
<1>5. screen \in {"location", "segue", "restaurants"} /\ app \in {"running", "crashed"}
    BY DEF Init
<1>6. TypeOK
    BY <1>1, <1>2, <1>3, <1>4, <1>5, SearchAssumption DEF TypeOK
<1>7. Bookkeeping
    BY <1>1, <1>3 DEF Init, Bookkeeping
<1> QED BY <1>6, <1>7

(* Every execution is well typed, and every request is in one place.         *)
THEOREM TypeCorrect == Spec => [](TypeOK /\ Bookkeeping)
BY TypeInit, TypeStep, BookkeepingStep, PTL DEF Spec

-----------------------------------------------------------------------------
(* What was fetched stays fetched: a started request never goes back, and    *)
(* its answer never changes.                                                 *)
StartedStays == \A r \in Requests : Started(r) => Started(r)' /\ answer'[r] = answer[r]

LEMMA StartedIsStable == TypeOK /\ Bookkeeping /\ [Next]_vars => StartedStays
<1> SUFFICES ASSUME TypeOK, Bookkeeping, [Next]_vars,
                    NEW r \in Requests, Started(r)
             PROVE  Started(r)' /\ answer'[r] = answer[r]
    BY DEF StartedStays
<1> USE DEF Started, IsQueued
<1>1. CASE \E l \in Locations : DidUpdateLocations(l)
    <2>1. PICK l \in Locations : DidUpdateLocations(l)
        BY <1>1
    <2>2. /\ Len(reported) \in Nat
          /\ Len(reported') = Len(reported) + 1
          /\ waiting' = waiting \cup {Len(reported')}
        BY <2>1, ReportFacts
    <2>3. delegateQueue' = delegateQueue /\ answer' = answer
        BY <2>1 DEF DidUpdateLocations
    <2>4. r \in 1 .. Len(reported') /\ r \notin waiting'
        BY <2>2
    <2> QED BY <2>3, <2>4
<1>2. CASE \E q \in waiting, a \in AnswerType : Answer(q, a)
    <2>1. PICK q \in waiting, a \in AnswerType : Answer(q, a)
        BY <1>2
    <2>2. waiting' = waiting \ {q} /\ reported' = reported /\ q # r
        BY <2>1 DEF Answer
    <2>3. answer'[r] = answer[r]
        BY <2>1, <2>2, AnswerFacts
    <2>4. \A i \in 1 .. Len(delegateQueue') :
              \/ i \in 1 .. Len(delegateQueue) /\ delegateQueue'[i] = delegateQueue[i]
              \/ delegateQueue'[i] = q
        BY <2>1, AnswerFacts
    <2> QED BY <2>2, <2>3, <2>4
<1>3. CASE BeginCompletion
    <2>1. reported' = reported /\ waiting' = waiting /\ answer' = answer
        BY <1>3 DEF BeginCompletion
    <2>2. \A i \in 1 .. Len(delegateQueue') :
              i + 1 \in 1 .. Len(delegateQueue) /\ delegateQueue'[i] = delegateQueue[i + 1]
        BY <1>3, BeginFacts
    <2> QED BY <2>1, <2>2
<1>4. CASE UNCHANGED <<reported, waiting, answer, delegateQueue>>
    BY <1>4
<1> QED BY <1>1, <1>2, <1>3, <1>4 DEF Next, vars, DidChangeAuthorization, ShowButton,
        Prepare, CellForRowWithoutImage, ReadList, WriteList, WriteReleasedList, EndCompletion

(* A row of a list that only holds past rows.                                *)
LEMMA PastRow ==
    ASSUME TypeOK, NEW list \in Seq(Row), Past(list), NEW i \in 1 .. Len(list)
    PROVE  /\ list[i] \in Row
           /\ list[i].req \in Requests
           /\ Started(list[i].req)
<1>1. list[i] \in Row
    BY ElementOfSeq
<1>2. list[i].req \in Requests
    BY <1>1 DEF Row
<1> QED BY <1>1, <1>2 DEF Past

(* Appending the row a list can be extended by leaves no hole.               *)
LEMMA AppendNoHoles ==
    ASSUME NEW list \in Seq(Row), NoHolesIn(list),
           NEW row \in Row,
           Len(list) > 0 => Follows(list[Len(list)], row)
    PROVE  NoHolesIn(Append(list, row))
<1> DEFINE longer == Append(list, row)
<1>1. /\ Len(list) \in Nat
      /\ Len(longer) = Len(list) + 1
      /\ \A i \in 1 .. Len(list) : longer[i] = list[i]
      /\ longer[Len(list) + 1] = row
    BY AppendProperties, LenProperties
<1>2. ASSUME NEW i \in 1 .. Len(longer) - 1 PROVE Follows(longer[i], longer[i + 1])
    <2>1. CASE i = Len(list)
        BY <1>1, <2>1
    <2>2. CASE i # Len(list)
        <3>1. i \in 1 .. Len(list) - 1 /\ i \in 1 .. Len(list) /\ i + 1 \in 1 .. Len(list)
            BY <1>1, <2>2
        <3>2. longer[i] = list[i] /\ longer[i + 1] = list[i + 1]
            BY <1>1, <3>1
        <3> QED BY <3>1, <3>2 DEF NoHolesIn
    <2> QED BY <2>1, <2>2
<1> QED BY <1>2 DEF NoHolesIn

(* Whatever a step does to the variables, a list of past rows without holes  *)
(* is one after the step.                                                    *)
PastStays == \A list \in Seq(Row) : Past(list) => Past(list)'
NoHolesStays == \A list \in Seq(Row) : Past(list) /\ NoHolesIn(list) => NoHolesIn(list)'

LEMMA ListsAreStable ==
    TypeOK /\ Bookkeeping /\ [Next]_vars => PastStays /\ NoHolesStays
<1> SUFFICES ASSUME TypeOK, Bookkeeping, [Next]_vars, NEW list \in Seq(Row), Past(list)
             PROVE  Past(list)' /\ (NoHolesIn(list) => NoHolesIn(list)')
    BY DEF PastStays, NoHolesStays
<1>1. StartedStays
    BY StartedIsStable
<1>2. \A i \in 1 .. Len(list) :
          /\ list[i] \in Row
          /\ list[i].req \in Requests
          /\ Started(list[i].req)
          /\ Started(list[i].req)'
          /\ answer'[list[i].req] = answer[list[i].req]
    BY <1>1, PastRow DEF StartedStays
<1>3. NoHolesIn(list) => NoHolesIn(list)'
    <2> SUFFICES ASSUME NoHolesIn(list), NEW i \in 1 .. Len(list) - 1
                 PROVE  Follows(list[i], list[i + 1])'
        BY DEF NoHolesIn
    <2>1. i \in 1 .. Len(list) /\ Follows(list[i], list[i + 1])
        BY LenProperties DEF NoHolesIn
    <2> QED BY <1>2, <2>1 DEF Follows
<1>4. Past(list)'
    <2> SUFFICES ASSUME NEW i \in 1 .. Len(list), IsRunning(list[i].req)'
                 PROVE  list[i].idx < loop'.next
        BY <1>2 DEF Past
    <2>1. list[i].idx \in Int
        BY <1>2 DEF Row, Items
    <2>2. ASSUME loop'.pc = loop.pc \/ loop.pc # "idle",
                 loop'.req = loop.req,
                 loop'.next = loop.next \/ loop'.next = loop.next + 1,
                 loop.next \in Int
          PROVE  list[i].idx < loop'.next
        <3>1. IsRunning(list[i].req)
            BY <2>2 DEF IsRunning
        <3>2. list[i].idx < loop.next
            BY <3>1 DEF Past
        <3> QED BY <2>1, <2>2, <3>2
    <2>3. loop.next \in Int
        BY SearchAssumption DEF TypeOK, LoopType
    <2>4. CASE BeginCompletion
        <3>1. list[i].req = delegateQueue[1] /\ 1 \in 1 .. Len(delegateQueue)
            BY <2>4, BeginFacts, EmptySeq DEF IsRunning, BeginCompletion, TypeOK
        <3> QED BY <1>2, <3>1 DEF Started, IsQueued
    <2>5. CASE WriteList
        BY <2>2, <2>3, <2>5, WriteFacts DEF WriteList
    <2>6. CASE (\E l \in Locations : DidUpdateLocations(l)) \/ Prepare
        <3>1. MarkRace("cleared") \/ MarkRace("copied")
            BY <2>6 DEF DidUpdateLocations, FetchData, Prepare
        <3>2. loop'.pc = loop.pc /\ loop'.req = loop.req /\ loop'.next = loop.next
            BY <3>1, MarkRaceFacts DEF TypeOK
        <3> QED BY <2>2, <2>3, <3>2
    <2>7. CASE ReadList
        BY <2>2, <2>3, <2>7, ReadFacts DEF ReadList
    <2>8. CASE EndCompletion
        BY <2>8, EndFacts DEF IsRunning
    <2>9. CASE UNCHANGED loop
        BY <2>2, <2>3, <2>9
    <2> QED BY <2>4, <2>5, <2>6, <2>7, <2>8, <2>9 DEF Next, vars, DidChangeAuthorization,
            ShowButton, CellForRowWithoutImage, Answer, WriteReleasedList
<1> QED BY <1>3, <1>4

(* A step that leaves the handler where it is leaves extensible what was.    *)
LEMMA ExtensibleIsStable ==
    ASSUME TypeOK, Bookkeeping, [Next]_vars,
           loop'.pc = loop.pc, loop'.req = loop.req, loop'.next = loop.next
    PROVE  \A list \in Seq(Row) : Past(list) /\ Extensible(list) => Extensible(list)'
<1> SUFFICES ASSUME NEW list \in Seq(Row), Past(list), Extensible(list), Len(list) > 0
             PROVE  Extensible(list)'
    BY DEF Extensible
<1>1. StartedStays
    BY StartedIsStable
<1>2. Len(list) \in 1 .. Len(list)
    BY LenProperties
<1>3. answer'[list[Len(list)].req] = answer[list[Len(list)].req]
    BY <1>1, <1>2, PastRow DEF StartedStays
<1> QED BY <1>3 DEF Extensible, Follows, CurrentRow

-----------------------------------------------------------------------------
(* The lists of past rows keep their shape.                                  *)
LEMMA ListsStep == TypeOK /\ Bookkeeping /\ Lists /\ [Next]_vars => Lists'
<1> SUFFICES ASSUME TypeOK, Bookkeeping, Lists, [Next]_vars PROVE Lists'
    OBVIOUS
<1>1. PastStays /\ NoHolesStays
    BY ListsAreStable
<1>2. restaurants \in Seq(Row) /\ shown \in Seq(Row) /\ loop \in LoopType
      /\ loop.seen \in Seq(Row)
    BY DEF TypeOK, LoopType
<1>3. CASE UNCHANGED <<restaurants, shown, loop>>
    <2>1. /\ Past(restaurants)' /\ Past(shown)' /\ NoHoles'
          /\ loop.pc = "write" => Past(loop.seen)' /\ NoHolesIn(loop.seen)'
        BY <1>1, <1>2, <1>3 DEF Lists, NoHoles, PastStays, NoHolesStays, Past, NoHolesIn
    <2>2. /\ Extensible(restaurants)'
          /\ loop.pc = "write" => Extensible(loop.seen)'
          /\ loop.pc = "write" /\ "copied" \in loop.raced => Extensible(shown)'
        BY <1>2, <1>3, ExtensibleIsStable DEF Lists, Extensible, Follows, CurrentRow
    <2> QED BY <1>3, <2>1, <2>2 DEF Lists
<1>4. CASE (\E l \in Locations : DidUpdateLocations(l)) \/ Prepare
    <2>1. \/ MarkRace("cleared") /\ restaurants' = <<>> /\ shown' = shown
          \/ MarkRace("copied") /\ restaurants' = restaurants /\ shown' = restaurants
        BY <1>4 DEF DidUpdateLocations, FetchData, Prepare
    <2>2. /\ loop'.pc = loop.pc /\ loop'.req = loop.req /\ loop'.next = loop.next
          /\ loop'.seen = loop.seen
          /\ loop.pc # "write" => loop'.raced = loop.raced
          /\ MarkRace("cleared") /\ loop.pc = "write" => loop'.raced = loop.raced \cup {"cleared"}
          /\ MarkRace("copied") /\ loop.pc = "write" => loop'.raced = loop.raced \cup {"copied"}
        BY <1>2, <2>1, MarkRaceFacts
    <2>3. restaurants' \in {<<>>, restaurants} /\ shown' \in {shown, restaurants}
        BY <2>1
    <2>4. Past(restaurants)' /\ Past(shown)' /\ NoHoles'
        BY <1>1, <1>2, <2>3 DEF Lists, NoHoles, PastStays, NoHolesStays, Past, NoHolesIn
    <2>5. loop.pc = "write" => Past(loop.seen)' /\ NoHolesIn(loop.seen)'
        BY <1>1, <1>2, <2>2 DEF Lists, PastStays, NoHolesStays, Past, NoHolesIn
    <2>6. \A list \in Seq(Row) : Past(list) /\ Extensible(list) => Extensible(list)'
        BY <2>2, ExtensibleIsStable
    <2>7. /\ Extensible(restaurants)'
          /\ loop.pc = "write" => Extensible(loop.seen)'
        <3>1. ASSUME restaurants' = restaurants PROVE Extensible(restaurants)'
            <4>1. Past(restaurants) /\ Extensible(restaurants)
                BY DEF Lists
            <4>2. PICK r \in Seq(Row) : r = restaurants /\ r = restaurants'
                BY <1>2, <3>1
            <4>3. Extensible(r)'
                BY <2>6, <4>1, <4>2
            <4> QED BY <4>2, <4>3 DEF Extensible
        <3>2. ASSUME restaurants' = <<>> PROVE Extensible(restaurants)'
            <4>1. Len(restaurants') = 0
                BY <3>2, EmptySeq
            <4> QED BY <4>1 DEF Extensible
        <3>3. ASSUME loop.pc = "write" PROVE Extensible(loop.seen)'
            <4>1. Past(loop.seen) /\ Extensible(loop.seen)
                BY <3>3 DEF Lists
            <4> QED BY <1>2, <2>2, <2>6, <4>1 DEF Extensible, Follows, CurrentRow
        <3> QED BY <2>3, <3>1, <3>2, <3>3
    <2>8. loop.pc = "write" /\ "copied" \in loop'.raced => Extensible(shown)'
        <3>1. CASE MarkRace("cleared") /\ shown' = shown
            BY <1>2, <2>2, <2>6, <3>1 DEF Lists, Extensible, Follows, CurrentRow
        <3>2. CASE MarkRace("copied") /\ shown' = restaurants
            BY <1>2, <2>2, <2>6, <3>2 DEF Lists, Extensible, Follows, CurrentRow
        <3> QED BY <2>1, <3>1, <3>2
    <2>9. loop.pc = "write" /\ "cleared" \in loop'.raced => restaurants' = <<>>
        BY <2>1, <2>2 DEF Lists
    <2> QED BY <2>2, <2>4, <2>5, <2>7, <2>8, <2>9 DEF Lists
<1>5. CASE BeginCompletion
    <2>1. restaurants' = restaurants /\ shown' = shown /\ answer' = answer /\ loop.pc = "idle"
        BY <1>5 DEF BeginCompletion
    <2>2. /\ loop'.pc = "read" /\ loop'.req = delegateQueue[1] /\ loop'.next = 1
          /\ loop'.raced = loop.raced
          /\ 1 \in 1 .. Len(delegateQueue)
        BY <1>5, BeginFacts, EmptySeq DEF BeginCompletion, TypeOK
    <2>3. Past(restaurants)' /\ Past(shown)' /\ NoHoles'
        BY <1>1, <1>2, <2>1 DEF Lists, NoHoles, PastStays, NoHolesStays, Past, NoHolesIn
    <2>4. Extensible(restaurants)'
        <3> SUFFICES ASSUME Len(restaurants) > 0
                     PROVE  Follows(restaurants[Len(restaurants)], CurrentRow)'
            BY <2>1, <2>2 DEF Extensible
        <3>1. Len(restaurants) \in 1 .. Len(restaurants)
            BY <1>2, LenProperties
        <3>2. restaurants[Len(restaurants)].req # delegateQueue[1]
            BY <2>2, <3>1 DEF Lists, Past, Started, IsQueued
        <3>3. restaurants[Len(restaurants)].idx = answer[restaurants[Len(restaurants)].req].n
            BY <2>1 DEF Lists, Extensible
        <3> QED BY <2>1, <2>2, <3>2, <3>3 DEF Follows, CurrentRow
    <2> QED BY <2>1, <2>2, <2>3, <2>4 DEF Lists
<1>6. CASE ReadList
    <2>1. restaurants' = restaurants /\ shown' = shown /\ answer' = answer /\ loop.pc = "read"
        BY <1>6 DEF ReadList
    <2>2. /\ loop'.pc = "write" /\ loop'.req = loop.req /\ loop'.next = loop.next
          /\ loop'.seen = restaurants /\ loop'.raced = {}
        BY <1>6, <2>1, ReadFacts DEF Lists
    <2>3. Past(restaurants)' /\ Past(shown)' /\ NoHoles'
        BY <1>1, <1>2, <2>1 DEF Lists, NoHoles, PastStays, NoHolesStays, Past, NoHolesIn
    <2>4. Extensible(restaurants)'
        BY <2>1, <2>2 DEF Lists, Extensible, Follows, CurrentRow
    <2>5. Past(loop.seen)' /\ NoHolesIn(loop.seen)' /\ Extensible(loop.seen)'
        BY <2>1, <2>2, <2>3, <2>4 DEF NoHoles, Past, NoHolesIn, Extensible
    <2> QED BY <2>1, <2>2, <2>3, <2>4, <2>5 DEF Lists
<1>7. CASE WriteList
    <2>1. /\ loop.pc = "write" /\ answer' = answer
          /\ loop'.pc = "read" /\ loop'.req = loop.req /\ loop'.next = loop.next + 1
          /\ loop'.raced = {}
          /\ CurrentRow \in Row
        BY <1>7, WriteFacts DEF WriteList
    <2>2. /\ \/ restaurants' = Append(restaurants, CurrentRow)
             \/ restaurants' = <<>>
             \/ restaurants' = Append(loop.seen, CurrentRow)
          /\ \/ shown' = shown
             \/ shown' = Append(shown, CurrentRow) /\ Extensible(shown)
        BY <1>7, <2>1 DEF WriteList, AppendOutcomes, CopyOutcomes, Lists
    <2>3. Started(loop.req)' /\ ~(loop.next + 1 <= loop.next) /\ loop.next \in Nat
        <3>1. Started(loop.req) /\ loop.req \in Requests
            BY <2>1, WriteFacts, <1>7 DEF Bookkeeping, Started, IsQueued
        <3>2. StartedStays
            BY StartedIsStable
        <3>3. loop.next \in Nat
            BY WriteFacts, <1>7 DEF Items
        <3> QED BY <2>1, <3>1, <3>2, <3>3 DEF StartedStays, Started, IsQueued
    <2>4. ASSUME NEW list \in Seq(Row), Past(list), NoHolesIn(list), Extensible(list),
                 NEW longer, longer = Append(list, CurrentRow)
          PROVE  Past(longer)' /\ NoHolesIn(longer)' /\ Extensible(longer)'
        <3>1. /\ Len(list) \in Nat
              /\ Len(longer) = Len(list) + 1
              /\ \A i \in 1 .. Len(list) : longer[i] = list[i]
              /\ longer[Len(list) + 1] = CurrentRow
            BY <2>1, <2>4, AppendProperties, LenProperties
        <3>2. Past(list)'
            BY <1>1, <2>4 DEF PastStays
        <3>3. CurrentRow.req = loop.req /\ CurrentRow.idx = loop.next
            BY DEF CurrentRow
        <3>4. ASSUME NEW i \in 1 .. Len(longer)
              PROVE  /\ Started(longer[i].req)'
                     /\ IsRunning(longer[i].req)' => longer[i].idx < loop'.next
            <4>1. CASE i = Len(list) + 1
                BY <2>1, <2>3, <3>1, <3>3, <4>1 DEF Started, IsQueued
            <4>2. CASE i # Len(list) + 1
                <5>1. i \in 1 .. Len(list) /\ longer[i] = list[i]
                    BY <3>1, <4>2
                <5> QED BY <3>2, <5>1 DEF Past
            <4> QED BY <4>1, <4>2
        <3>5. Past(longer)'
            BY <3>4 DEF Past
        <3>6. NoHolesIn(longer)
            BY <2>1, <2>4, AppendNoHoles DEF Extensible
        <3>7. NoHolesIn(longer)'
            BY <2>1, <3>6 DEF NoHolesIn, Follows
        <3>8. Extensible(longer)'
            BY <2>1, <2>3, <3>1, <3>3 DEF Extensible, Follows, CurrentRow
        <3> QED BY <3>5, <3>7, <3>8
    <2>5. Past(<<>>)' /\ NoHolesIn(<<>>)' /\ Extensible(<<>>)'
        BY DEF Past, NoHolesIn, Extensible
    <2>6. Past(restaurants)' /\ NoHolesIn(restaurants)' /\ Extensible(restaurants)'
        BY <1>2, <2>1, <2>2, <2>4, <2>5 DEF Lists, NoHoles, Past, NoHolesIn, Extensible
    <2>7. Past(shown)' /\ NoHolesIn(shown)'
        BY <1>1, <1>2, <2>2, <2>4 DEF Lists, NoHoles, PastStays, NoHolesStays, Past, NoHolesIn
    <2> QED BY <2>1, <2>6, <2>7 DEF Lists, NoHoles
<1>8. CASE EndCompletion
    <2>1. /\ restaurants' = restaurants /\ shown' = shown /\ answer' = answer
          /\ loop.pc = "read" /\ loop.next > answer[loop.req].n
        BY <1>8 DEF EndCompletion
    <2>2. loop'.pc = "idle" /\ loop'.raced = {}
        BY <1>8, <2>1, EndFacts DEF Lists
    <2>3. Past(restaurants)' /\ Past(shown)' /\ NoHoles'
        BY <1>1, <1>2, <2>1 DEF Lists, NoHoles, PastStays, NoHolesStays, Past, NoHolesIn
    <2>4. Extensible(restaurants)'
        <3> SUFFICES ASSUME Len(restaurants) > 0
                     PROVE  restaurants[Len(restaurants)].idx
                                = answer[restaurants[Len(restaurants)].req].n
            BY <2>1, <2>2 DEF Extensible
        <3>1. Follows(restaurants[Len(restaurants)], CurrentRow)
            BY <2>1 DEF Lists, Extensible
        <3>2. loop.req \in Requests /\ loop.next <= answer[loop.req].n + 1
            BY <2>1, SearchAssumption DEF Bookkeeping, TypeOK, Requests
        <3>3. answer[loop.req].n \in Int /\ loop.next \in Int
            BY <1>2, <3>2, SearchAssumption DEF TypeOK, AnswerType, LoopType
        <3>4. loop.next = answer[loop.req].n + 1
            BY <2>1, <3>2, <3>3
        <3>5. Len(restaurants) \in 1 .. Len(restaurants)
            BY <1>2, LenProperties
        <3>6. restaurants[Len(restaurants)] \in Row
            BY <1>2, <3>5, ElementOfSeq
        <3>7. restaurants[Len(restaurants)].idx \in Int
            BY <3>6 DEF Row, Items
        <3> QED BY <3>1, <3>3, <3>4, <3>7 DEF Follows, CurrentRow
    <2> QED BY <2>1, <2>2, <2>3, <2>4 DEF Lists
<1> QED BY <1>3, <1>4, <1>5, <1>6, <1>7, <1>8 DEF Next, vars, DidChangeAuthorization,
        ShowButton, CellForRowWithoutImage, Answer, WriteReleasedList

-----------------------------------------------------------------------------
(* The rows of the latest request are in the list, and stay there.           *)
LEMMA InListAppend ==
    ASSUME NEW list \in Seq(Row), NEW new \in Row
    PROVE  /\ InList(new, Append(list, new))
           /\ \A row : InList(row, list) => InList(row, Append(list, new))
<1>1. /\ Len(list) \in Nat
      /\ Len(Append(list, new)) = Len(list) + 1
      /\ \A i \in 1 .. Len(list) : Append(list, new)[i] = list[i]
      /\ Append(list, new)[Len(list) + 1] = new
    BY AppendProperties, LenProperties
<1>2. Len(list) + 1 \in 1 .. Len(Append(list, new))
    BY <1>1
<1>3. \A i \in 1 .. Len(list) : i \in 1 .. Len(Append(list, new))
    BY <1>1
<1> QED BY <1>1, <1>2, <1>3 DEF InList

LEMMA LatestStep == TypeOK /\ Bookkeeping /\ Lists /\ Latest /\ [Next]_vars => Latest'
<1> SUFFICES ASSUME TypeOK, Bookkeeping, Lists, Latest, [Next]_vars PROVE Latest'
    OBVIOUS
<1> DEFINE latest == Len(reported)
<1>1. loop \in LoopType /\ restaurants \in Seq(Row) /\ latest \in Nat
    BY LenProperties DEF TypeOK
<1>2. ASSUME NEW l \in Locations, DidUpdateLocations(l) PROVE Latest'
    <2>1. Len(reported') \in waiting' /\ Len(reported') = latest + 1
          /\ reported' \in Seq(Locations)
        BY <1>2, ReportFacts
    <2>2. ~Started(Len(reported))'
        BY <2>1 DEF Started
    <2>3. loop'.pc = loop.pc /\ loop'.req = loop.req
        BY <1>1, <1>2, ReportFacts, MarkRaceFacts
    <2>4. ~IsRunning(Len(reported))'
        BY <1>1, <2>1, <2>3 DEF IsRunning, Bookkeeping
    <2> QED BY <2>2, <2>4 DEF Latest, LatestResultsComplete, Handled
<1>3. ASSUME UNCHANGED <<reported, waiting, answer, delegateQueue, restaurants>>,
             loop'.pc = loop.pc, loop'.req = loop.req, loop'.next = loop.next,
             "cleared" \in loop'.raced => "cleared" \in loop.raced
      PROVE  Latest'
    BY <1>3 DEF Latest, LatestResultsComplete, Handled, Started, IsQueued, IsRunning, InList
<1>4. CASE Prepare
    BY <1>1, <1>3, <1>4, MarkRaceFacts DEF Prepare
<1>5. ASSUME NEW r \in waiting, NEW a \in AnswerType, Answer(r, a) PROVE Latest'
    <2>1. waiting' = waiting \ {r} /\ UNCHANGED <<reported, loop, restaurants>>
        BY <1>5 DEF Answer
    <2>2. Len(delegateQueue) + 1 \in 1 .. Len(delegateQueue')
          /\ delegateQueue'[Len(delegateQueue) + 1] = r
          /\ \A i \in 1 .. Len(delegateQueue) :
                 i \in 1 .. Len(delegateQueue') /\ delegateQueue'[i] = delegateQueue[i]
        BY <1>5, AnswerFacts
    <2>3. Started(latest)' => Started(latest) /\ r # latest
        BY <2>1, <2>2 DEF Started, IsQueued
    <2>4. Started(latest)' => answer'[latest] = answer[latest]
        BY <2>3, StartedIsStable, SearchAssumption DEF StartedStays, Started, TypeOK, Requests
    <2> QED BY <2>1, <2>3, <2>4 DEF Latest, LatestResultsComplete, Handled, IsRunning, InList
<1>6. CASE BeginCompletion
    <2>1. UNCHANGED <<reported, waiting, answer, restaurants>> /\ loop.pc = "idle"
        BY <1>6 DEF BeginCompletion
    <2>2. loop'.pc = "read" /\ loop'.req = delegateQueue[1] /\ loop'.next = 1
          /\ loop'.raced = {}
        BY <1>6, <2>1, BeginFacts DEF Lists
    <2>3. \A i \in 1 .. Len(delegateQueue) :
              i = 1 \/ (i - 1 \in 1 .. Len(delegateQueue')
                         /\ delegateQueue'[i - 1] = delegateQueue[i])
        BY <1>6, BeginFacts
    <2>4. Handled(latest)' => Handled(latest)
        BY <2>1, <2>2, <2>3 DEF Handled, Started, IsQueued, IsRunning
    <2> QED BY <2>1, <2>2, <2>4 DEF Latest, LatestResultsComplete, InList
<1>7. CASE ReadList
    <2>1. UNCHANGED <<reported, waiting, answer, delegateQueue, restaurants>>
          /\ loop.pc = "read"
        BY <1>7 DEF ReadList
    <2>2. /\ loop'.pc = "write" /\ loop'.req = loop.req /\ loop'.next = loop.next
          /\ loop'.raced = loop.raced
        BY <1>7, ReadFacts
    <2> QED BY <2>1, <2>2
            DEF Latest, LatestResultsComplete, Handled, Started, IsQueued, IsRunning, InList
<1>8. CASE WriteList
    <2>1. UNCHANGED <<reported, waiting, answer, delegateQueue>> /\ loop.pc = "write"
        BY <1>8 DEF WriteList
    <2>2. /\ loop'.pc = "read" /\ loop'.req = loop.req /\ loop'.next = loop.next + 1
          /\ loop'.raced = {}
          /\ CurrentRow \in Row /\ loop.next \in Nat
        BY <1>8, WriteFacts DEF Items
    <2>3. ASSUME Started(latest)
          PROVE  /\ InList(CurrentRow, restaurants')
                 /\ \A row : InList(row, restaurants) => InList(row, restaurants')
        <3>1. restaurants' = Append(restaurants, CurrentRow)
            BY <1>8, <2>3 DEF WriteList, AppendOutcomes, Latest
        <3> QED BY <1>1, <2>2, <3>1, InListAppend
    <2>4. IsRunning(latest) => Started(latest)
        BY DEF IsRunning, Bookkeeping, Started, IsQueued
    <2>5. IsRunning(Len(reported))' =>
              \A k \in 1 .. loop'.next - 1 :
                  InList([req |-> Len(reported'), idx |-> k], restaurants')
        <3> SUFFICES ASSUME IsRunning(latest), NEW k \in 1 .. loop.next
                     PROVE  InList([req |-> latest, idx |-> k], restaurants')
            BY <2>1, <2>2 DEF IsRunning
        <3>1. CASE k = loop.next
            BY <2>3, <2>4, <3>1 DEF CurrentRow, IsRunning
        <3>2. CASE k # loop.next
            <4>1. k \in 1 .. loop.next - 1
                BY <2>2, <3>2
            <4> QED BY <2>3, <2>4, <4>1 DEF Latest
        <3> QED BY <3>1, <3>2
    <2>6. LatestResultsComplete'
        <3>1. Handled(latest)' => Handled(latest)
            BY <2>1, <2>2 DEF Handled, Started, IsQueued, IsRunning
        <3> QED BY <2>1, <2>3, <3>1 DEF Latest, LatestResultsComplete, Handled
    <2> QED BY <2>2, <2>5, <2>6 DEF Latest
<1>9. CASE EndCompletion
    <2>1. UNCHANGED <<reported, waiting, answer, delegateQueue, restaurants>>
          /\ loop.pc = "read" /\ loop.next > answer[loop.req].n
        BY <1>9 DEF EndCompletion
    <2>2. loop'.pc = "idle" /\ loop'.req = loop.req /\ loop'.raced = {}
        BY <1>9, <2>1, EndFacts DEF Lists
    <2>3. IsRunning(latest) => \A k \in 1 .. answer[latest].n : k \in 1 .. loop.next - 1
        <3>1. loop.next \in Int /\ loop.req \in Requests
            BY <1>1, <2>1, SearchAssumption DEF LoopType, Bookkeeping, TypeOK, Requests
        <3>2. answer[loop.req].n \in Int
            BY <3>1 DEF TypeOK, AnswerType
        <3> QED BY <2>1, <3>1, <3>2 DEF IsRunning
    <2>4. Handled(latest)' => Handled(latest) \/ IsRunning(latest)
        BY <2>1, <2>2 DEF Handled, Started, IsQueued, IsRunning
    <2> QED BY <2>1, <2>2, <2>3, <2>4
            DEF Latest, LatestResultsComplete, InList, IsRunning
<1>10. CASE UNCHANGED <<reported, waiting, answer, delegateQueue, restaurants, loop>>
    BY <1>3, <1>10
<1> QED BY <1>2, <1>4, <1>5, <1>6, <1>7, <1>8, <1>9, <1>10 DEF Next, vars,
        DidChangeAuthorization, ShowButton, CellForRowWithoutImage, WriteReleasedList

-----------------------------------------------------------------------------
(* The list the table is opened with is not empty: only the main thread      *)
(* empties the array, and it is inside the segue.                            *)
LEMMA ShownStep == TypeOK /\ Bookkeeping /\ Lists /\ ShownNonEmpty /\ [Next]_vars => ShownNonEmpty'
<1> SUFFICES ASSUME TypeOK, Bookkeeping, Lists, ShownNonEmpty, [Next]_vars
             PROVE  ShownNonEmpty'
    OBVIOUS
<1>1. restaurants \in Seq(Row) /\ shown \in Seq(Row)
    BY DEF TypeOK
<1>2. CASE ShowButton
    BY <1>1, <1>2, EmptySeq DEF ShowButton, ShownNonEmpty
<1>3. CASE Prepare
    BY <1>3 DEF Prepare, ShownNonEmpty
<1>4. CASE WriteList
    <2>1. CurrentRow \in Row /\ loop.seen \in Seq(Row)
        BY <1>4, WriteFacts DEF TypeOK, LoopType
    <2>2. \A list \in Seq(Row) : Append(list, CurrentRow) # <<>>
        BY <2>1, AppendProperties
    <2>3. restaurants # <<>> => restaurants' # <<>>
        BY <1>1, <1>4, <2>2 DEF WriteList, AppendOutcomes, Lists
    <2>4. shown # <<>> => shown' # <<>>
        BY <1>1, <1>4, <2>2 DEF WriteList, CopyOutcomes
    <2> QED BY <1>4, <2>3, <2>4 DEF WriteList, ShownNonEmpty
<1>5. CASE \E l \in Locations : DidUpdateLocations(l)
    BY <1>5 DEF DidUpdateLocations, ShownNonEmpty
<1>6. CASE UNCHANGED <<restaurants, shown, screen>>
    BY <1>6 DEF ShownNonEmpty
<1> QED BY <1>2, <1>3, <1>4, <1>5, <1>6 DEF Next, vars, DidChangeAuthorization,
        CellForRowWithoutImage, Answer, BeginCompletion, ReadList, WriteReleasedList, EndCompletion

LEMMA InvInit == Init => IInv
<1> SUFFICES ASSUME Init PROVE IInv
    OBVIOUS
<1>1. TypeOK /\ Bookkeeping
    BY TypeInit
<1>2. /\ Len(restaurants) = 0 /\ Len(shown) = 0 /\ Len(reported) = 0
      /\ loop.pc = "idle" /\ loop.raced = {}
      /\ screen = "location"
    BY DEF Init
<1>3. Lists
    BY <1>2 DEF Lists, Past, NoHoles, NoHolesIn, Extensible
<1>4. Latest
    BY <1>2 DEF Latest, LatestResultsComplete, Handled, Started, IsRunning
<1>5. ShownNonEmpty
    BY <1>2 DEF ShownNonEmpty
<1> QED BY <1>1, <1>3, <1>4, <1>5 DEF IInv

(* The inductive invariant holds in every reachable state.                   *)
THEOREM Invariant == Spec => []IInv
<1>1. IInv /\ [Next]_vars => IInv'
    BY TypeStep, BookkeepingStep, ListsStep, LatestStep, ShownStep DEF IInv
<1> QED BY InvInit, <1>1, PTL DEF Spec

(* No list, neither the array nor the table's copy, ever has a gap, a        *)
(* duplicate or a mixture of two answers, in spite of the unlocked array.    *)
THEOREM ListsHaveNoHoles == Spec => []NoHoles
BY Invariant, PTL DEF IInv, Lists

(* A late answer to an earlier request never removes the latest results.     *)
THEOREM LatestIsComplete == Spec => []LatestResultsComplete
BY Invariant, PTL DEF IInv, Latest

(* The table is never opened on an empty list.                               *)
THEOREM TableNeverEmpty == Spec => []ShownNonEmpty
BY Invariant, PTL DEF IInv
=============================================================================
