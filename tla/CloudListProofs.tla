--------------------------- MODULE CloudListProofs ---------------------------
(* Proofs of the safety properties of CloudList, for every set of accounts    *)
(* and callers, every finite set of documents and every bound.                *)
EXTENDS CloudList, CloudStoreProofs

-----------------------------------------------------------------------------
(* The screen and its client                                                  *)

(* Every step of the composition is a step of the client, or none of it.      *)
LEMMA ListStepIsStep == [ListNext]_allVars => [Next]_vars
BY DEF ListNext, allVars, Next, vars, LoadRestaurants, LoadPhotos, Load, RunSnapshot, RunScroll,
       DidSelectRow, ListRestart

(* The screen asks nothing of the client that the client does not promise, so *)
(* what is proved of the client holds under the screen.                       *)
THEOREM ListRunsTheStore == ListSpec => Spec
<1>1. ListInit => Init
    BY DEF ListInit
<1> QED BY <1>1, ListStepIsStep, PTL DEF ListSpec, Spec

LEMMA StoreInvariant == ListSpec => []IInv
BY ListRunsTheStore, Invariant, PTL

ShownHaveAuthors == \A d \in Shown : author[d] # None

(* Only what somebody added is in the local view.                             *)
LEMMA ShownWereAdded == IInv => ShownHaveAuthors
BY VisibleHasAuthor DEF IInv, ShownHaveAuthors, Shown

(* The local view stays where user, queue and cache do.                       *)
LEMMA ShownKept ==
    ASSUME IInv, [Next]_vars, UNCHANGED <<user, queue, cache>>
    PROVE  Shown' = Shown
<1>1. Grows
    BY GrowsStep DEF IInv
<1>2. \A d \in Docs : Visible(d)' <=> Visible(d)
    BY <1>1, VisibleKept DEF IInv
<1> QED BY <1>2 DEF Shown
-----------------------------------------------------------------------------
(* Arrays and the main queue                                                  *)

LEMMA TaskKinds ==
    /\ \A D \in SUBSET Docs : Snapshot(D) \in Task /\ Snapshot(D) # Scroll
    /\ Scroll \in Task
    /\ \A task \in Task :
           /\ task.docs \in SUBSET Docs
           /\ task # Scroll => task.kind = "snapshot"
           /\ task.kind = "snapshot" => task # Scroll
BY DEF Snapshot, Scroll, Task

(* An event is put behind what waits, unless it brings nothing new.           *)
LEMMA RaiseFacts ==
    ASSUME tasks \in Seq(Task), listener \in [currentUser : Users, raised : SUBSET Docs],
           NEW D \in SUBSET Docs, Raise(D)
    PROVE  /\ listener' \in [currentUser : Users, raised : SUBSET Docs]
           /\ listener'.currentUser = listener.currentUser /\ listener'.raised = D
           /\ tasks' \in Seq(Task)
           /\ \A k \in 1 .. Len(tasks) : k \in 1 .. Len(tasks') /\ tasks'[k] = tasks[k]
           /\ \A k \in 1 .. Len(tasks') :
                  \/ k \in 1 .. Len(tasks) /\ tasks'[k] = tasks[k]
                  \/ tasks'[k] = Snapshot(D)
           /\ D # listener.raised => \E k \in 1 .. Len(tasks') : tasks'[k] = Snapshot(D)
<1>1. /\ listener' \in [currentUser : Users, raised : SUBSET Docs]
      /\ listener'.currentUser = listener.currentUser /\ listener'.raised = D
    BY DEF Raise
<1>2. CASE D = listener.raised
    <2>1. tasks' = tasks
        BY <1>2 DEF Raise
    <2> QED BY <1>1, <1>2, <2>1
<1>3. CASE D # listener.raised
    <2>1. tasks' = Append(tasks, Snapshot(D)) /\ Snapshot(D) \in Task
        BY <1>3, TaskKinds DEF Raise
    <2>2. /\ tasks' \in Seq(Task) /\ Len(tasks) \in Nat /\ Len(tasks') = Len(tasks) + 1
          /\ \A k \in 1 .. Len(tasks) : tasks'[k] = tasks[k]
          /\ tasks'[Len(tasks) + 1] = Snapshot(D)
        BY <2>1, AppendProperties, LenProperties
    <2>3. Len(tasks) + 1 \in 1 .. Len(tasks')
        BY <2>2
    <2>4. \A k \in 1 .. Len(tasks') : k \in 1 .. Len(tasks) \/ k = Len(tasks) + 1
        BY <2>2
    <2>5. \A k \in 1 .. Len(tasks) : k \in 1 .. Len(tasks')
        BY <2>2
    <2> QED BY <1>1, <2>2, <2>3, <2>4, <2>5
<1> QED BY <1>2, <1>3
-----------------------------------------------------------------------------
(* The inductive invariant, step by step                                      *)

LEMMA ListInvInit == ListInit => ListIInv
<1> SUFFICES ASSUME ListInit PROVE ListIInv
    OBVIOUS
<1>1. /\ list = "closed" /\ listener = [currentUser |-> None, raised |-> {}]
      /\ tasks = <<>> /\ restaurant = <<>> /\ dbUserArray = <<>>
      /\ counted = 0 /\ selected = None
    BY DEF ListInit, Closed
<1>2. Len(tasks) = 0 /\ Len(restaurant) = 0 /\ Len(dbUserArray) = 0
    BY <1>1, EmptySeq
<1>3. ListTypeOK
    BY <1>1, <1>2 DEF ListTypeOK, Users
<1>4. ListSequences
    BY <1>1, EmptySeq DEF ListSequences
<1> QED BY <1>1, <1>2, <1>3, <1>4
        DEF ListIInv, TableWithinRows, RowsHaveAuthors, RaisedIsShown, RaisedArrives, CountArrives

(* Who a row or a document on its way is of is not changed by any step.       *)
LEMMA ListedStays ==
    ASSUME IInv, [Next]_vars, UNCHANGED <<list, listener>>, NEW d \in Docs, author[d] # None
    PROVE  author'[d] = author[d] /\ (Listed(d)' <=> Listed(d))
<1>1. author'[d] = author[d]
    BY AuthorsStep DEF IInv
<1> QED BY <1>1 DEF Listed

(* Steps that leave the screen alone and, once it is open, the local view.    *)
LEMMA ScreenUntouched ==
    ASSUME IInv, ListIInv, [Next]_vars, UNCHANGED listVars, list = "closed" \/ Shown' = Shown
    PROVE  ListIInv'
<1>1. /\ tasks' = tasks /\ restaurant' = restaurant /\ dbUserArray' = dbUserArray
      /\ counted' = counted /\ selected' = selected /\ list' = list /\ listener' = listener
    BY DEF listVars
<1>2. ListTypeOK' /\ ListSequences' /\ TableWithinRows' /\ CountArrives'
    BY <1>1 DEF ListIInv, ListTypeOK, ListSequences, TableWithinRows, CountArrives, Range
<1>3. RowsHaveAuthors'
    <2>1. ASSUME NEW k \in 1 .. Len(tasks), NEW d \in tasks[k].docs PROVE author'[d] # None
        <3>1. author[d] # None /\ d \in Docs
            BY <2>1, TaskKinds, ElementOfSeq DEF ListIInv, ListSequences, RowsHaveAuthors
        <3> QED BY <1>1, <3>1, ListedStays
    <2>2. ASSUME list = "favourites", NEW i \in 1 .. Len(restaurant)
          PROVE  author'[restaurant[i]] = listener.currentUser
        <3>1. /\ restaurant[i] \in Docs /\ author[restaurant[i]] = listener.currentUser
              /\ author[restaurant[i]] # None
            BY <2>2 DEF ListIInv, ListTypeOK, ListSequences, RowsHaveAuthors
        <3> QED BY <1>1, <3>1, ListedStays
    <2> QED BY <1>1, <2>1, <2>2 DEF RowsHaveAuthors
<1>4. RaisedIsShown'
    BY <1>1 DEF ListIInv, RaisedIsShown
<1>5. RaisedArrives'
    <2> SUFFICES ASSUME list # "closed", NEW d \in listener.raised, Listed(d)'
                 PROVE  \/ \E i \in 1 .. Len(restaurant) : restaurant[i] = d
                        \/ \E k \in 1 .. Len(tasks) : d \in tasks[k].docs
        BY <1>1 DEF RaisedArrives
    <2>1. d \in Docs /\ author[d] # None
        BY ShownWereAdded DEF ListIInv, RaisedIsShown, Shown, ShownHaveAuthors
    <2>2. Listed(d)
        BY <1>1, <2>1, ListedStays
    <2> QED BY <2>2 DEF ListIInv, RaisedArrives
<1> QED BY <1>2, <1>3, <1>4, <1>5 DEF ListIInv

LEMMA LoadKeeps ==
    ASSUME IInv, ListIInv, NEW kind \in {"favourites", "photos"}, Load(kind)
    PROVE  ListIInv'
<1>1. /\ list = "closed" /\ list' = kind /\ user # None /\ user \in Users
      /\ listener' = [currentUser |-> user, raised |-> Shown]
      /\ tasks' = IF Shown = {} THEN <<>> ELSE <<Snapshot(Shown)>>
      /\ restaurant' = <<>> /\ dbUserArray' = <<>> /\ counted' = 0 /\ selected' = selected
      /\ restaurant' = restaurant
    BY DEF Load, ListIInv, ListSequences, IInv, StoreTypes
<1>2. UNCHANGED <<user, queue, cache, server, author>>
    BY DEF Load, vars
<1>3. Shown \in SUBSET Docs /\ Shown' = Shown
    BY <1>2 DEF Shown, Visible, VisibleTo, Touches, ExistsAt, IsLast
<1>4. Snapshot(Shown) \in Task /\ Snapshot(Shown) # Scroll /\ Snapshot(Shown).docs = Shown
    BY <1>3, TaskKinds DEF Snapshot
<1>5. /\ tasks' \in Seq(Task)
      /\ \A k \in 1 .. Len(tasks') : tasks'[k] = Snapshot(Shown)
      /\ Shown # {} => 1 \in 1 .. Len(tasks')
    <2>1. CASE Shown = {}
        <3>1. tasks' = <<>> /\ Len(tasks') = 0 /\ tasks' \in Seq(Task)
            BY <1>1, <2>1, EmptySeq
        <3> QED BY <2>1, <3>1
    <2>2. CASE Shown # {}
        <3>1. tasks' = <<Snapshot(Shown)>>
            BY <1>1, <2>2
        <3>2. tasks' \in Seq(Task) /\ Len(tasks') = 1 /\ tasks'[1] = Snapshot(Shown)
            BY <1>4, <3>1
        <3> QED BY <3>2
    <2> QED BY <2>1, <2>2
<1>6. Len(restaurant') = 0 /\ Len(dbUserArray') = 0
    BY <1>1, EmptySeq
<1>7. ListTypeOK'
    <2>1. listener' \in [currentUser : Users, raised : SUBSET Docs]
        BY <1>1, <1>3
    <2>2. selected' \in Range(restaurant') \cup {None}
        BY <1>1 DEF ListIInv, ListTypeOK, Range
    <2>3. \A k \in 1 .. Len(tasks') : tasks'[k] \in Task
        BY <1>4, <1>5
    <2> QED BY <1>1, <1>6, <2>1, <2>2, <2>3 DEF ListTypeOK
<1>8. ListSequences'
    BY <1>1, <1>5, EmptySeq DEF ListSequences
<1>9. TableWithinRows' /\ CountArrives'
    BY <1>1, <1>4, <1>5, <1>6 DEF TableWithinRows, CountArrives
<1>10. RowsHaveAuthors'
    BY <1>2, <1>4, <1>5, <1>6, ShownWereAdded DEF RowsHaveAuthors, ShownHaveAuthors
<1>11. RaisedIsShown'
    BY <1>1, <1>3 DEF RaisedIsShown
<1>12. RaisedArrives'
    BY <1>1, <1>4, <1>5 DEF RaisedArrives
<1> QED BY <1>7, <1>8, <1>9, <1>10, <1>11, <1>12 DEF ListIInv
(* A change of the local view is raised, if the screen was ever opened.       *)
LEMMA EmitKeeps ==
    ASSUME IInv, IInv', ListIInv, [Next]_vars, EmitNewSnapshots
    PROVE  ListIInv'
<1>1. /\ list' = list /\ restaurant' = restaurant /\ dbUserArray' = dbUserArray
      /\ counted' = counted /\ selected' = selected
    BY DEF EmitNewSnapshots
<1>2. CASE list = "closed"
    <2>1. UNCHANGED listVars
        BY <1>2 DEF EmitNewSnapshots, listVars
    <2> QED BY <1>2, <2>1, ScreenUntouched
<1>3. CASE list # "closed"
    <2>1. Shown' \in SUBSET Docs /\ Raise(Shown')
        BY <1>3 DEF EmitNewSnapshots, Shown
    <2>2. /\ tasks \in Seq(Task)
          /\ listener \in [currentUser : Users, raised : SUBSET Docs]
          /\ listener.raised = Shown
        BY <1>3 DEF ListIInv, ListTypeOK, ListSequences, RaisedIsShown
    <2>3. /\ listener' \in [currentUser : Users, raised : SUBSET Docs]
          /\ listener'.currentUser = listener.currentUser /\ listener'.raised = Shown'
          /\ tasks' \in Seq(Task)
          /\ \A k \in 1 .. Len(tasks) : k \in 1 .. Len(tasks') /\ tasks'[k] = tasks[k]
          /\ \A k \in 1 .. Len(tasks') :
                 \/ k \in 1 .. Len(tasks) /\ tasks'[k] = tasks[k]
                 \/ tasks'[k] = Snapshot(Shown')
          /\ Shown' # listener.raised =>
                 \E k \in 1 .. Len(tasks') : tasks'[k] = Snapshot(Shown')
        BY <2>1, <2>2, RaiseFacts
    <2>4. /\ Snapshot(Shown') \in Task /\ Snapshot(Shown') # Scroll
          /\ Snapshot(Shown').docs = Shown'
        BY <2>1, TaskKinds DEF Snapshot
    <2>5. ShownHaveAuthors /\ \A d \in Shown' : author'[d] # None
        <3>1. (IInv => ShownHaveAuthors)'
            BY ShownWereAdded, PTL
        <3> QED BY <3>1, ShownWereAdded DEF ShownHaveAuthors
    <2>6. ListTypeOK'
        <3>1. \A k \in 1 .. Len(tasks') : tasks'[k] \in Task
            BY <2>3, ElementOfSeq
        <3> QED BY <1>1, <2>3, <3>1 DEF ListIInv, ListTypeOK, Range
    <2>7. ListSequences'
        BY <1>1, <1>3, <2>3 DEF ListIInv, ListSequences
    <2>8. TableWithinRows' /\ CountArrives'
        <3>1. (\E k \in 1 .. Len(tasks') : tasks'[k] = Scroll)
                  <=> \E k \in 1 .. Len(tasks) : tasks[k] = Scroll
            BY <2>3, <2>4
        <3> QED BY <1>1, <3>1 DEF ListIInv, TableWithinRows, CountArrives
    <2>9. RowsHaveAuthors'
        <3>1. ASSUME NEW k \in 1 .. Len(tasks'), NEW d \in tasks'[k].docs PROVE author'[d] # None
            <4>1. CASE tasks'[k] = Snapshot(Shown')
                BY <2>4, <2>5, <3>1, <4>1
            <4>2. CASE k \in 1 .. Len(tasks) /\ tasks'[k] = tasks[k]
                <5>1. d \in Docs /\ author[d] # None
                    BY <2>2, <3>1, <4>2, TaskKinds, ElementOfSeq DEF ListIInv, RowsHaveAuthors
                <5> QED BY <5>1, AuthorsStep DEF IInv
            <4> QED BY <2>3, <4>1, <4>2
        <3>2. ASSUME list = "favourites", NEW i \in 1 .. Len(restaurant)
              PROVE  author'[restaurant[i]] = listener.currentUser
            <4>1. /\ restaurant[i] \in Docs /\ author[restaurant[i]] = listener.currentUser
                  /\ author[restaurant[i]] # None
                BY <3>2 DEF ListIInv, ListTypeOK, ListSequences, RowsHaveAuthors
            <4> QED BY <4>1, AuthorsStep DEF IInv
        <3> QED BY <1>1, <2>3, <3>1, <3>2 DEF RowsHaveAuthors
    <2>10. RaisedIsShown'
        BY <2>3 DEF RaisedIsShown
    <2>11. RaisedArrives'
        <3> SUFFICES ASSUME NEW d \in Shown', Listed(d)'
                     PROVE  \/ \E i \in 1 .. Len(restaurant) : restaurant[i] = d
                            \/ \E k \in 1 .. Len(tasks') : d \in tasks'[k].docs
            BY <1>1, <2>3 DEF RaisedArrives
        <3>1. CASE Shown' # listener.raised
            BY <2>3, <2>4, <3>1
        <3>2. CASE Shown' = listener.raised
            <4>1. d \in Docs /\ author[d] # None
                BY <2>1, <2>2, <2>5, <3>2 DEF ShownHaveAuthors
            <4>2. author'[d] = author[d]
                BY <4>1, AuthorsStep DEF IInv
            <4>3. Listed(d)
                BY <1>1, <2>3, <4>2 DEF Listed
            <4>4. \/ \E i \in 1 .. Len(restaurant) : restaurant[i] = d
                  \/ \E k \in 1 .. Len(tasks) : d \in tasks[k].docs
                BY <1>3, <3>2, <4>3 DEF ListIInv, RaisedArrives
            <4> QED BY <2>3, <4>4
        <3> QED BY <3>1, <3>2
    <2> QED BY <2>6, <2>7, <2>8, <2>9, <2>10, <2>11 DEF ListIInv
<1> QED BY <1>2, <1>3

LEMMA ScrollKeeps ==
    ASSUME IInv, ListIInv, RunScroll
    PROVE  ListIInv'
<1>1. /\ tasks # <<>> /\ tasks' = Tail(tasks) /\ counted' = Len(restaurant)
      /\ UNCHANGED <<list, listener, restaurant, dbUserArray, selected>>
      /\ UNCHANGED <<user, queue, cache, server, author>>
      /\ tasks \in Seq(Task) /\ Head(tasks) = Scroll
    BY DEF RunScroll, vars, ListIInv, ListSequences
<1>2. /\ tasks' \in Seq(Task) /\ tasks[1] = Scroll /\ 1 \in 1 .. Len(tasks)
      /\ \A k \in 1 .. Len(tasks') : k + 1 \in 1 .. Len(tasks) /\ tasks'[k] = tasks[k + 1]
      /\ \A k \in 1 .. Len(tasks) :
             k # 1 => k - 1 \in 1 .. Len(tasks') /\ tasks'[k - 1] = tasks[k]
    BY <1>1, TailFacts
<1>3. restaurant # <<>> /\ Len(restaurant) \in Nat /\ Len(restaurant) <= Len(restaurant)
    <2>1. restaurant # <<>>
        BY <1>2 DEF ListIInv, TableWithinRows
    <2>2. Len(restaurant) \in Nat
        BY LenProperties DEF ListIInv, ListSequences
    <2> QED BY <2>1, <2>2
<1>4. Shown' = Shown
    BY <1>1 DEF Shown, Visible, VisibleTo, Touches, ExistsAt, IsLast
<1>5. ListTypeOK'
    <2>1. \A k \in 1 .. Len(tasks') : tasks'[k] \in Task
        BY <1>2, ElementOfSeq
    <2> QED BY <1>1, <1>3, <2>1 DEF ListIInv, ListTypeOK, Range
<1>6. ListSequences'
    BY <1>1, <1>2, <1>3 DEF ListIInv, ListSequences
<1>7. TableWithinRows'
    BY <1>1, <1>2, <1>3 DEF ListIInv, TableWithinRows
<1>8. RowsHaveAuthors'
    BY <1>1, <1>2 DEF ListIInv, RowsHaveAuthors
<1>9. RaisedIsShown' /\ CountArrives'
    BY <1>1, <1>4 DEF ListIInv, RaisedIsShown, CountArrives
<1>10. RaisedArrives'
    <2> SUFFICES ASSUME list # "closed", NEW d \in listener.raised, Listed(d)
                 PROVE  \/ \E i \in 1 .. Len(restaurant) : restaurant[i] = d
                        \/ \E k \in 1 .. Len(tasks') : d \in tasks'[k].docs
        BY <1>1 DEF RaisedArrives, Listed
    <2>1. ASSUME NEW k \in 1 .. Len(tasks), d \in tasks[k].docs
          PROVE  \E l \in 1 .. Len(tasks') : d \in tasks'[l].docs
        <3>1. Scroll.docs = {}
            BY DEF Scroll
        <3>2. k # 1
            BY <1>2, <2>1, <3>1
        <3> QED BY <1>2, <2>1, <3>2
    <2> QED BY <2>1 DEF ListIInv, RaisedArrives
<1> QED BY <1>5, <1>6, <1>7, <1>8, <1>9, <1>10 DEF ListIInv

LEMMA SelectKeeps ==
    ASSUME IInv, ListIInv, NEW row \in 1 .. counted, DidSelectRow(row)
    PROVE  ListIInv'
<1>1. /\ UNCHANGED <<list, listener, tasks, restaurant, dbUserArray, counted>>
      /\ UNCHANGED <<user, queue, cache, server, author>>
      /\ selected' = restaurant[row]
    BY DEF DidSelectRow, vars
<1>2. row \in 1 .. Len(restaurant) /\ DOMAIN restaurant = 1 .. Len(restaurant)
    <2>1. /\ counted \in Nat /\ counted <= Len(restaurant) /\ Len(restaurant) \in Nat
          /\ DOMAIN restaurant = 1 .. Len(restaurant)
        BY LenProperties DEF ListIInv, ListTypeOK, ListSequences, TableWithinRows
    <2> QED BY <2>1
<1>3. selected' \in Range(restaurant)
    BY <1>1, <1>2 DEF Range
<1>4. Shown' = Shown
    BY <1>1 DEF Shown, Visible, VisibleTo, Touches, ExistsAt, IsLast
<1>5. ListTypeOK' /\ ListSequences' /\ TableWithinRows' /\ CountArrives'
    BY <1>1, <1>3 DEF ListIInv, ListTypeOK, ListSequences, TableWithinRows, CountArrives, Range
<1> QED BY <1>1, <1>4, <1>5
        DEF ListIInv, RowsHaveAuthors, RaisedIsShown, RaisedArrives, Listed
(* The rows of a snapshot are appended, each with its author and its block.   *)
LEMMA SnapshotKeeps ==
    ASSUME IInv, ListIInv, RunSnapshot
    PROVE  ListIInv'
<1> DEFINE S == {d \in tasks[1].docs : Listed(d)}
           rows == SetToSeq(S)
           n == Len(rows)
           senders == [i \in 1 .. n |-> author[rows[i]]]
           blocks == [i \in 1 .. n |-> Scroll]
<1>1. /\ tasks # <<>> /\ tasks \in Seq(Task) /\ restaurant \in Seq(Docs)
      /\ dbUserArray \in Seq(Accounts \cup {Other})
      /\ UNCHANGED <<list, listener, counted, selected>>
      /\ UNCHANGED <<user, queue, cache, server, author>>
    BY DEF RunSnapshot, vars, ListIInv, ListSequences
<1>2. /\ Head(tasks) = tasks[1] /\ tasks[1] \in Task /\ 1 \in 1 .. Len(tasks)
      /\ Tail(tasks) \in Seq(Task) /\ Len(Tail(tasks)) \in Nat
      /\ \A k \in 1 .. Len(Tail(tasks)) :
             k + 1 \in 1 .. Len(tasks) /\ Tail(tasks)[k] = tasks[k + 1]
      /\ \A k \in 1 .. Len(tasks) :
             k # 1 => k - 1 \in 1 .. Len(Tail(tasks)) /\ Tail(tasks)[k - 1] = tasks[k]
    BY <1>1, TailFacts
<1>3. /\ restaurant' = restaurant \o rows
      /\ dbUserArray' = dbUserArray \o senders
      /\ tasks' = Tail(tasks) \o blocks
      /\ tasks[1].kind = "snapshot" /\ tasks[1] # Scroll
    BY <1>2, TaskKinds DEF RunSnapshot
<1>4. S \in SUBSET Docs /\ IsFiniteSet(S) /\ \A d \in S : author[d] # None /\ Listed(d)
    <2>1. S \in SUBSET Docs
        BY <1>2, TaskKinds
    <2>2. IsFiniteSet(S)
        BY <2>1, ListAssumption, FS_Subset
    <2> QED BY <1>2, <2>1, <2>2 DEF ListIInv, RowsHaveAuthors
<1>5. /\ n \in Nat /\ rows \in Seq(S) /\ rows \in Seq(Docs)
      /\ \A i \in 1 .. n : rows[i] \in S
      /\ \A d \in S : \E i \in 1 .. n : rows[i] = d
    <2>1. /\ rows \in Seq(S) /\ Len(rows) = Cardinality(S) /\ Cardinality(S) \in Nat
          /\ \A d \in S : \E i \in 1 .. Cardinality(S) : rows[i] = d
        BY <1>4, ListOfSet
    <2>2. rows \in Seq(Docs)
        BY <1>4, <2>1, SeqMonotonic
    <2>3. \A i \in 1 .. n : rows[i] \in S
        BY <2>1, ElementOfSeq
    <2> QED BY <2>1, <2>2, <2>3
<1>6. senders \in Seq(Accounts \cup {Other}) /\ Len(senders) = n
    <2>1. \A i \in 1 .. n : author[rows[i]] \in Accounts \cup {Other}
        BY <1>4, <1>5 DEF IInv, StoreTypes, Users
    <2> HIDE DEF rows, n
    <2>2. senders \in Seq(Accounts \cup {Other})
        BY <1>5, <2>1, IsASeq
    <2> QED BY <1>5, <2>2
<1>7. blocks \in Seq(Task) /\ Len(blocks) = n /\ \A i \in 1 .. n : blocks[i] = Scroll
    <2> HIDE DEF rows, n
    <2>1. blocks \in Seq(Task)
        BY <1>5, TaskKinds
    <2> QED BY <1>5, <2>1
<1> HIDE DEF S, rows, n, senders, blocks
<1>8. /\ restaurant' \in Seq(Docs) /\ Len(restaurant) \in Nat
      /\ Len(restaurant') = Len(restaurant) + n
      /\ \A i \in 1 .. Len(restaurant) :
             i \in 1 .. Len(restaurant') /\ restaurant'[i] = restaurant[i]
      /\ \A i \in 1 .. n :
             Len(restaurant) + i \in 1 .. Len(restaurant')
                 /\ restaurant'[Len(restaurant) + i] = rows[i]
      /\ \A i \in 1 .. Len(restaurant') :
             \/ i \in 1 .. Len(restaurant) /\ restaurant'[i] = restaurant[i]
             \/ restaurant'[i] \in S
    <2>1. Len(rows) = n
        BY DEF n
    <2> QED BY <1>1, <1>3, <1>5, <2>1, JoinFacts
<1>9. /\ dbUserArray' \in Seq(Accounts \cup {Other})
      /\ Len(dbUserArray') = Len(dbUserArray) + n
    <2>1. /\ dbUserArray \o senders \in Seq(Accounts \cup {Other})
          /\ Len(dbUserArray \o senders) = Len(dbUserArray) + Len(senders)
        BY <1>1, <1>6, ConcatProperties
    <2> QED BY <1>3, <1>6, <2>1
<1>10. /\ tasks' \in Seq(Task)
       /\ \A k \in 1 .. Len(tasks) :
              k # 1 => k - 1 \in 1 .. Len(tasks') /\ tasks'[k - 1] = tasks[k]
       /\ n # 0 => \E k \in 1 .. Len(tasks') : tasks'[k] = Scroll
       /\ \A k \in 1 .. Len(tasks') :
              \/ \E l \in 1 .. Len(tasks) : tasks'[k] = tasks[l]
              \/ n # 0 /\ tasks'[k] = Scroll
    <2>1. /\ tasks' \in Seq(Task)
          /\ \A k \in 1 .. Len(Tail(tasks)) :
                 k \in 1 .. Len(tasks') /\ tasks'[k] = Tail(tasks)[k]
          /\ \A k \in 1 .. n :
                 Len(Tail(tasks)) + k \in 1 .. Len(tasks')
                     /\ tasks'[Len(Tail(tasks)) + k] = blocks[k]
          /\ \A k \in 1 .. Len(tasks') :
                 \/ k \in 1 .. Len(Tail(tasks)) /\ tasks'[k] = Tail(tasks)[k]
                 \/ /\ k - Len(Tail(tasks)) \in 1 .. n
                    /\ tasks'[k] = blocks[k - Len(Tail(tasks))]
        <3> DEFINE rest == Tail(tasks)
        <3>1. rest \in Seq(Task) /\ tasks' = rest \o blocks
            BY <1>2, <1>3
        <3> HIDE DEF rest
        <3>2. /\ rest \o blocks \in Seq(Task)
              /\ \A k \in 1 .. Len(rest) :
                     k \in 1 .. Len(rest \o blocks) /\ (rest \o blocks)[k] = rest[k]
              /\ \A k \in 1 .. Len(blocks) :
                     Len(rest) + k \in 1 .. Len(rest \o blocks)
                         /\ (rest \o blocks)[Len(rest) + k] = blocks[k]
              /\ \A k \in 1 .. Len(rest \o blocks) :
                     \/ k \in 1 .. Len(rest) /\ (rest \o blocks)[k] = rest[k]
                     \/ /\ k - Len(rest) \in 1 .. Len(blocks)
                        /\ (rest \o blocks)[k] = blocks[k - Len(rest)]
            BY <1>7, <3>1, JoinFacts
        <3>3. /\ tasks' \in Seq(Task)
              /\ \A k \in 1 .. Len(rest) : k \in 1 .. Len(tasks') /\ tasks'[k] = rest[k]
              /\ \A k \in 1 .. n :
                     Len(rest) + k \in 1 .. Len(tasks') /\ tasks'[Len(rest) + k] = blocks[k]
              /\ \A k \in 1 .. Len(tasks') :
                     \/ k \in 1 .. Len(rest) /\ tasks'[k] = rest[k]
                     \/ k - Len(rest) \in 1 .. n /\ tasks'[k] = blocks[k - Len(rest)]
            BY <1>7, <3>1, <3>2
        <3> QED BY <3>3 DEF rest
    <2>2. n # 0 => 1 \in 1 .. n
        BY <1>5
    <2>3. n # 0 => \E k \in 1 .. Len(tasks') : tasks'[k] = Scroll
        BY <1>7, <2>1, <2>2
    <2>4. ASSUME NEW k \in 1 .. Len(tasks')
          PROVE  \/ \E l \in 1 .. Len(tasks) : tasks'[k] = tasks[l]
                 \/ n # 0 /\ tasks'[k] = Scroll
        <3>1. CASE k \in 1 .. Len(Tail(tasks)) /\ tasks'[k] = Tail(tasks)[k]
            BY <1>2, <3>1
        <3>2. CASE /\ k - Len(Tail(tasks)) \in 1 .. n
                   /\ tasks'[k] = blocks[k - Len(Tail(tasks))]
            <4>1. n # 0
                BY <1>5, <3>2
            <4> QED BY <1>7, <3>2, <4>1
        <3> QED BY <2>1, <3>1, <3>2
    <2> QED BY <1>2, <2>1, <2>3, <2>4
<1>11. Shown' = Shown
    BY <1>1 DEF Shown, Visible, VisibleTo, Touches, ExistsAt, IsLast
<1>12. /\ \A k \in 1 .. Len(tasks) : tasks[k] \in Task
       /\ \A i \in 1 .. Len(restaurant) : restaurant[i] \in Docs
       /\ \A i \in 1 .. Len(restaurant') : restaurant'[i] \in Docs
       /\ \A i \in 1 .. Len(dbUserArray') : dbUserArray'[i] \in Accounts \cup {Other}
    BY <1>1, <1>8, <1>9, ElementOfSeq
<1>13. ListTypeOK'
    <2>1. \A k \in 1 .. Len(tasks') : tasks'[k] \in Task
        BY <1>10, ElementOfSeq
    <2>2. selected' \in Range(restaurant') \cup {None}
        <3>1. /\ DOMAIN restaurant = 1 .. Len(restaurant)
              /\ DOMAIN restaurant' = 1 .. Len(restaurant')
            BY <1>1, <1>8, LenProperties
        <3>2. Range(restaurant) \subseteq Range(restaurant')
            BY <1>8, <3>1 DEF Range
        <3> QED BY <1>1, <3>2 DEF ListIInv, ListTypeOK
    <2> QED BY <1>1, <1>12, <2>1, <2>2 DEF ListIInv, ListTypeOK
<1>14. ListSequences' /\ list # "closed"
    BY <1>1, <1>8, <1>9, <1>10 DEF ListIInv, ListSequences
<1>15. TableWithinRows'
    <2>1. Len(dbUserArray') = Len(restaurant') /\ counted' <= Len(restaurant')
        BY <1>1, <1>5, <1>8, <1>9 DEF ListIInv, TableWithinRows, ListTypeOK
    <2>2. n # 0 => restaurant' # <<>>
        BY <1>5, <1>8, EmptySeq
    <2>3. restaurant # <<>> => restaurant' # <<>>
        <3>1. restaurant # <<>> => Len(restaurant) # 0
            BY <1>1, EmptySeq
        <3> QED BY <1>5, <1>8, <3>1, EmptySeq
    <2>4. (\E k \in 1 .. Len(tasks') : tasks'[k] = Scroll) => restaurant' # <<>>
        BY <1>10, <2>2, <2>3 DEF ListIInv, TableWithinRows
    <2> QED BY <2>1, <2>4 DEF TableWithinRows
<1>16. RowsHaveAuthors'
    <2>1. ASSUME NEW k \in 1 .. Len(tasks'), NEW d \in tasks'[k].docs PROVE author[d] # None
        <3>1. tasks'[k] # Scroll
            BY <2>1 DEF Scroll
        <3>2. PICK l \in 1 .. Len(tasks) : tasks'[k] = tasks[l]
            BY <1>10, <3>1
        <3> QED BY <2>1, <3>2 DEF ListIInv, RowsHaveAuthors
    <2>2. ASSUME list = "favourites", NEW i \in 1 .. Len(restaurant')
          PROVE  author[restaurant'[i]] = listener.currentUser
        <3>1. CASE i \in 1 .. Len(restaurant) /\ restaurant'[i] = restaurant[i]
            BY <2>2, <3>1 DEF ListIInv, RowsHaveAuthors
        <3>2. CASE restaurant'[i] \in S
            BY <1>4, <2>2, <3>2 DEF Listed
        <3> QED BY <1>8, <3>1, <3>2
    <2> QED BY <1>1, <2>1, <2>2 DEF RowsHaveAuthors
<1>17. RaisedIsShown'
    BY <1>1, <1>11 DEF ListIInv, RaisedIsShown
<1>18. RaisedArrives'
    <2> SUFFICES ASSUME NEW d \in listener.raised, Listed(d)
                 PROVE  \/ \E i \in 1 .. Len(restaurant') : restaurant'[i] = d
                        \/ \E k \in 1 .. Len(tasks') : d \in tasks'[k].docs
        BY <1>1 DEF RaisedArrives, Listed
    <2>1. CASE \E i \in 1 .. Len(restaurant) : restaurant[i] = d
        BY <1>8, <2>1
    <2>2. CASE d \in tasks[1].docs
        <3>1. d \in S
            BY <2>2 DEF S
        <3> QED BY <1>5, <1>8, <3>1
    <2>3. CASE \E k \in 1 .. Len(tasks) : k # 1 /\ d \in tasks[k].docs
        BY <1>10, <2>3
    <2> QED BY <1>14, <2>1, <2>2, <2>3 DEF ListIInv, RaisedArrives
<1>19. CountArrives'
    <2>1. CASE n = 0
        <3>1. Len(restaurant') = Len(restaurant)
            BY <1>8, <2>1
        <3>2. \A k \in 1 .. Len(tasks) :
                  tasks[k] = Scroll => \E l \in 1 .. Len(tasks') : tasks'[l] = Scroll
            <4>1. tasks[1] # Scroll
                BY <1>3
            <4>2. ASSUME NEW k \in 1 .. Len(tasks), tasks[k] = Scroll
                  PROVE  \E l \in 1 .. Len(tasks') : tasks'[l] = Scroll
                <5>1. k - 1 \in 1 .. Len(tasks') /\ tasks'[k - 1] = Scroll
                    BY <1>10, <4>1, <4>2
                <5> QED BY <5>1
            <4> QED BY <4>2
        <3> QED BY <1>1, <3>1, <3>2 DEF ListIInv, CountArrives
    <2>2. CASE n # 0
        BY <1>10, <2>2 DEF CountArrives
    <2> QED BY <2>1, <2>2
<1> QED BY <1>13, <1>14, <1>15, <1>16, <1>17, <1>18, <1>19 DEF ListIInv

LEMMA RestartKeeps ==
    ASSUME ListIInv, ListRestart
    PROVE  ListIInv'
<1>1. /\ list' = "closed" /\ listener' = [currentUser |-> None, raised |-> {}]
      /\ tasks' = <<>> /\ restaurant' = <<>> /\ dbUserArray' = <<>>
      /\ counted' = 0 /\ selected' = None
    BY DEF ListRestart
<1>2. Len(tasks') = 0 /\ Len(restaurant') = 0 /\ Len(dbUserArray') = 0
    BY <1>1, EmptySeq
<1>3. ListTypeOK'
    BY <1>1, <1>2 DEF ListTypeOK, Users
<1>4. ListSequences'
    BY <1>1, EmptySeq DEF ListSequences
<1> QED BY <1>1, <1>2, <1>3, <1>4
        DEF ListIInv, TableWithinRows, RowsHaveAuthors, RaisedIsShown, RaisedArrives, CountArrives

(* One case for each kind of step: of the screen, of the client with what it  *)
(* tells the screen, and of what the screen is not told of.                   *)
LEMMA ListInvStep == IInv /\ IInv' /\ ListIInv /\ [ListNext]_allVars => ListIInv'
<1> SUFFICES ASSUME IInv, IInv', ListIInv, [ListNext]_allVars PROVE ListIInv'
    OBVIOUS
<1>1. [Next]_vars
    BY ListStepIsStep
<1>2. CASE LoadRestaurants \/ LoadPhotos
    BY <1>2, LoadKeeps DEF LoadRestaurants, LoadPhotos
<1>3. CASE RunSnapshot
    BY <1>3, SnapshotKeeps
<1>4. CASE RunScroll
    BY <1>4, ScrollKeeps
<1>5. CASE \E row \in 1 .. counted : DidSelectRow(row)
    BY <1>5, SelectKeeps
<1>6. CASE EmitNewSnapshots
    BY <1>1, <1>6, EmitKeeps
<1>7. ASSUME UNCHANGED listVars,
             \/ RunCompletion \/ Commit \/ Refuse \/ SendSnapshot \/ Connect \/ LoseConnection
             \/ \E d \in Docs : OtherDevice(d)
      PROVE  ListIInv'
    <2>1. UNCHANGED <<user, queue, cache>>
        BY <1>7 DEF RunCompletion, Commit, Refuse, SendSnapshot, Connect, LoseConnection, OtherDevice
    <2> QED BY <1>1, <1>7, <2>1, ShownKept, ScreenUntouched
<1>8. CASE ListRestart
    BY <1>8, RestartKeeps
<1>9. CASE UNCHANGED allVars
    <2>1. UNCHANGED listVars /\ UNCHANGED <<user, queue, cache>>
        BY <1>9 DEF allVars, listVars
    <2> QED BY <1>1, <2>1, ShownKept, ScreenUntouched
<1> QED BY <1>2, <1>3, <1>4, <1>5, <1>6, <1>7, <1>8, <1>9 DEF ListNext

(* The inductive invariant holds in every reachable state: what the listener  *)
(* raised last is the local view, and each document of it that belongs in the *)
(* list is in the rows or in a snapshot on its way.                           *)
THEOREM ListInvariant == ListSpec => []ListIInv
<1>1. IInv /\ IInv' /\ ListIInv /\ [ListNext]_allVars => ListIInv'
    BY ListInvStep
<1> QED BY <1>1, ListInvInit, StoreInvariant, PTL DEF ListSpec

(* Every variable of the screen keeps its type, and what was picked last is   *)
(* among the rows.                                                            *)
THEOREM ListTypeCorrect == ListSpec => []ListTypeOK
BY ListInvariant, PTL DEF ListIInv

(* The table never draws or scrolls to a row that is not there.               *)
THEOREM TableStaysWithinRows == ListSpec => []TableWithinRows
BY ListInvariant, PTL DEF ListIInv

(* When the main queue is served, no document of the local view is missing    *)
(* from the list.                                                             *)
THEOREM NothingIsMissing == ListSpec => []NothingMissing
<1>1. ListIInv => NothingMissing
    <2> SUFFICES ASSUME ListIInv, list # "closed", tasks = <<>>
                 PROVE  /\ \A d \in Shown : Listed(d) =>
                               \E i \in 1 .. Len(restaurant) : restaurant[i] = d
                        /\ counted = Len(restaurant)
        BY DEF NothingMissing
    <2>1. 1 .. Len(tasks) = {}
        BY EmptySeq
    <2> QED BY <2>1 DEF ListIInv, RaisedIsShown, RaisedArrives, CountArrives
<1> QED BY <1>1, ListInvariant, PTL

(* The favourites of two users are never in one list.                         *)
THEOREM FavouritesStayOfOneUser == ListSpec => []FavouritesOfOneUser
<1>1. ListIInv => FavouritesOfOneUser
    BY DEF ListIInv, RowsHaveAuthors, FavouritesOfOneUser
<1> QED BY <1>1, ListInvariant, PTL
=============================================================================
