---------------------------- MODULE NearbySearch ----------------------------
(***************************************************************************)
(* LocationViewController and the list it hands to                         *)
(* RestaurantViewController.                                               *)
(*                                                                         *)
(* Two threads touch LocationViewController.restaurants without a lock.    *)
(* The main thread empties it whenever Core Location reports a place and   *)
(* copies it when the user asks for the table; the serial delegate queue   *)
(* of URLSession.shared appends to it, one restaurant at a time, from the  *)
(* completion handler of each request.  Requests overlap freely: nothing   *)
(* cancels an old one when a new place is reported.                        *)
(*                                                                         *)
(* An append is two steps, so that what the main thread does between them  *)
(* is a data race; its outcomes are those of a Swift Array, whose append   *)
(* may reuse the buffer it found, may allocate a new one, or may touch     *)
(* memory that was released.                                               *)
(***************************************************************************)
EXTENDS Integers, Sequences

CONSTANTS
    Locations,    \* the places Core Location can report
    MaxUpdates,   \* bound: location reports in one life of the screen
    MaxItems      \* bound: restaurants in one answer of the service

ASSUME SearchAssumption == MaxUpdates \in Nat /\ MaxItems \in Nat \ {0}

VARIABLES
    monitoring,     \* significant-change monitoring was started
    reported,       \* the places reported so far; request r is for reported[r]
    waiting,        \* the requests the network has not answered
    answer,         \* answer[r], once r is not waiting
    delegateQueue,  \* completion handlers waiting for their thread (URLSession)
    loop,           \* the completion handler that is running
    restaurants,    \* LocationViewController.restaurants
    shown,          \* RestaurantViewController.restaurant
    screen,         \* what the main thread shows, or the segue it is in
    app             \* "crashed" once a force unwrap or a race stops the process

vars == <<monitoring, reported, waiting, answer, delegateQueue, loop,
          restaurants, shown, screen, app>>

Requests == 1 .. MaxUpdates
Items == 1 .. MaxItems

\* A restaurant, identified by the request that fetched it and its index there.
Row == [req : Requests, idx : Items]

(* n restaurants can be unpacked; then the handler ends, or, if bad, meets   *)
(* a missing key, a wrong type or an empty array and traps.  A transport     *)
(* error is [n |-> 0, bad |-> FALSE]; an empty "nearby_restaurants" or a     *)
(* body that is not JSON is [n |-> 0, bad |-> TRUE].                         *)
AnswerType == [n : 0 .. MaxItems, bad : BOOLEAN]
NoAnswer == [n |-> 0, bad |-> FALSE]

AuthorizationStatus ==
    {"authorizedAlways", "authorizedWhenInUse", "notDetermined", "restricted", "denied"}

LoopType == [pc : {"idle", "read", "write"}, req : 0 .. MaxUpdates, next : 1 .. MaxItems + 1,
             seen : Seq(Row), raced : SUBSET {"cleared", "copied"}]

Running == app = "running"

Init ==
    /\ monitoring = FALSE
    /\ reported = <<>>
    /\ waiting = {}
    /\ answer = [r \in Requests |-> NoAnswer]
    /\ delegateQueue = <<>>
    /\ loop = [pc |-> "idle", req |-> 0, next |-> 1, seen |-> <<>>, raced |-> {}]
    /\ restaurants = <<>>
    /\ shown = <<>>
    /\ screen = "location"
    /\ app = "running"

-----------------------------------------------------------------------------
(* Main thread *)

\* Starts the monitoring in two of the five cases; no case ever stops it.
DidChangeAuthorization(status) ==
    /\ Running
    /\ screen # "segue"
    /\ monitoring' = (monitoring \/ status \in {"authorizedAlways", "authorizedWhenInUse"})
    /\ UNCHANGED <<reported, waiting, answer, delegateQueue, loop, restaurants,
                   shown, screen, app>>

\* The loop of the completion handler notices nothing, but if it is between
\* the two steps of an append, that append is now racing.
MarkRace(kind) ==
    loop' = IF loop.pc = "write"
            THEN [loop EXCEPT !.raced = @ \cup {kind}]
            ELSE loop

FetchData(l) ==
    /\ restaurants' = <<>>
    /\ MarkRace("cleared")
    /\ reported' = Append(reported, l)
    /\ waiting' = waiting \cup {Len(reported) + 1}

\* Also while RestaurantViewController is on top: the delegate is never removed.
DidUpdateLocations(l) ==
    /\ Running
    /\ screen # "segue"
    /\ monitoring
    /\ Len(reported) < MaxUpdates
    /\ FetchData(l)
    /\ UNCHANGED <<monitoring, answer, delegateQueue, shown, screen, app>>

\* Mutation: the count is not tested.
ShowButtonUnchecked ==
    /\ Running
    /\ screen = "location"
    /\ screen' = "segue"
    /\ UNCHANGED <<monitoring, reported, waiting, answer, delegateQueue, loop,
                   restaurants, shown, app>>

\* The button is reachable only while this screen is on top.
ShowButton ==
    /\ Running
    /\ screen = "location"
    /\ Len(restaurants) > 0
    /\ screen' = "segue"
    /\ UNCHANGED <<monitoring, reported, waiting, answer, delegateQueue, loop,
                   restaurants, shown, app>>

Prepare ==
    /\ Running
    /\ screen = "segue"
    /\ shown' = restaurants
    /\ MarkRace("copied")
    /\ screen' = "restaurants"
    /\ UNCHANGED <<monitoring, reported, waiting, answer, delegateQueue,
                   restaurants, app>>

\* Data(contentsOf:) failed for the picture of a row: data! traps.
CellForRowWithoutImage(row) ==
    /\ Running
    /\ screen = "restaurants"
    /\ row \in 1 .. Len(shown)
    /\ app' = "crashed"
    /\ UNCHANGED <<monitoring, reported, waiting, answer, delegateQueue, loop,
                   restaurants, shown, screen>>

-----------------------------------------------------------------------------
(* Network and URLSession delegate queue *)

\* Answers come in any order; a request that gets none times out with an error.
Answer(r, a) ==
    /\ Running
    /\ r \in waiting
    /\ waiting' = waiting \ {r}
    /\ answer' = [answer EXCEPT ![r] = a]
    /\ delegateQueue' = Append(delegateQueue, r)
    /\ UNCHANGED <<monitoring, reported, loop, restaurants, shown, screen, app>>

\* Mutation: the list is emptied here and not when the place is reported.
BeginCompletionClearing ==
    /\ Running
    /\ loop.pc = "idle"
    /\ delegateQueue # <<>>
    /\ loop' = [loop EXCEPT !.pc = "read", !.req = Head(delegateQueue), !.next = 1]
    /\ delegateQueue' = Tail(delegateQueue)
    /\ restaurants' = <<>>
    /\ UNCHANGED <<monitoring, reported, waiting, answer, shown, screen, app>>

BeginCompletion ==
    /\ Running
    /\ loop.pc = "idle"
    /\ delegateQueue # <<>>
    /\ loop' = [loop EXCEPT !.pc = "read", !.req = Head(delegateQueue), !.next = 1]
    /\ delegateQueue' = Tail(delegateQueue)
    /\ UNCHANGED <<monitoring, reported, waiting, answer, restaurants, shown, screen, app>>

\* Mutation: the loop runs from 0 to count.
ReadListOneMore ==
    /\ Running
    /\ loop.pc = "read"
    /\ loop.next <= answer[loop.req].n + 1
    /\ loop' = [loop EXCEPT !.pc = "write", !.seen = restaurants]
    /\ UNCHANGED <<monitoring, reported, waiting, answer, delegateQueue,
                   restaurants, shown, screen, app>>

\* The append finds the array as it is now ...
ReadList ==
    /\ Running
    /\ loop.pc = "read"
    /\ loop.next <= answer[loop.req].n
    /\ loop' = [loop EXCEPT !.pc = "write", !.seen = restaurants]
    /\ UNCHANGED <<monitoring, reported, waiting, answer, delegateQueue,
                   restaurants, shown, screen, app>>

CurrentRow == [req |-> loop.req, idx |-> loop.next]

\* Mutation: each restaurant is inserted at the front.
InsertOutcomes == {<<CurrentRow>> \o restaurants}

\* What the array may hold after an append that found loop.seen there.
AppendOutcomes ==
    {Append(restaurants, CurrentRow)}
        \cup (IF "cleared" \in loop.raced
              THEN {restaurants, Append(loop.seen, CurrentRow)} ELSE {})

\* A copy taken in between may share the buffer that the append then extends.
CopyOutcomes ==
    {shown} \cup (IF "copied" \in loop.raced THEN {Append(shown, CurrentRow)} ELSE {})

NextItem == [loop EXCEPT !.pc = "read", !.next = @ + 1, !.seen = <<>>, !.raced = {}]

\* ... and stores the array with one more restaurant.
WriteList ==
    /\ Running
    /\ loop.pc = "write"
    /\ restaurants' \in AppendOutcomes
    /\ shown' \in CopyOutcomes
    /\ loop' = NextItem
    /\ UNCHANGED <<monitoring, reported, waiting, answer, delegateQueue, screen, app>>

\* The racing append touched a released buffer.
WriteReleasedList ==
    /\ Running
    /\ loop.pc = "write"
    /\ loop.raced # {}
    /\ app' = "crashed"
    /\ UNCHANGED <<monitoring, reported, waiting, answer, delegateQueue, loop,
                   restaurants, shown, screen>>

\* Mutation: the loop ends one restaurant late.
EndCompletionLate ==
    /\ Running
    /\ loop.pc = "read"
    /\ loop.next > answer[loop.req].n + 1
    /\ loop' = [loop EXCEPT !.pc = "idle"]
    /\ app' = IF answer[loop.req].bad THEN "crashed" ELSE app
    /\ UNCHANGED <<monitoring, reported, waiting, answer, delegateQueue,
                   restaurants, shown, screen>>

\* After the last usable restaurant: the handler returns, or traps on bad data.
EndCompletion ==
    /\ Running
    /\ loop.pc = "read"
    /\ loop.next > answer[loop.req].n
    /\ loop' = [loop EXCEPT !.pc = "idle"]
    /\ app' = IF answer[loop.req].bad THEN "crashed" ELSE app
    /\ UNCHANGED <<monitoring, reported, waiting, answer, delegateQueue,
                   restaurants, shown, screen>>

CompletionHandler ==
    BeginCompletion \/ ReadList \/ WriteList \/ WriteReleasedList \/ EndCompletion

-----------------------------------------------------------------------------
Next ==
    \/ \E status \in AuthorizationStatus : DidChangeAuthorization(status)
    \/ \E l \in Locations : DidUpdateLocations(l)
    \/ ShowButton
    \/ Prepare
    \/ \E row \in 1 .. Len(shown) : CellForRowWithoutImage(row)
    \/ \E r \in waiting, a \in AnswerType : Answer(r, a)
    \/ BeginCompletion
    \/ ReadList
    \/ WriteList
    \/ WriteReleasedList
    \/ EndCompletion

Spec == Init /\ [][Next]_vars

(* The network answers or times out every request, the delegate queue runs   *)
(* its handlers, and a segue once begun finishes.  The user and Core         *)
(* Location owe nothing.                                                     *)
Fairness ==
    /\ \A r \in Requests : WF_vars(\E a \in AnswerType : Answer(r, a))
    /\ WF_vars(CompletionHandler)
    /\ WF_vars(Prepare)

FairSpec == Spec /\ Fairness

-----------------------------------------------------------------------------
(* Properties *)

\* Every variable keeps its type, and no more requests exist than the bound.
TypeOK ==
    /\ monitoring \in BOOLEAN
    /\ reported \in Seq(Locations) /\ Len(reported) <= MaxUpdates
    /\ waiting \subseteq Requests
    /\ answer \in [Requests -> AnswerType]
    /\ delegateQueue \in Seq(Requests)
    /\ loop \in LoopType
    /\ restaurants \in Seq(Row)
    /\ shown \in Seq(Row)
    /\ screen \in {"location", "segue", "restaurants"}
    /\ app \in {"running", "crashed"}

\* showButton's count test still holds when prepare copies the list, whatever
\* the other thread did in between: the table is never opened empty.
ShownNonEmpty ==
    /\ screen = "segue" => restaurants # <<>>
    /\ screen = "restaurants" => shown # <<>>

\* Two neighbouring rows come from one answer and are consecutive in it, or
\* the first ends its answer and the second begins another.
Follows(x, y) ==
    IF x.req = y.req THEN y.idx = x.idx + 1
                     ELSE x.idx = answer[x.req].n /\ y.idx = 1

NoHolesIn(list) == \A i \in 1 .. Len(list) - 1 : Follows(list[i], list[i + 1])

\* Whatever fetches overlap and whatever appends race with the main thread,
\* the loop of fetchData leaves no gap, duplicate or mixture inside a list:
\* only a prefix can be missing, what fetchData's removeAll threw away.
NoHoles == NoHolesIn(restaurants) /\ NoHolesIn(shown)

InList(row, list) == \E i \in 1 .. Len(list) : list[i] = row

IsQueued(r) == \E i \in 1 .. Len(delegateQueue) : delegateQueue[i] = r

\* The completion handler of request r has started ...
Started(r) == r \in 1 .. Len(reported) /\ r \notin waiting /\ ~IsQueued(r)

IsRunning(r) == loop.pc # "idle" /\ loop.req = r

\* ... and has returned.
Handled(r) == Started(r) /\ ~IsRunning(r)

\* Once the latest request was handled all its restaurants are in the list,
\* and a late answer to an earlier request never takes them out again.
LatestResultsComplete ==
    Handled(Len(reported)) =>
        \A k \in 1 .. answer[Len(reported)].n :
            InList([req |-> Len(reported), idx |-> k], restaurants)

\* Every request is handled in the end, unless the app crashes first: no
\* completion handler waits for ever, and none loops for ever.
EveryRequestHandled ==
    \A r \in Requests : r <= Len(reported) ~> (Handled(r) \/ ~Running)

\* README.md:10, "Get restraurants whose location are close to the user": when
\* no request is outstanding, the list holds results for the last place only.
\* (Violated: an answer for an earlier place that arrives late is appended.)
NearbyOnly ==
    (Running /\ \A r \in 1 .. Len(reported) : Handled(r)) =>
        \A i \in 1 .. Len(restaurants) :
            reported[restaurants[i].req] = reported[Len(reported)]

-----------------------------------------------------------------------------
(* The inductive invariant.                                                  *)

\* A request is in one place at a time: waiting for the network, in the
\* delegate queue, in the running handler, or done.
Bookkeeping ==
    /\ waiting \subseteq 1 .. Len(reported)
    /\ \A i \in 1 .. Len(delegateQueue) :
           /\ delegateQueue[i] \in 1 .. Len(reported)
           /\ delegateQueue[i] \notin waiting
    /\ \A i, j \in 1 .. Len(delegateQueue) :
           delegateQueue[i] = delegateQueue[j] => i = j
    /\ loop.pc # "idle" =>
           /\ loop.req \in 1 .. Len(reported)
           /\ loop.req \notin waiting
           /\ \A i \in 1 .. Len(delegateQueue) : delegateQueue[i] # loop.req
           /\ loop.next <= answer[loop.req].n + 1
    /\ loop.pc = "write" => loop.next <= answer[loop.req].n

\* The rows of a list were put there by handlers, and by the running one only
\* up to the item it is at.
Past(list) ==
    \A i \in 1 .. Len(list) :
        /\ Started(list[i].req)
        /\ IsRunning(list[i].req) => list[i].idx < loop.next

\* The next row of the running handler can follow the list; with no handler
\* running the list ends with the last row of an answer.
Extensible(list) ==
    LET last == list[Len(list)] IN
    Len(list) > 0 =>
        IF loop.pc = "idle" THEN last.idx = answer[last.req].n
                            ELSE Follows(last, CurrentRow)

\* What keeps NoHoles: the list that an append will store is one it can
\* extend, whether that is the array as it is, the array the append found, or
\* the copy that shares its buffer.
Lists ==
    /\ Past(restaurants) /\ Past(shown)
    /\ NoHoles
    /\ Extensible(restaurants)
    /\ loop.pc # "write" => loop.raced = {}
    /\ loop.pc = "write" =>
           /\ Past(loop.seen) /\ NoHolesIn(loop.seen) /\ Extensible(loop.seen)
           /\ "cleared" \in loop.raced => restaurants = <<>>
           /\ "copied" \in loop.raced => Extensible(shown)

\* What keeps LatestResultsComplete: a removeAll that overtakes an append made
\* a request that cannot have started, so the handler of the latest request is
\* never overtaken, and its rows are there up to the item it is at.
Latest ==
    /\ "cleared" \in loop.raced => ~Started(Len(reported))
    /\ IsRunning(Len(reported)) =>
           \A k \in 1 .. loop.next - 1 :
               InList([req |-> Len(reported), idx |-> k], restaurants)
    /\ LatestResultsComplete

IInv == TypeOK /\ Bookkeeping /\ Lists /\ Latest /\ ShownNonEmpty
=============================================================================
