------------------------- MODULE RemoteStoreProofs -------------------------
(* Proofs of the safety properties of RemoteStore, for every set of users and *)
(* targets, every length of the pipeline, every threshold of failures and     *)
(* every bound.                                                               *)
EXTENDS RemoteStore, SequenceTheorems, TLAPS

-----------------------------------------------------------------------------
(* Streams                                                                     *)

LEMMA StreamTypes ==
    ASSUME NEW s \in Stream
    PROVE  /\ Start(s) \in Stream /\ Fail(s) \in Stream /\ Stop(s) \in Stream
           /\ InhibitBackoff(s) \in Stream /\ MarkIdle(s) \in Stream
           /\ CancelIdleCheck(s) \in Stream /\ OnStreamStart(s) \in Stream
           /\ BackoffElapsed(s) \in Stream
           /\ s.stale > 0 => [s EXCEPT !.stale = @ - 1] \in Stream
<1>1. \A g \in BOOLEAN : Close(s, g) \in Stream /\ Close([s EXCEPT !.token = FALSE], g) \in Stream
    BY DEF Close, Stream, StreamState
<1>2. Start(s) \in Stream /\ Fail(s) \in Stream /\ Stop(s) \in Stream
    BY <1>1 DEF Start, Fail, Stop, Stream, StreamState
<1>3. MarkIdle(s) \in Stream
    BY DEF MarkIdle, IsOpen, Stream
<1>4. InhibitBackoff(s) \in Stream /\ CancelIdleCheck(s) \in Stream
      /\ OnStreamStart(s) \in Stream /\ BackoffElapsed(s) \in Stream
    BY DEF InhibitBackoff, CancelIdleCheck, OnStreamStart, BackoffElapsed, Stream, StreamState
<1>5. s.stale > 0 => [s EXCEPT !.stale = @ - 1] \in Stream
    BY DEF Stream
<1> QED BY <1>2, <1>3, <1>4, <1>5

(* A stream that is not started can be started.                                *)
LEMMA StartFits ==
    ASSUME NEW s \in Stream, CallbackFits(s), ~IsStarted(s)
    PROVE  /\ CallbackFits(Start(s)) /\ IsStarted(Start(s)) /\ ~IsOpen(Start(s))
           /\ ~Start(s).idle
BY DEF Stream, StreamState, CallbackFits, Start, IsStarted, IsOpen

LEMMA CloseFits ==
    ASSUME NEW s \in Stream, CallbackFits(s)
    PROVE  /\ CallbackFits(Fail(s)) /\ ~IsStarted(Fail(s)) /\ ~IsOpen(Fail(s)) /\ ~Fail(s).idle
           /\ CallbackFits(Stop(s)) /\ ~IsStarted(Stop(s)) /\ ~IsOpen(Stop(s)) /\ ~Stop(s).idle
           /\ ~IsStarted(s) => /\ CallbackFits(InhibitBackoff(s)) /\ ~IsStarted(InhibitBackoff(s))
                               /\ ~IsOpen(InhibitBackoff(s)) /\ ~InhibitBackoff(s).idle
BY DEF Stream, StreamState, CallbackFits, Fail, Stop, Close, InhibitBackoff, IsStarted, IsOpen

LEMMA IdleFits ==
    ASSUME NEW s \in Stream, CallbackFits(s)
    PROVE  /\ CallbackFits(MarkIdle(s)) /\ CallbackFits(CancelIdleCheck(s))
           /\ MarkIdle(s).state = s.state /\ CancelIdleCheck(s).state = s.state
           /\ ~CancelIdleCheck(s).idle
           /\ MarkIdle(s).idle => IsOpen(s)
BY DEF Stream, StreamState, CallbackFits, MarkIdle, CancelIdleCheck, IsOpen

LEMMA TimersFit ==
    ASSUME NEW s \in Stream, CallbackFits(s)
    PROVE  /\ s.token => /\ CallbackFits(OnStreamStart(s)) /\ IsOpen(OnStreamStart(s))
                         /\ ~OnStreamStart(s).idle /\ s.state = "Starting"
           /\ s.backoff => /\ CallbackFits(BackoffElapsed(s)) /\ IsStarted(BackoffElapsed(s))
                           /\ ~IsOpen(BackoffElapsed(s)) /\ ~BackoffElapsed(s).idle
                           /\ s.state = "Backoff"
BY DEF Stream, StreamState, CallbackFits, OnStreamStart, BackoffElapsed, IsStarted, IsOpen

LEMMA NewStreamFits ==
    /\ NewStream \in Stream /\ CallbackFits(NewStream)
    /\ ~IsStarted(NewStream) /\ ~IsOpen(NewStream) /\ ~NewStream.idle
BY DEF NewStream, Stream, StreamState, CallbackFits, IsStarted, IsOpen

-----------------------------------------------------------------------------
(* The online state tracker                                                    *)

Sound(o) ==
    /\ o.timer => o.state = "Unknown" /\ o.failures < MaxWatchStreamFailures
    /\ o.state = "Online" => o.failures = 0

LEMMA TrackerFacts ==
    ASSUME NEW o \in Tracker, Sound(o)
    PROVE  /\ \A new \in OnlineState :
                 /\ UpdateState(new) \in Tracker /\ Sound(UpdateState(new))
                 /\ ~UpdateState(new).timer
           /\ HandleWatchStreamStart(o) \in Tracker /\ Sound(HandleWatchStreamStart(o))
           /\ HandleWatchStreamFailure(o) \in Tracker /\ Sound(HandleWatchStreamFailure(o))
           /\ [o EXCEPT !.state = "Offline", !.timer = FALSE] \in Tracker
           /\ Sound([o EXCEPT !.state = "Offline", !.timer = FALSE])
<1>1. MaxWatchStreamFailures \in Nat /\ MaxWatchStreamFailures > 0
    BY RemoteStoreAssumption
<1>2. \A new \in OnlineState :
          /\ UpdateState(new) \in Tracker /\ Sound(UpdateState(new)) /\ ~UpdateState(new).timer
    BY <1>1 DEF UpdateState, Tracker, OnlineState, Sound
<1>3. HandleWatchStreamStart(o) \in Tracker /\ Sound(HandleWatchStreamStart(o))
    BY <1>1 DEF HandleWatchStreamStart, Tracker, OnlineState, Sound
<1>4. HandleWatchStreamFailure(o) \in Tracker /\ Sound(HandleWatchStreamFailure(o))
    BY <1>1 DEF HandleWatchStreamFailure, Tracker, OnlineState, Sound
<1>5. /\ [o EXCEPT !.state = "Offline", !.timer = FALSE] \in Tracker
      /\ Sound([o EXCEPT !.state = "Offline", !.timer = FALSE])
    BY <1>1 DEF Tracker, OnlineState, Sound
<1> QED BY <1>2, <1>3, <1>4, <1>5

-----------------------------------------------------------------------------
(* Sequences                                                                   *)

LEMMA MinFacts ==
    ASSUME NEW a \in Int, NEW b \in Int
    PROVE  Min({a, b}) = IF a <= b THEN a ELSE b
BY DEF Min

Ascends(q) == \A i, j \in 1 .. Len(q) : i < j => q[i] < q[j]

\* How much of a queue the pipeline holds.
Room(q) == Min({MaxPendingWrites, Len(q)})

LEMMA RoomFacts ==
    ASSUME NEW q \in Seq(Batch)
    PROVE  /\ Room(q) \in 0 .. Len(q) /\ Room(q) <= MaxPendingWrites
           /\ Room(q) = IF MaxPendingWrites <= Len(q) THEN MaxPendingWrites ELSE Len(q)
           /\ q # <<>> => Room(q) > 0
           /\ Len(q) \in Nat
BY RemoteStoreAssumption, MinFacts, LenProperties, EmptySeq DEF Room

LEMMA FrontOfQueue ==
    ASSUME NEW q \in Seq(Batch), NEW n \in 0 .. Len(q)
    PROVE  /\ SubSeq(q, 1, n) \in Seq(Batch) /\ Len(SubSeq(q, 1, n)) = n
           /\ \A i \in 1 .. n : SubSeq(q, 1, n)[i] = q[i]
           /\ SubSeq(q, 1, n) = <<>> <=> n = 0
<1>1. n \in Int /\ Len(q) \in Nat /\ \A i \in 1 .. n : q[i] \in Batch
    BY LenProperties, ElementOfSeq
<1>2. /\ SubSeq(q, 1, n) \in Seq(Batch) /\ Len(SubSeq(q, 1, n)) = n
      /\ \A i \in 1 .. n : SubSeq(q, 1, n)[i] = q[i]
    BY <1>1, SubSeqProperties
<1> QED BY <1>2, EmptySeq

(* The pipeline is filled with what follows it.                                *)
LEMMA NextFacts ==
    ASSUME NEW q \in Seq(Batch), Ascends(q), NEW n \in 0 .. Room(q)
    PROVE  LET p == SubSeq(q, 1, n) IN
           /\ NextBatches(q, p) \in Seq(Batch)
           /\ p \o NextBatches(q, p) = SubSeq(q, 1, Room(q))
<1> DEFINE p == SubSeq(q, 1, n)
<1>1. /\ Len(q) \in Nat /\ n \in 0 .. Len(q) /\ Room(q) \in n .. Len(q)
      /\ MaxPendingWrites \in Nat /\ \A i \in 1 .. Len(q) : q[i] \in Int
    BY RoomFacts, RemoteStoreAssumption, LenProperties, ElementOfSeq DEF Batch
<1>2. p \in Seq(Batch) /\ Len(p) = n /\ (p = <<>> <=> n = 0) /\ \A i \in 1 .. n : p[i] = q[i]
    BY <1>1, FrontOfQueue
<1>3. Passed(q, p) = n
    <2>1. CASE n = 0
        BY <1>2, <2>1 DEF Passed
    <2>2. CASE n # 0
        <3> DEFINE Good(k) == \A i \in 1 .. Len(q) : i <= k <=> q[i] <= Last(p)
        <3>1. Last(p) = q[n] /\ n \in 1 .. Len(q)
            BY <1>1, <1>2, <2>2 DEF Last
        <3>2. Good(n)
            BY <1>1, <3>1 DEF Ascends
        <3>3. \A k \in 0 .. Len(q) : Good(k) => k = n
            <4>1. SUFFICES ASSUME NEW k \in 0 .. Len(q), Good(k) PROVE k = n
                OBVIOUS
            <4>2. \A i \in 1 .. Len(q) : i <= k <=> i <= n
                BY <3>2, <4>1
            <4>3. ~ k < n
                BY <1>1, <3>1, <4>2
            <4>4. ~ n < k
                BY <1>1, <4>2
            <4> QED BY <1>1, <4>3, <4>4
        <3>4. Passed(q, p) = CHOOSE k \in 0 .. Len(q) : Good(k)
            BY <1>2, <2>2 DEF Passed
        <3>5. n \in 0 .. Len(q)
            BY <1>1
        <3> HIDE DEF Good
        <3> QED BY <3>2, <3>3, <3>4, <3>5
    <2> QED BY <2>1, <2>2
<1>4. NextBatches(q, p) = SubSeq(q, n + 1, Room(q))
    <2>1. Passed(q, p) + MaxPendingWrites - Len(p) = MaxPendingWrites
        BY <1>1, <1>2, <1>3
    <2> QED BY <1>3, <2>1 DEF NextBatches, Room
<1>5. p \o SubSeq(q, n + 1, Room(q)) = SubSeq(q, 1, Room(q))
    <2>1. 1 \in 1 .. Len(q) + 1 /\ n \in 1 - 1 .. Len(q)
        BY <1>1
    <2> QED BY <1>1, <2>1, ConcatAdjacentSubSeq
<1>6. SubSeq(q, n + 1, Room(q)) \in Seq(Batch)
    BY <1>1, SubSeqProperties, ElementOfSeq
<1> QED BY <1>4, <1>5, <1>6

(* What FillWritePipeline leaves behind, when the pipeline p is the front of   *)
(* the queue q.                                                                *)
Filled(q, p, s, w, added) ==
    /\ pipeline' = p \o added /\ pipeline' = SubSeq(q, 1, Room(q))
    /\ pipeline' \in Seq(Batch)
    /\ sent' = IF IsOpen(s) /\ handshake THEN w \o added ELSE w
    /\ write' \in Stream /\ CallbackFits(write')
    /\ IsOpen(write') <=> IsOpen(s)
    /\ q # <<>> => IsStarted(write')
    /\ write'.idle => pipeline' = <<>> /\ IsOpen(s)

LEMMA FillFacts ==
    ASSUME NEW q \in Seq(Batch), Ascends(q), NEW n \in 0 .. Room(q),
           NEW p, p = SubSeq(q, 1, n),
           NEW s \in Stream, CallbackFits(s), s.idle => p = <<>> /\ handshake,
           NEW w, FillWritePipeline(q, p, s, w)
    PROVE  \E added \in Seq(Batch) : Filled(q, p, s, w, added)
<1> DEFINE added == NextBatches(q, p)
           ready == IsOpen(s) /\ handshake
           busy == CASE p \o added = <<>> -> MarkIdle(s)
                     [] added # <<>> /\ ready -> CancelIdleCheck(s)
                     [] OTHER -> s
<1>1. /\ added \in Seq(Batch) /\ p \o added = SubSeq(q, 1, Room(q))
      /\ p \in Seq(Batch) /\ p \o added \in Seq(Batch)
    <2>1. added \in Seq(Batch) /\ p \o added = SubSeq(q, 1, Room(q))
        BY NextFacts
    <2>2. n \in 0 .. Len(q) /\ Room(q) \in 0 .. Len(q)
        BY RoomFacts
    <2> QED BY <2>1, <2>2, FrontOfQueue
<1>2. /\ pipeline' = p \o added
      /\ sent' = IF ready THEN w \o added ELSE w
      /\ write' = IF p \o added # <<>> /\ ~IsStarted(busy) THEN Start(busy) ELSE busy
    BY DEF FillWritePipeline
<1>3. p \o added = <<>> <=> p = <<>> /\ added = <<>>
    BY <1>1, ConcatEqualIffEmpty
<1>4. q # <<>> => p \o added # <<>>
    <2>1. Room(q) \in 0 .. Len(q) /\ (q # <<>> => Room(q) # 0)
        BY RoomFacts
    <2> QED BY <1>1, <2>1, FrontOfQueue
<1>5. /\ busy \in Stream /\ CallbackFits(busy)
      /\ busy.state = s.state
      /\ busy.idle => p \o added = <<>> /\ IsOpen(s)
    <2>1. CASE p \o added = <<>>
        <3>1. busy = MarkIdle(s)
            BY <2>1
        <3> QED BY <2>1, <3>1, StreamTypes, IdleFits
    <2>2. CASE p \o added # <<>> /\ added # <<>> /\ ready
        <3>1. busy = CancelIdleCheck(s)
            BY <2>2
        <3> QED BY <3>1, StreamTypes, IdleFits
    <2>3. CASE p \o added # <<>> /\ ~(added # <<>> /\ ready)
        <3>1. busy = s
            BY <2>3
        <3>2. ~s.idle
            BY <1>3, <2>3 DEF CallbackFits
        <3> QED BY <3>1, <3>2
    <2> QED BY <2>1, <2>2, <2>3
<1> HIDE DEF added, busy
<1>6. /\ write' \in Stream /\ CallbackFits(write')
      /\ IsOpen(write') <=> IsOpen(s)
      /\ q # <<>> => IsStarted(write')
      /\ write'.idle => p \o added = <<>> /\ IsOpen(s)
    <2>1. CASE p \o added # <<>> /\ ~IsStarted(busy)
        <3>1. write' = Start(busy)
            BY <1>2, <2>1
        <3>2. ~IsOpen(s)
            BY <1>5, <2>1 DEF IsOpen, IsStarted
        <3> QED BY <1>5, <2>1, <3>1, <3>2, StreamTypes, StartFits
    <2>2. CASE ~(p \o added # <<>> /\ ~IsStarted(busy))
        <3>1. write' = busy
            BY <1>2, <2>2
        <3> QED BY <1>4, <1>5, <2>2, <3>1 DEF IsOpen
    <2> QED BY <2>1, <2>2
<1> QED BY <1>1, <1>2, <1>6 DEF Filled

-----------------------------------------------------------------------------
(* The streams share only the queues: the invariant splits in three.           *)

WatchInv ==
    /\ watch \in Stream /\ CallbackFits(watch)
    /\ online \in Tracker /\ Sound(online)
    /\ listenTargets \subseteq Targets /\ watched \subseteq Targets
    /\ watch.idle => listenTargets = {}
    /\ listenTargets # {} => IsStarted(watch)
    /\ online.timer => IsStarted(watch)
    /\ IsOpen(watch) => watched = listenTargets

QueueInv ==
    /\ user \in Users /\ queue \in [Users -> Seq(Batch)]
    /\ nextBatch \in 1 .. MaxWrites + 1 /\ restarts \in 0 .. MaxRestarts
    /\ QueuesAscend

\* What is under way on the write stream.
Wire(s, h, p) == CASE ~IsOpen(s) -> <<>>
                   [] IsOpen(s) /\ ~h -> <<Handshake>>
                   [] OTHER -> p

WriteInv ==
    /\ write \in Stream /\ CallbackFits(write)
    /\ handshake \in BOOLEAN
    /\ handshake => IsOpen(write)
    /\ sent \in Seq(Batch \cup {Handshake}) /\ answers \in Seq(Batch \cup {Handshake})
    /\ answers \o sent = Wire(write, handshake, pipeline)
    /\ pipeline \in Seq(Batch) /\ pipeline = SubSeq(queue[user], 1, Room(queue[user]))
    /\ write.idle => pipeline = <<>> /\ handshake
    /\ queue[user] # <<>> => IsStarted(write)

LEMMA InvSplits == IInv <=> WatchInv /\ QueueInv /\ WriteInv
<1>1. IInv => WatchInv
    BY DEF IInv, TypeOK, CallbacksFit, StreamsRunWhenNeeded, TimerOnlyWhileUnknown,
           WatchesWhatIsListenedTo, WatchInv, Sound
<1>2. IInv => QueueInv
    BY DEF IInv, TypeOK, QueueInv
<1>3. IInv => WriteInv
    BY DEF IInv, TypeOK, CallbacksFit, StreamsRunWhenNeeded, IdleAfterHandshake,
           WireMatchesPipeline, WriteInv, Wire, Room
<1>4. WatchInv /\ QueueInv /\ WriteInv => TypeOK /\ QueuesAscend /\ IdleAfterHandshake
    <2>1. WatchInv /\ QueueInv /\ WriteInv => TypeOK
        BY DEF TypeOK, WatchInv, QueueInv, WriteInv
    <2>2. QueueInv => QueuesAscend
        BY DEF QueueInv
    <2>3. WriteInv => IdleAfterHandshake
        BY DEF IdleAfterHandshake, WriteInv
    <2> QED BY <2>1, <2>2, <2>3
<1>5. WatchInv /\ QueueInv /\ WriteInv => CallbacksFit /\ StreamsRunWhenNeeded
    BY DEF CallbacksFit, StreamsRunWhenNeeded, WatchInv, WriteInv
<1>6. WatchInv => TimerOnlyWhileUnknown /\ WatchesWhatIsListenedTo
    BY DEF TimerOnlyWhileUnknown, WatchesWhatIsListenedTo, WatchInv, Sound
<1>7. WriteInv => WireMatchesPipeline
    BY DEF WireMatchesPipeline, WriteInv, Wire, Room
<1> QED BY <1>1, <1>2, <1>3, <1>4, <1>5, <1>6, <1>7 DEF IInv

-----------------------------------------------------------------------------
(* The watch stream and the online state                                       *)

LEMMA WatchStarts ==
    ASSUME NEW s \in Stream, CallbackFits(s), ~IsStarted(s),
           NEW o \in Tracker, Sound(o), StartWatchStream(s, o)
    PROVE  /\ watch' \in Stream /\ CallbackFits(watch')
           /\ IsStarted(watch') /\ ~IsOpen(watch') /\ ~watch'.idle
           /\ online' \in Tracker /\ Sound(online')
BY StreamTypes, StartFits, TrackerFacts DEF StartWatchStream

LEMMA ListenKeeps ==
    ASSUME WatchInv, NEW t \in Targets, Listen(t)
    PROVE  WatchInv'
<1>1. CASE ~IsStarted(watch) /\ StartWatchStream(watch, online) /\ UNCHANGED watched
    <2>1. listenTargets' = listenTargets \cup {t}
        BY DEF Listen
    <2> QED BY <1>1, <2>1, WatchStarts DEF WatchInv
<1>2. CASE /\ IsOpen(watch) /\ watch' = CancelIdleCheck(watch)
           /\ watched' = watched \cup {t} /\ UNCHANGED online
    <2>1. listenTargets' = listenTargets \cup {t}
        BY DEF Listen
    <2>2. IsOpen(watch') /\ IsStarted(watch')
        BY <1>2, IdleFits DEF WatchInv, IsOpen, IsStarted
    <2> QED BY <1>2, <2>1, <2>2, StreamTypes, IdleFits DEF WatchInv
<1>3. CASE IsStarted(watch) /\ ~IsOpen(watch) /\ UNCHANGED <<watch, watched, online>>
    <2>1. listenTargets' = listenTargets \cup {t}
        BY DEF Listen
    <2>2. ~watch.idle
        BY <1>3 DEF WatchInv, CallbackFits
    <2> QED BY <1>3, <2>1, <2>2 DEF WatchInv
<1> QED BY <1>1, <1>2, <1>3 DEF Listen

LEMMA StopListeningKeeps ==
    ASSUME WatchInv, NEW t \in Targets, StopListening(t)
    PROVE  WatchInv'
<1>1. listenTargets' = listenTargets \ {t} /\ t \in listenTargets
    BY DEF StopListening
<1>2. CASE IsOpen(watch)
    <2>1. /\ watch' = IF listenTargets' = {} THEN MarkIdle(CancelIdleCheck(watch))
                                             ELSE CancelIdleCheck(watch)
          /\ watched' = watched \ {t} /\ UNCHANGED online
        BY <1>2 DEF StopListening
    <2>2. CancelIdleCheck(watch) \in Stream /\ CallbackFits(CancelIdleCheck(watch))
          /\ ~CancelIdleCheck(watch).idle /\ CancelIdleCheck(watch).state = watch.state
        BY StreamTypes, IdleFits DEF WatchInv
    <2>3. /\ watch' \in Stream /\ CallbackFits(watch') /\ watch'.state = watch.state
          /\ watch'.idle => listenTargets' = {}
        BY <2>1, <2>2, StreamTypes, IdleFits
    <2>4. IsOpen(watch') /\ IsStarted(watch')
        BY <1>2, <2>3 DEF IsOpen, IsStarted
    <2> QED BY <1>1, <1>2, <2>1, <2>3, <2>4 DEF WatchInv
<1>3. CASE ~IsOpen(watch)
    <2>1. /\ online' = IF listenTargets' = {} THEN UpdateState("Unknown") ELSE online
          /\ UNCHANGED <<watch, watched>>
        BY <1>3 DEF StopListening
    <2>2. /\ online' \in Tracker /\ Sound(online')
          /\ online'.timer => online' = online
        BY <2>1, TrackerFacts DEF WatchInv, OnlineState
    <2>3. ~watch.idle
        BY <1>3 DEF WatchInv, CallbackFits
    <2> QED BY <1>1, <1>3, <2>1, <2>2, <2>3 DEF WatchInv
<1> QED BY <1>2, <1>3

(* Both streams are stopped and what is needed is started again.               *)
LEMMA RestartNetworkKeeps ==
    ASSUME WatchInv, NEW q, RestartNetwork(q)
    PROVE  WatchInv'
<1>1. /\ watched' = {} /\ listenTargets' = listenTargets
      /\ IF listenTargets = {}
         THEN watch' = InhibitBackoff(Stop(watch)) /\ online' = UpdateState("Unknown")
         ELSE StartWatchStream(InhibitBackoff(Stop(watch)), UpdateState("Unknown"))
    BY DEF RestartNetwork
<1> DEFINE s == InhibitBackoff(Stop(watch))
<1>2. /\ s \in Stream /\ CallbackFits(s)
      /\ ~IsStarted(s) /\ ~IsOpen(s) /\ ~s.idle
    <2>1. Stop(watch) \in Stream /\ CallbackFits(Stop(watch)) /\ ~IsStarted(Stop(watch))
        BY StreamTypes, CloseFits DEF WatchInv
    <2> QED BY <2>1, StreamTypes, CloseFits
<1>3. /\ UpdateState("Unknown") \in Tracker /\ Sound(UpdateState("Unknown"))
      /\ ~UpdateState("Unknown").timer
    BY TrackerFacts DEF WatchInv, OnlineState
<1> HIDE DEF s
<1>4. CASE listenTargets = {}
    <2>1. watch' = s /\ online' = UpdateState("Unknown")
        BY <1>1, <1>4 DEF s
    <2> QED BY <1>1, <1>2, <1>3, <1>4, <2>1 DEF WatchInv
<1>5. CASE listenTargets # {}
    <2>1. StartWatchStream(s, UpdateState("Unknown"))
        BY <1>1, <1>5 DEF s
    <2> QED BY <1>1, <1>2, <1>3, <2>1, WatchStarts DEF WatchInv
<1> QED BY <1>4, <1>5

LEMMA WatchFailsKeeps ==
    ASSUME WatchInv, WatchFails
    PROVE  WatchInv'
<1>1. watched' = {} /\ listenTargets' = listenTargets
    BY DEF WatchFails
<1>2. /\ Fail(watch) \in Stream /\ CallbackFits(Fail(watch))
      /\ ~IsStarted(Fail(watch)) /\ ~IsOpen(Fail(watch)) /\ ~Fail(watch).idle
    BY StreamTypes, CloseFits DEF WatchInv
<1>3. CASE listenTargets # {} /\ StartWatchStream(Fail(watch), HandleWatchStreamFailure(online))
    <2>1. HandleWatchStreamFailure(online) \in Tracker /\ Sound(HandleWatchStreamFailure(online))
        BY TrackerFacts DEF WatchInv
    <2> QED BY <1>1, <1>2, <1>3, <2>1, WatchStarts DEF WatchInv
<1>4. CASE listenTargets = {} /\ watch' = Fail(watch) /\ online' = UpdateState("Unknown")
    <2>1. online' \in Tracker /\ Sound(online') /\ ~online'.timer
        BY <1>4, TrackerFacts DEF WatchInv, OnlineState
    <2> QED BY <1>1, <1>2, <1>4, <2>1 DEF WatchInv
<1> QED BY <1>3, <1>4 DEF WatchFails

LEMMA WatchStep == WatchInv /\ [Next]_vars => WatchInv'
<1> SUFFICES ASSUME WatchInv, [Next]_vars PROVE WatchInv'
    OBVIOUS
<1>1. ASSUME NEW t \in Targets, Listen(t) PROVE WatchInv'
    BY <1>1, ListenKeeps
<1>2. ASSUME NEW t \in Targets, StopListening(t) PROVE WatchInv'
    BY <1>2, StopListeningKeeps
<1>3. CASE WatchOpens
    <2>1. /\ watch' = OnStreamStart(watch) /\ watch.token
          /\ watched' = listenTargets /\ UNCHANGED <<listenTargets, online>>
        BY <1>3 DEF WatchOpens
    <2>2. watch' \in Stream /\ CallbackFits(watch') /\ IsOpen(watch') /\ ~watch'.idle
        BY <2>1, StreamTypes, TimersFit DEF WatchInv
    <2>3. IsStarted(watch')
        BY <2>2 DEF IsOpen, IsStarted
    <2> QED BY <2>1, <2>2, <2>3 DEF WatchInv
<1>4. CASE WatchFails
    BY <1>4, WatchFailsKeeps
<1>5. CASE WatchIdles
    <2>1. /\ watch' = Stop(watch) /\ watch.idle
          /\ watched' = {} /\ listenTargets' = listenTargets
          /\ online' = UpdateState("Unknown")
        BY <1>5 DEF WatchIdles
    <2>2. watch' \in Stream /\ CallbackFits(watch') /\ ~IsOpen(watch') /\ ~watch'.idle
        BY <2>1, StreamTypes, CloseFits DEF WatchInv
    <2>3. online' \in Tracker /\ Sound(online') /\ ~online'.timer
        BY <2>1, TrackerFacts DEF WatchInv, OnlineState
    <2> QED BY <2>1, <2>2, <2>3 DEF WatchInv
<1>6. CASE WatchBackoffElapses
    <2>1. watch' = BackoffElapsed(watch) /\ watch.backoff /\ UNCHANGED <<listenTargets, watched, online>>
        BY <1>6 DEF WatchBackoffElapses
    <2>2. /\ watch' \in Stream /\ CallbackFits(watch')
          /\ IsStarted(watch') /\ ~IsOpen(watch') /\ ~watch'.idle
        BY <2>1, StreamTypes, TimersFit DEF WatchInv
    <2> QED BY <2>1, <2>2 DEF WatchInv
<1>7. CASE OnWatchStreamChange
    <2>1. online' = UpdateState("Online") /\ UNCHANGED <<watch, listenTargets, watched>>
        BY <1>7 DEF OnWatchStreamChange
    <2>2. online' \in Tracker /\ Sound(online') /\ ~online'.timer
        BY <2>1, TrackerFacts DEF WatchInv, OnlineState
    <2> QED BY <2>1, <2>2 DEF WatchInv
<1>8. ASSUME NEW t \in Targets, ProcessTargetError(t) PROVE WatchInv'
    <2>1. /\ online' = UpdateState("Online") /\ UNCHANGED watch
          /\ listenTargets' = listenTargets \ {t} /\ watched' = watched \ {t}
        BY <1>8 DEF ProcessTargetError
    <2>2. online' \in Tracker /\ Sound(online') /\ ~online'.timer
        BY <2>1, TrackerFacts DEF WatchInv, OnlineState
    <2> QED BY <2>1, <2>2 DEF WatchInv
<1>9. CASE OnlineStateTimeout
    <2>1. /\ online' = [online EXCEPT !.state = "Offline", !.timer = FALSE]
          /\ UNCHANGED <<watch, listenTargets, watched>>
        BY <1>9 DEF OnlineStateTimeout
    <2>2. online' \in Tracker /\ Sound(online')
        BY <2>1, TrackerFacts DEF WatchInv
    <2>3. ~online'.timer
        BY <2>1 DEF WatchInv, Tracker
    <2> QED BY <2>1, <2>2, <2>3 DEF WatchInv
<1>10. CASE StaleToken
    <2>1. CASE watch.stale > 0 /\ watch' = [watch EXCEPT !.stale = @ - 1]
               /\ UNCHANGED <<listenTargets, watched, online>>
        <3>1. watch' \in Stream
            BY <2>1, StreamTypes DEF WatchInv
        <3>2. /\ watch'.state = watch.state /\ watch'.token = watch.token
              /\ watch'.backoff = watch.backoff /\ watch'.idle = watch.idle
            BY <2>1 DEF WatchInv, Stream
        <3>3. CallbackFits(watch')
            BY <3>2 DEF WatchInv, CallbackFits, IsOpen
        <3> QED BY <2>1, <3>1, <3>2, <3>3 DEF WatchInv, IsOpen, IsStarted
    <2>2. CASE UNCHANGED watchVars
        BY <2>2 DEF watchVars, WatchInv
    <2> QED BY <1>10, <2>1, <2>2 DEF StaleToken
<1>11. CASE ConnectivityChange
    BY <1>11, RestartNetworkKeeps DEF ConnectivityChange
<1>12. ASSUME NEW u \in Users, HandleCredentialChange(u) PROVE WatchInv'
    BY <1>12, RestartNetworkKeeps DEF HandleCredentialChange
<1>13. CASE Restart
    <2>1. /\ watch' = NewStream /\ listenTargets' = {} /\ watched' = {}
          /\ online' = UpdateState("Unknown")
        BY <1>13 DEF Restart
    <2>2. online' \in Tracker /\ Sound(online') /\ ~online'.timer
        BY <2>1, TrackerFacts DEF WatchInv, OnlineState
    <2> QED BY <2>1, <2>2, NewStreamFits DEF WatchInv
<1>14. CASE UNCHANGED watchVars
    BY <1>14 DEF watchVars, WatchInv
<1> QED BY <1>1, <1>2, <1>3, <1>4, <1>5, <1>6, <1>7, <1>8, <1>9, <1>10, <1>11, <1>12, <1>13, <1>14
     DEF Next, vars, watchVars, WriteMutations, WriteOpens, WriteBackoffElapses, BackendAnswers,
         OnWriteStreamHandshakeComplete, OnWriteStreamMutationResult, WriteFails,
         HandleWriteError, WriteIdles

-----------------------------------------------------------------------------
(* The queues                                                                  *)

(* The app's batch goes to the end of the queue.                               *)
LEMMA AppendedQueue ==
    ASSUME QueueInv, nextBatch <= MaxWrites,
           queue' = [queue EXCEPT ![user] = Append(@, nextBatch)]
    PROVE  /\ queue' \in [Users -> Seq(Batch)]
           /\ \A u \in Users : u # user => queue'[u] = queue[u]
           /\ queue'[user] \in Seq(Batch)
           /\ Len(queue'[user]) = Len(queue[user]) + 1
           /\ \A i \in 1 .. Len(queue[user]) : queue'[user][i] = queue[user][i]
           /\ queue'[user][Len(queue[user]) + 1] = nextBatch
           /\ Ascends(queue'[user])
<1>1. /\ user \in Users /\ queue \in [Users -> Seq(Batch)] /\ queue[user] \in Seq(Batch)
      /\ nextBatch \in Batch /\ Len(queue[user]) \in Nat
      /\ \A i \in 1 .. Len(queue[user]) : queue[user][i] \in Nat /\ queue[user][i] < nextBatch
      /\ Ascends(queue[user])
    <2>1. user \in Users /\ queue \in [Users -> Seq(Batch)] /\ queue[user] \in Seq(Batch)
        BY DEF QueueInv
    <2>2. nextBatch \in Batch
        BY RemoteStoreAssumption DEF QueueInv, Batch
    <2>3. \A i \in 1 .. Len(queue[user]) : queue[user][i] \in Nat
        BY <2>1, ElementOfSeq, RemoteStoreAssumption DEF Batch
    <2> QED BY <2>1, <2>2, <2>3, LenProperties DEF QueueInv, QueuesAscend, Ascends
<1>2. /\ queue'[user] = Append(queue[user], nextBatch)
      /\ \A u \in Users : u # user => queue'[u] = queue[u]
    BY <1>1
<1>3. /\ queue'[user] \in Seq(Batch)
      /\ Len(queue'[user]) = Len(queue[user]) + 1
      /\ \A i \in 1 .. Len(queue[user]) : queue'[user][i] = queue[user][i]
      /\ queue'[user][Len(queue[user]) + 1] = nextBatch
    BY <1>1, <1>2, AppendProperties
<1>4. queue' \in [Users -> Seq(Batch)]
    BY <1>1, <1>3
<1>5. Ascends(queue'[user])
    <2>1. SUFFICES ASSUME NEW i \in 1 .. Len(queue[user]) + 1, NEW j \in 1 .. Len(queue[user]) + 1, i < j
                   PROVE  queue'[user][i] < queue'[user][j]
        BY <1>3 DEF Ascends
    <2>2. i \in 1 .. Len(queue[user])
        BY <1>1, <2>1
    <2>3. CASE j = Len(queue[user]) + 1
        BY <1>1, <1>3, <2>2, <2>3
    <2>4. CASE j \in 1 .. Len(queue[user])
        BY <1>1, <1>3, <2>1, <2>2, <2>4 DEF Ascends
    <2> QED BY <1>1, <2>3, <2>4
<1> QED BY <1>2, <1>3, <1>4, <1>5

(* The batch at the front of the pipeline is the one at the front of its queue,*)
(* and both move on by one.                                                    *)
LEMMA RemovedFront ==
    ASSUME QueueInv, WriteInv, pipeline # <<>>, RemoveBatch(Head(pipeline))
    PROVE  /\ queue[user] # <<>> /\ Head(pipeline) = Head(queue[user])
           /\ queue'[user] = Tail(queue[user])
           /\ \A u \in Users : u # user => queue'[u] = queue[u]
           /\ queue' \in [Users -> Seq(Batch)]
           /\ queue'[user] \in Seq(Batch) /\ Ascends(queue'[user])
           /\ \A i \in 1 .. Len(queue'[user]) : queue'[user][i] < nextBatch
           /\ Len(queue'[user]) = Len(queue[user]) - 1
           /\ \E n \in 0 .. Room(queue'[user]) : Tail(pipeline) = SubSeq(queue'[user], 1, n)
<1> DEFINE q == queue[user]
<1>1. /\ user \in Users /\ queue \in [Users -> Seq(Batch)] /\ q \in Seq(Batch)
      /\ Len(q) \in Nat /\ \A i \in 1 .. Len(q) : q[i] \in Nat
      /\ Ascends(q) /\ \A i \in 1 .. Len(q) : q[i] < nextBatch
    <2>1. user \in Users /\ queue \in [Users -> Seq(Batch)] /\ q \in Seq(Batch)
        BY DEF QueueInv
    <2>2. \A i \in 1 .. Len(q) : q[i] \in Nat
        BY <2>1, ElementOfSeq, RemoteStoreAssumption DEF Batch
    <2> QED BY <2>1, <2>2, LenProperties DEF QueueInv, QueuesAscend, Ascends
<1>2. Room(q) \in 0 .. Len(q) /\ pipeline = SubSeq(q, 1, Room(q))
    BY <1>1, RoomFacts DEF WriteInv
<1>3. Room(q) \in 1 .. Len(q) /\ 1 \in 1 .. Len(q) /\ q # <<>>
    <2>1. Room(q) # 0
        BY <1>1, <1>2, FrontOfQueue
    <2> QED BY <1>1, <1>2, <2>1
<1>4. Head(pipeline) = q[1] /\ Head(q) = q[1] /\ Tail(pipeline) = SubSeq(q, 2, Room(q))
    BY <1>1, <1>2, <1>3, HeadTailOfSubSeq
<1>5. PICK i \in 1 .. Len(q) : q[i] = q[1] /\ queue' = [queue EXCEPT ![user] = RemoveAt(q, i)]
    BY <1>4 DEF RemoveBatch
<1>6. i = 1
    BY <1>1, <1>3, <1>5 DEF Ascends
<1>7. RemoveAt(q, 1) = Tail(q)
    <2>1. SubSeq(q, 1, 0) = <<>>
        BY SubSeqEmpty
    <2>2. SubSeq(q, 2, Len(q)) = Tail(q) /\ Tail(q) \in Seq(Batch)
        BY <1>1, <1>3, TailIsSubSeq, HeadTailProperties
    <2>3. RemoveAt(q, 1) = SubSeq(q, 1, 0) \o SubSeq(q, 2, Len(q))
        BY DEF RemoveAt
    <2> QED BY <2>1, <2>2, <2>3, ConcatEmptySeq
<1>8. /\ queue'[user] = Tail(q) /\ \A u \in Users : u # user => queue'[u] = queue[u]
    BY <1>1, <1>5, <1>6, <1>7
<1>9. /\ Tail(q) \in Seq(Batch) /\ Len(Tail(q)) = Len(q) - 1
      /\ \A k \in 1 .. Len(q) - 1 : Tail(q)[k] = q[k + 1]
    BY <1>1, <1>3, HeadTailProperties
<1>10. queue' \in [Users -> Seq(Batch)]
    BY <1>1, <1>5, <1>6, <1>7, <1>9
<1>11. Ascends(Tail(q)) /\ \A k \in 1 .. Len(Tail(q)) : Tail(q)[k] < nextBatch
    BY <1>1, <1>9 DEF Ascends
<1>12. \E n \in 0 .. Room(Tail(q)) : Tail(pipeline) = SubSeq(Tail(q), 1, n)
    <2>1. Room(q) - 1 \in 0 .. Room(Tail(q)) /\ Room(q) - 1 \in 0 .. Len(Tail(q))
        <3>1. Room(q) = IF MaxPendingWrites <= Len(q) THEN MaxPendingWrites ELSE Len(q)
            BY <1>1, RoomFacts
        <3>2. Room(Tail(q)) = IF MaxPendingWrites <= Len(Tail(q)) THEN MaxPendingWrites ELSE Len(Tail(q))
            BY <1>9, RoomFacts
        <3> QED BY <1>1, <1>3, <1>9, <3>1, <3>2, RemoteStoreAssumption
    <2>2. /\ SubSeq(Tail(q), 1, Room(q) - 1) \in Seq(Batch)
          /\ Len(SubSeq(Tail(q), 1, Room(q) - 1)) = Room(q) - 1
          /\ \A k \in 1 .. Room(q) - 1 : SubSeq(Tail(q), 1, Room(q) - 1)[k] = Tail(q)[k]
        BY <1>9, <2>1, FrontOfQueue
    <2>3. /\ SubSeq(q, 2, Room(q)) \in Seq(Batch)
          /\ Len(SubSeq(q, 2, Room(q))) = Room(q) - 1
          /\ \A k \in 1 .. Room(q) - 1 : SubSeq(q, 2, Room(q))[k] = q[k + 1]
        <3>1. /\ Tail(pipeline) \in Seq(Batch) /\ Len(Tail(pipeline)) = Room(q) - 1
              /\ \A k \in 1 .. Len(Tail(pipeline)) : Tail(pipeline)[k] = pipeline[k + 1]
              /\ \A k \in 1 .. Room(q) : pipeline[k] = q[k]
            <4>1. /\ pipeline \in Seq(Batch) /\ Len(pipeline) = Room(q)
                  /\ \A k \in 1 .. Room(q) : pipeline[k] = q[k]
                BY <1>1, <1>2, FrontOfQueue
            <4>2. pipeline # <<>> /\ Tail(pipeline) \in Seq(Batch)
                  /\ Len(Tail(pipeline)) = Len(pipeline) - 1
                  /\ \A k \in 1 .. Len(Tail(pipeline)) : Tail(pipeline)[k] = pipeline[k + 1]
                BY <4>1, HeadTailProperties
            <4> QED BY <4>1, <4>2
        <3>2. ASSUME NEW k \in 1 .. Room(q) - 1 PROVE Tail(pipeline)[k] = q[k + 1]
            <4>1. k \in 1 .. Len(Tail(pipeline)) /\ k + 1 \in 1 .. Room(q)
                BY <1>3, <3>1, <3>2
            <4>2. Tail(pipeline)[k] = pipeline[k + 1] /\ pipeline[k + 1] = q[k + 1]
                BY <3>1, <4>1
            <4> QED BY <4>2
        <3>3. Tail(pipeline) = SubSeq(q, 2, Room(q))
            BY <1>4
        <3> QED BY <3>1, <3>2, <3>3, Zenon
    <2>4. \A k \in 1 .. Room(q) - 1 : Tail(q)[k] = q[k + 1]
        BY <1>3, <1>9
    <2>5. SubSeq(Tail(q), 1, Room(q) - 1) = SubSeq(q, 2, Room(q))
        BY <2>2, <2>3, <2>4, SeqEqual
    <2> QED BY <1>4, <2>1, <2>5
<1> QED BY <1>3, <1>4, <1>8, <1>9, <1>10, <1>11, <1>12

Requests == Seq(Batch \cup {Handshake})

LEMMA BatchesAreRequests == ASSUME NEW p \in Seq(Batch) PROVE p \in Requests
BY SeqMonotonic DEF Requests

LEMMA RequestFacts ==
    ASSUME NEW a \in Requests, NEW w \in Requests
    PROVE  /\ a \o w \in Requests
           /\ a \o <<>> = a /\ <<>> \o a = a /\ <<>> \in Requests
           /\ a \o w = <<>> <=> a = <<>> /\ w = <<>>
<1>1. a \o w \in Requests /\ <<>> \in Requests
    BY ConcatProperties, EmptySeq DEF Requests
<1>2. a \o <<>> = a /\ <<>> \o a = a
    BY ConcatEmptySeq DEF Requests
<1>3. a \o w = <<>> <=> a = <<>> /\ w = <<>>
    BY ConcatEqualIffEmpty DEF Requests
<1> QED BY <1>1, <1>2, <1>3

LEMMA Regroup ==
    ASSUME NEW a \in Requests, NEW w \in Requests, NEW p \in Requests
    PROVE  a \o (w \o p) = (a \o w) \o p
BY DEF Requests

LEMMA QueueKept == QueueInv /\ UNCHANGED <<user, queue, nextBatch, restarts>> => QueueInv'
BY DEF QueueInv, QueuesAscend

LEMMA QueueStep == QueueInv /\ WriteInv /\ [Next]_vars => QueueInv'
<1> SUFFICES ASSUME QueueInv, WriteInv, [Next]_vars PROVE QueueInv'
    OBVIOUS
<1>1. CASE WriteMutations
    <2>1. /\ nextBatch <= MaxWrites /\ nextBatch' = nextBatch + 1
          /\ queue' = [queue EXCEPT ![user] = Append(@, nextBatch)]
          /\ UNCHANGED <<user, restarts>>
        BY <1>1 DEF WriteMutations
    <2>2. /\ queue' \in [Users -> Seq(Batch)]
          /\ \A u \in Users : u # user => queue'[u] = queue[u]
          /\ Len(queue'[user]) = Len(queue[user]) + 1
          /\ \A i \in 1 .. Len(queue[user]) : queue'[user][i] = queue[user][i]
          /\ queue'[user][Len(queue[user]) + 1] = nextBatch
          /\ Ascends(queue'[user])
        BY <2>1, AppendedQueue
    <2>3. /\ nextBatch \in Int /\ Len(queue[user]) \in Nat
          /\ \A u \in Users : \A i \in 1 .. Len(queue[u]) : queue[u][i] \in Int /\ queue[u][i] < nextBatch
        <3>1. \A u \in Users : \A i \in 1 .. Len(queue[u]) : queue[u][i] \in Int
            BY ElementOfSeq, RemoteStoreAssumption DEF QueueInv, Batch
        <3> QED BY <3>1, LenProperties DEF QueueInv, QueuesAscend
    <2>4. ASSUME NEW u \in Users
          PROVE  /\ Ascends(queue'[u])
                 /\ \A i \in 1 .. Len(queue'[u]) : queue'[u][i] < nextBatch'
        <3>1. CASE u = user
            BY <2>1, <2>2, <2>3, <3>1
        <3>2. CASE u # user
            <4>1. queue'[u] = queue[u] /\ Ascends(queue[u])
                BY <2>2, <3>2 DEF QueueInv, QueuesAscend, Ascends
            <4> QED BY <2>1, <2>3, <4>1
        <3> QED BY <3>1, <3>2
    <2>5. QueuesAscend'
        BY <2>4 DEF QueuesAscend, Ascends
    <2>6. nextBatch' \in 1 .. MaxWrites + 1
        BY <2>1, RemoteStoreAssumption DEF QueueInv
    <2> QED BY <2>1, <2>2, <2>5, <2>6 DEF QueueInv
<1>2. ASSUME pipeline # <<>>, RemoveBatch(Head(pipeline)), UNCHANGED <<user, nextBatch, restarts>>
      PROVE  QueueInv'
    <2>1. /\ queue' \in [Users -> Seq(Batch)] /\ Ascends(queue'[user])
          /\ \A u \in Users : u # user => queue'[u] = queue[u]
          /\ \A i \in 1 .. Len(queue'[user]) : queue'[user][i] < nextBatch
        BY <1>2, RemovedFront
    <2>2. QueuesAscend'
        <3>1. ASSUME NEW u \in Users
              PROVE  /\ Ascends(queue'[u])
                     /\ \A i \in 1 .. Len(queue'[u]) : queue'[u][i] < nextBatch
            <4>1. CASE u = user
                BY <2>1, <4>1
            <4>2. CASE u # user
                BY <2>1, <4>2 DEF QueueInv, QueuesAscend, Ascends
            <4> QED BY <4>1, <4>2
        <3> QED BY <1>2, <3>1 DEF QueuesAscend, Ascends
    <2> QED BY <1>2, <2>1, <2>2 DEF QueueInv
<1>3. CASE OnWriteStreamMutationResult
    <2>1. pipeline # <<>>
        <3>1. answers # <<>> /\ handshake
            BY <1>3 DEF OnWriteStreamMutationResult
        <3>2. answers \o sent = pipeline
            BY <3>1 DEF WriteInv, Wire
        <3> QED BY <3>1, <3>2, RequestFacts DEF WriteInv, Requests
    <2> QED BY <1>2, <1>3, <2>1 DEF OnWriteStreamMutationResult
<1>4. CASE HandleWriteError
    <2>1. pipeline # <<>>
        <3>1. sent # <<>> /\ Head(sent) # Handshake /\ answers = <<>>
            BY <1>4 DEF HandleWriteError
        <3>2. answers \o sent = sent
            BY <3>1, ConcatEmptySeq DEF WriteInv
        <3>3. sent = Wire(write, handshake, pipeline) /\ sent # <<Handshake>>
            BY <3>1, <3>2 DEF WriteInv
        <3>4. \/ Wire(write, handshake, pipeline) = <<>>
              \/ Wire(write, handshake, pipeline) = <<Handshake>>
              \/ Wire(write, handshake, pipeline) = pipeline
            BY DEF Wire
        <3> QED BY <3>1, <3>3, <3>4
    <2> QED BY <1>2, <1>4, <2>1 DEF HandleWriteError, watchVars
<1>5. ASSUME restarts < MaxRestarts, restarts' = restarts + 1, user' \in Users,
             UNCHANGED <<queue, nextBatch>>
      PROVE  QueueInv'
    <2>1. restarts' \in 0 .. MaxRestarts
        BY <1>5, RemoteStoreAssumption DEF QueueInv
    <2> QED BY <1>5, <2>1 DEF QueueInv, QueuesAscend
<1>6. CASE ConnectivityChange
    BY <1>5, <1>6 DEF ConnectivityChange, RestartNetwork, queueVars, QueueInv
<1>7. ASSUME NEW u \in Users, HandleCredentialChange(u) PROVE QueueInv'
    BY <1>5, <1>7 DEF HandleCredentialChange, RestartNetwork
<1>8. CASE Restart
    BY <1>5, <1>8 DEF Restart, queueVars, QueueInv
<1>9. CASE UNCHANGED <<user, queue, nextBatch, restarts>>
    BY <1>9, QueueKept
<1> QED BY <1>1, <1>3, <1>4, <1>6, <1>7, <1>8, <1>9
     DEF Next, vars, queueVars, Listen, StopListening, WatchOpens, WatchFails, WatchIdles,
         WatchBackoffElapses, OnWatchStreamChange, ProcessTargetError, OnlineStateTimeout,
         WriteOpens, WriteBackoffElapses, BackendAnswers, OnWriteStreamHandshakeComplete,
         WriteFails, WriteIdles, StaleToken

-----------------------------------------------------------------------------
(* The write stream                                                            *)

(* The pipeline is filled, and what is under way still matches it.             *)
LEMMA RefillKeeps ==
    ASSUME NEW q \in Seq(Batch), q = queue'[user'], Ascends(q),
           NEW n \in 0 .. Room(q), NEW p, p = SubSeq(q, 1, n),
           NEW s \in Stream, CallbackFits(s), s.idle => p = <<>> /\ handshake,
           NEW a \in Requests, NEW w \in Requests, answers' = a,
           a \o w = Wire(s, handshake, p),
           handshake \in BOOLEAN,
           \/ /\ UNCHANGED handshake
              /\ handshake => IsOpen(s)
              /\ handshake \/ q # <<>> \/ ~IsOpen(s)
           \/ ~IsOpen(s) /\ handshake' = FALSE,
           FillWritePipeline(q, p, s, w)
    PROVE  WriteInv'
<1>1. PICK added \in Seq(Batch) : Filled(q, p, s, w, added)
    BY FillFacts
<1>2. /\ pipeline' = p \o added /\ pipeline' = SubSeq(q, 1, Room(q))
      /\ pipeline' \in Seq(Batch)
      /\ sent' = IF IsOpen(s) /\ handshake THEN w \o added ELSE w
      /\ write' \in Stream /\ CallbackFits(write')
      /\ IsOpen(write') <=> IsOpen(s)
      /\ q # <<>> => IsStarted(write')
      /\ write'.idle => pipeline' = <<>> /\ IsOpen(s)
    BY <1>1 DEF Filled
<1>3. p \in Requests /\ added \in Requests
    <2>1. Len(q) \in Nat /\ Room(q) \in 0 .. Len(q)
        BY RoomFacts, LenProperties
    <2>2. n \in 0 .. Len(q)
        BY <2>1
    <2>3. p \in Seq(Batch)
        BY <2>2, FrontOfQueue
    <2> QED BY <2>3, BatchesAreRequests
<1>4. sent' \in Requests
    BY <1>2, <1>3, ConcatProperties DEF Requests
<1>5. answers' \o sent' = Wire(write', handshake', pipeline')
    <2>1. CASE IsOpen(s) /\ handshake
        <3>1. handshake' /\ IsOpen(write')
            BY <1>2, <2>1
        <3>2. a \o w = p
            BY <2>1 DEF Wire
        <3>3. a \o (w \o added) = (a \o w) \o added
            <4>1. a \in Requests /\ w \in Requests /\ added \in Requests
                BY <1>3
            <4> QED BY ONLY <4>1, Regroup, Zenon
        <3>4. answers' \o sent' = pipeline'
            BY <1>2, <2>1, <3>2, <3>3
        <3>5. Wire(write', handshake', pipeline') = pipeline'
            BY <3>1 DEF Wire
        <3> QED BY <3>4, <3>5
    <2>2. CASE IsOpen(s) /\ ~handshake
        BY <1>2, <2>2 DEF Wire
    <2>3. CASE ~IsOpen(s)
        BY <1>2, <2>3 DEF Wire
    <2> QED BY <2>1, <2>2, <2>3
<1>6. handshake' \in BOOLEAN /\ (handshake' => IsOpen(write'))
    <2>1. CASE UNCHANGED handshake /\ (handshake => IsOpen(s))
        BY <1>2, <2>1
    <2>2. CASE handshake' = FALSE
        BY <2>2
    <2> QED BY <2>1, <2>2
<1>7. write'.idle => pipeline' = <<>> /\ handshake'
    <2>1. q # <<>> => pipeline' # <<>>
        <3>1. Room(q) \in 0 .. Len(q) /\ (q # <<>> => Room(q) # 0)
            BY RoomFacts
        <3> QED BY <1>2, <3>1, FrontOfQueue
    <2> QED BY <1>2, <2>1
<1> QED BY <1>2, <1>4, <1>5, <1>6, <1>7 DEF WriteInv, Requests, Room

(* What is known of the write stream in its three stages.                      *)
LEMMA WireStages ==
    ASSUME WriteInv
    PROVE  /\ answers \in Requests /\ sent \in Requests /\ answers \o sent \in Requests
           /\ ~IsOpen(write) => answers = <<>> /\ sent = <<>> /\ ~handshake
           /\ IsOpen(write) /\ ~handshake => answers \o sent = <<Handshake>>
           /\ handshake => answers \o sent = pipeline
<1>1. answers \in Requests /\ sent \in Requests /\ answers \o sent \in Requests
    BY RequestFacts DEF WriteInv, Requests
<1>2. ~IsOpen(write) => answers \o sent = <<>> /\ ~handshake
    BY DEF WriteInv, Wire
<1>3. ~IsOpen(write) => answers = <<>> /\ sent = <<>>
    BY <1>1, <1>2, RequestFacts
<1>4. IsOpen(write) /\ ~handshake => answers \o sent = <<Handshake>>
    BY DEF WriteInv, Wire
<1>5. handshake => answers \o sent = pipeline
    BY DEF WriteInv, Wire
<1> QED BY <1>1, <1>2, <1>3, <1>4, <1>5

(* A stream that is closed has nothing under way.                              *)
LEMMA ClosedKeeps ==
    ASSUME QueueInv, WriteInv, UNCHANGED <<user, queue, pipeline>>,
           write' \in Stream, CallbackFits(write'), ~IsOpen(write'), ~write'.idle,
           queue[user] # <<>> => IsStarted(write'),
           handshake' = FALSE, sent' = <<>>, answers' = <<>>
    PROVE  WriteInv'
<1>1. sent' \in Requests /\ answers' \in Requests /\ answers' \o sent' = <<>>
    BY RequestFacts, WireStages
<1>2. answers' \o sent' = Wire(write', handshake', pipeline')
    BY <1>1 DEF Wire
<1> QED BY <1>1, <1>2 DEF WriteInv, Requests, Room

LEMMA WriteMutationsKeeps ==
    ASSUME QueueInv, WriteInv, WriteMutations
    PROVE  WriteInv'
<1> DEFINE q == queue'[user]
           n == Room(queue[user])
<1>1. /\ nextBatch <= MaxWrites /\ UNCHANGED <<user, handshake, answers>>
      /\ queue' = [queue EXCEPT ![user] = Append(@, nextBatch)]
      /\ FillWritePipeline(q, pipeline, write, sent)
    BY DEF WriteMutations
<1>2. /\ q \in Seq(Batch) /\ Ascends(q)
      /\ Len(q) = Len(queue[user]) + 1
      /\ \A i \in 1 .. Len(queue[user]) : q[i] = queue[user][i]
    BY <1>1, AppendedQueue
<1>3. queue[user] \in Seq(Batch) /\ Len(queue[user]) \in Nat
    BY LenProperties DEF QueueInv
<1>4. n \in 0 .. Len(queue[user]) /\ n \in 0 .. Room(q) /\ n \in 0 .. Len(q)
    <2>1. n = IF MaxPendingWrites <= Len(queue[user]) THEN MaxPendingWrites ELSE Len(queue[user])
        BY <1>3, RoomFacts
    <2>2. Room(q) = IF MaxPendingWrites <= Len(q) THEN MaxPendingWrites ELSE Len(q)
        BY <1>2, RoomFacts
    <2> QED BY <1>2, <1>3, <2>1, <2>2, RemoteStoreAssumption
<1>5. pipeline = SubSeq(q, 1, n)
    <2>1. /\ SubSeq(q, 1, n) \in Seq(Batch) /\ Len(SubSeq(q, 1, n)) = n
          /\ \A i \in 1 .. n : SubSeq(q, 1, n)[i] = q[i]
        BY <1>2, <1>4, FrontOfQueue
    <2>2. /\ pipeline \in Seq(Batch) /\ Len(pipeline) = n
          /\ \A i \in 1 .. n : pipeline[i] = queue[user][i]
        BY <1>3, <1>4, FrontOfQueue DEF WriteInv
    <2>3. \A i \in 1 .. n : q[i] = queue[user][i]
        BY <1>2, <1>3, <1>4
    <2> QED BY <2>1, <2>2, <2>3, SeqEqual
<1>6. q # <<>> /\ q = queue'[user']
    BY <1>1, <1>2, <1>3
<1>7. /\ write \in Stream /\ CallbackFits(write) /\ (write.idle => pipeline = <<>> /\ handshake)
      /\ handshake \in BOOLEAN /\ (handshake => IsOpen(write))
      /\ answers \in Requests /\ sent \in Requests
      /\ answers \o sent = Wire(write, handshake, pipeline)
    BY DEF WriteInv, Requests
<1> HIDE DEF q, n
<1> QED BY <1>1, <1>2, <1>4, <1>5, <1>6, <1>7, RefillKeeps

LEMMA WriteOpensKeeps ==
    ASSUME QueueInv, WriteInv, WriteOpens
    PROVE  WriteInv'
<1>1. /\ write.token /\ write' = OnStreamStart(write) /\ sent' = <<Handshake>>
      /\ UNCHANGED <<pipeline, handshake, answers, user, queue>>
    BY DEF WriteOpens, queueVars
<1>2. /\ write' \in Stream /\ CallbackFits(write') /\ IsOpen(write') /\ ~write'.idle
      /\ write.state = "Starting"
    BY <1>1, StreamTypes, TimersFit DEF WriteInv
<1>3. IsStarted(write') /\ ~IsOpen(write)
    BY <1>2 DEF IsOpen, IsStarted
<1>4. answers = <<>> /\ ~handshake
    BY <1>3, WireStages
<1>5. sent' \in Requests /\ answers' \o sent' = <<Handshake>>
    <2>1. <<Handshake>> \in Requests
        BY DEF Requests
    <2> QED BY <1>1, <1>4, <2>1, RequestFacts
<1>6. answers' \o sent' = Wire(write', handshake', pipeline')
    BY <1>1, <1>2, <1>4, <1>5 DEF Wire
<1> QED BY <1>1, <1>2, <1>3, <1>4, <1>5, <1>6 DEF WriteInv, Requests, Room

LEMMA BackendAnswersKeeps ==
    ASSUME QueueInv, WriteInv, BackendAnswers
    PROVE  WriteInv'
<1>1. /\ sent # <<>> /\ answers' = Append(answers, Head(sent)) /\ sent' = Tail(sent)
      /\ UNCHANGED <<write, pipeline, handshake, user, queue>>
    BY DEF BackendAnswers, queueVars
<1>2. sent \in Requests /\ answers \in Requests
    BY WireStages
<1>3. /\ answers' \in Requests /\ sent' \in Requests
      /\ answers' \o sent' = answers \o sent
    BY <1>1, <1>2 DEF Requests
<1> QED BY <1>1, <1>3 DEF WriteInv, Requests, Room

LEMMA HandshakeKeeps ==
    ASSUME QueueInv, WriteInv, OnWriteStreamHandshakeComplete
    PROVE  WriteInv'
<1>1. /\ answers # <<>> /\ ~handshake /\ handshake' = TRUE
      /\ answers' = Tail(answers) /\ sent' = sent \o pipeline
      /\ write' = IF pipeline = <<>> THEN write ELSE CancelIdleCheck(write)
      /\ UNCHANGED <<pipeline, user, queue>>
    BY DEF OnWriteStreamHandshakeComplete, queueVars
<1>2. IsOpen(write) /\ answers \o sent = <<Handshake>> /\ sent \in Requests /\ answers \in Requests
    BY <1>1, WireStages
<1>3. answers' = <<>> /\ sent = <<>>
    <2>1. Len(answers \o sent) = 1 /\ Len(answers) \in Nat /\ Len(sent) \in Nat /\ Len(answers) # 0
        BY <1>1, <1>2, LenProperties, EmptySeq DEF Requests
    <2>2. Len(answers) + Len(sent) = 1
        BY <1>2, <2>1, ConcatProperties DEF Requests
    <2>3. Len(sent) = 0 /\ Len(Tail(answers)) = 0 /\ Tail(answers) \in Requests
        <3>1. Tail(answers) \in Requests /\ Len(Tail(answers)) = Len(answers) - 1
            BY <1>1, <1>2, HeadTailProperties DEF Requests
        <3>2. Len(answers) = 1 /\ Len(sent) = 0
            BY <2>1, <2>2
        <3> QED BY <3>1, <3>2
    <2> QED BY <1>1, <1>2, <2>3, EmptySeq DEF Requests
<1>4. pipeline \in Requests /\ sent' = pipeline /\ answers' \o sent' = pipeline
    <2>1. pipeline \in Requests
        BY BatchesAreRequests DEF WriteInv
    <2> QED BY <1>1, <1>3, <2>1, RequestFacts
<1>5. /\ write' \in Stream /\ CallbackFits(write') /\ write'.state = write.state
      /\ write'.idle => pipeline = <<>>
    BY <1>1, StreamTypes, IdleFits DEF WriteInv
<1>6. IsOpen(write') /\ IsStarted(write')
    BY <1>2, <1>5 DEF IsOpen, IsStarted
<1>7. answers' \o sent' = Wire(write', handshake', pipeline')
    BY <1>1, <1>4, <1>6 DEF Wire
<1>8. answers' \in Requests
    BY <1>2, <1>3, RequestFacts
<1> QED BY <1>1, <1>4, <1>5, <1>6, <1>7, <1>8 DEF WriteInv, Requests, Room

LEMMA MutationResultKeeps ==
    ASSUME QueueInv, WriteInv, OnWriteStreamMutationResult
    PROVE  /\ WriteInv'
           /\ queue[user] # <<>> /\ Head(queue[user]) = Head(answers \o sent)
           /\ queue'[user] = Tail(queue[user])
           /\ \A u \in Users : u # user => queue'[u] = queue[u]
<1>1. /\ answers # <<>> /\ handshake /\ answers' = Tail(answers)
      /\ RemoveBatch(Head(pipeline))
      /\ FillWritePipeline(queue'[user], Tail(pipeline), write, sent)
      /\ UNCHANGED <<user, handshake>>
    BY DEF OnWriteStreamMutationResult
<1>2. /\ answers \in Requests /\ sent \in Requests /\ answers \o sent = pipeline
    BY <1>1, WireStages
<1>3. pipeline # <<>>
    BY <1>1, <1>2, RequestFacts
<1>4. /\ Tail(answers) \in Requests /\ Tail(answers) \o sent = Tail(pipeline)
    <2>1. Tail(answers) \in Requests /\ Tail(answers) \o sent = Tail(answers \o sent)
        BY <1>1, <1>2 DEF Requests
    <2> QED BY <1>2, <2>1
<1>5. /\ queue[user] # <<>> /\ Head(pipeline) = Head(queue[user])
      /\ queue'[user] = Tail(queue[user])
      /\ \A u \in Users : u # user => queue'[u] = queue[u]
      /\ queue'[user] \in Seq(Batch) /\ Ascends(queue'[user])
      /\ \E n \in 0 .. Room(queue'[user]) : Tail(pipeline) = SubSeq(queue'[user], 1, n)
    BY <1>1, <1>3, RemovedFront
<1>6. /\ write \in Stream /\ CallbackFits(write) /\ (write.idle => FALSE)
      /\ handshake \in BOOLEAN /\ IsOpen(write)
    BY <1>1, <1>3 DEF WriteInv
<1>7. Tail(answers) \o sent = Wire(write, handshake, Tail(pipeline))
    BY <1>1, <1>4, <1>6 DEF Wire
<1>8. WriteInv'
    <2>1. PICK n \in 0 .. Room(queue'[user]) : Tail(pipeline) = SubSeq(queue'[user], 1, n)
        BY <1>5
    <2> QED BY <1>1, <1>2, <1>4, <1>5, <1>6, <1>7, <2>1, RefillKeeps
<1> QED BY <1>2, <1>5, <1>8

LEMMA HandleWriteErrorKeeps ==
    ASSUME QueueInv, WriteInv, HandleWriteError
    PROVE  /\ WriteInv'
           /\ queue[user] # <<>> /\ Head(queue[user]) = Head(answers \o sent)
           /\ queue'[user] = Tail(queue[user])
           /\ \A u \in Users : u # user => queue'[u] = queue[u]
<1> DEFINE s == InhibitBackoff(Fail(write))
<1>1. /\ sent # <<>> /\ Head(sent) # Handshake /\ answers = <<>> /\ answers' = <<>>
      /\ RemoveBatch(Head(pipeline))
      /\ FillWritePipeline(queue'[user], Tail(pipeline), s, <<>>)
      /\ handshake' = FALSE /\ UNCHANGED user
    BY DEF HandleWriteError
<1>2. answers \in Requests /\ sent \in Requests /\ answers \o sent = sent /\ <<>> \in Requests
      /\ <<>> \o <<>> = <<>>
    BY <1>1, WireStages, RequestFacts
<1>3. answers \o sent = pipeline
    <2>1. sent # <<Handshake>>
        BY <1>1
    <2> QED BY <1>1, <1>2, <2>1, WireStages
<1>4. pipeline # <<>>
    BY <1>1, <1>2, <1>3
<1>5. /\ queue[user] # <<>> /\ Head(pipeline) = Head(queue[user])
      /\ queue'[user] = Tail(queue[user])
      /\ \A u \in Users : u # user => queue'[u] = queue[u]
      /\ queue'[user] \in Seq(Batch) /\ Ascends(queue'[user])
      /\ \E n \in 0 .. Room(queue'[user]) : Tail(pipeline) = SubSeq(queue'[user], 1, n)
    BY <1>1, <1>4, RemovedFront
<1>6. s \in Stream /\ CallbackFits(s) /\ ~IsOpen(s) /\ ~s.idle /\ handshake \in BOOLEAN
    <2>1. Fail(write) \in Stream /\ CallbackFits(Fail(write)) /\ ~IsStarted(Fail(write))
        BY StreamTypes, CloseFits DEF WriteInv
    <2>2. handshake \in BOOLEAN
        BY DEF WriteInv
    <2> QED BY <2>1, <2>2, StreamTypes, CloseFits
<1> HIDE DEF s
<1>7. <<>> \o <<>> = Wire(s, handshake, Tail(pipeline))
    BY <1>2, <1>6 DEF Wire
<1>8. WriteInv'
    <2>1. PICK n \in 0 .. Room(queue'[user]) : Tail(pipeline) = SubSeq(queue'[user], 1, n)
        BY <1>5
    <2> QED BY <1>1, <1>2, <1>5, <1>6, <1>7, <2>1, RefillKeeps
<1> QED BY <1>3, <1>5, <1>8

(* The pipeline is filled anew, for a closed stream.                           *)
LEMMA FreshKeeps ==
    ASSUME QueueInv, WriteInv, NEW u \in Users, user' = u, UNCHANGED queue,
           NEW s \in Stream, CallbackFits(s), ~IsOpen(s), ~s.idle,
           FillWritePipeline(queue[u], <<>>, s, <<>>), handshake' = FALSE, answers' = <<>>
    PROVE  WriteInv'
<1>1. queue[u] \in Seq(Batch) /\ Ascends(queue[u]) /\ queue[u] = queue'[user']
    BY DEF QueueInv, QueuesAscend, Ascends
<1>2. 0 \in 0 .. Room(queue[u]) /\ <<>> = SubSeq(queue[u], 1, 0)
    <2>1. <<>> = SubSeq(queue[u], 1, 0)
        BY SubSeqEmpty
    <2> QED BY <1>1, <2>1, RoomFacts
<1>3. <<>> \in Requests /\ <<>> \o <<>> = <<>>
    BY EmptySeq, ConcatEmptySeq DEF Requests
<1>4. <<>> \o <<>> = Wire(s, handshake, <<>>) /\ handshake \in BOOLEAN
    <2>1. handshake \in BOOLEAN
        BY DEF WriteInv
    <2> QED BY <1>3, <2>1 DEF Wire
<1> QED BY <1>1, <1>2, <1>3, <1>4, RefillKeeps

LEMMA WriteRestarts ==
    ASSUME QueueInv, WriteInv, NEW u \in Users, user' = u, UNCHANGED queue,
           RestartNetwork(queue[u])
    PROVE  WriteInv'
<1> DEFINE s == InhibitBackoff(Stop(write))
<1>1. /\ FillWritePipeline(queue[u], <<>>, s, <<>>) /\ handshake' = FALSE /\ answers' = <<>>
    BY DEF RestartNetwork
<1>2. s \in Stream /\ CallbackFits(s) /\ ~IsOpen(s) /\ ~s.idle
    <2>1. Stop(write) \in Stream /\ CallbackFits(Stop(write)) /\ ~IsStarted(Stop(write))
        BY StreamTypes, CloseFits DEF WriteInv
    <2> QED BY <2>1, StreamTypes, CloseFits
<1> HIDE DEF s
<1> QED BY <1>1, <1>2, FreshKeeps

LEMMA WriteStep == QueueInv /\ WriteInv /\ [Next]_vars => WriteInv'
<1> SUFFICES ASSUME QueueInv, WriteInv, [Next]_vars PROVE WriteInv'
    OBVIOUS
<1>1. CASE WriteMutations
    BY <1>1, WriteMutationsKeeps
<1>2. CASE WriteOpens
    BY <1>2, WriteOpensKeeps
<1>3. CASE WriteBackoffElapses
    <2>1. /\ write.backoff /\ write' = BackoffElapsed(write)
          /\ UNCHANGED <<pipeline, handshake, sent, answers, user, queue>>
        BY <1>3 DEF WriteBackoffElapses, queueVars
    <2>2. /\ write' \in Stream /\ CallbackFits(write') /\ IsStarted(write') /\ ~IsOpen(write')
          /\ ~write'.idle /\ write.state = "Backoff"
        BY <2>1, StreamTypes, TimersFit DEF WriteInv
    <2>3. answers = <<>> /\ sent = <<>> /\ ~handshake
        BY <2>2, WireStages DEF IsOpen
    <2>4. handshake \in BOOLEAN
        BY DEF WriteInv
    <2> QED BY <2>1, <2>2, <2>3, <2>4, ClosedKeeps
<1>4. CASE BackendAnswers
    BY <1>4, BackendAnswersKeeps
<1>5. CASE OnWriteStreamHandshakeComplete
    BY <1>5, HandshakeKeeps
<1>6. CASE OnWriteStreamMutationResult
    BY <1>6, MutationResultKeeps
<1>7. CASE WriteFails
    <2>1. /\ write' = IF pipeline = <<>> THEN Fail(write) ELSE Start(Fail(write))
          /\ handshake' = FALSE /\ sent' = <<>> /\ answers' = <<>>
          /\ UNCHANGED <<pipeline, user, queue>>
        BY <1>7 DEF WriteFails, queueVars
    <2>2. /\ Fail(write) \in Stream /\ CallbackFits(Fail(write)) /\ ~IsStarted(Fail(write))
          /\ ~IsOpen(Fail(write)) /\ ~Fail(write).idle
        BY StreamTypes, CloseFits DEF WriteInv
    <2>3. queue[user] # <<>> => pipeline # <<>>
        <3>1. queue[user] \in Seq(Batch)
            BY DEF QueueInv
        <3>2. /\ Room(queue[user]) \in 0 .. Len(queue[user])
              /\ queue[user] # <<>> => Room(queue[user]) # 0
            BY <3>1, RoomFacts
        <3> QED BY <3>1, <3>2, FrontOfQueue DEF WriteInv
    <2>4. /\ write' \in Stream /\ CallbackFits(write') /\ ~IsOpen(write') /\ ~write'.idle
          /\ queue[user] # <<>> => IsStarted(write')
        BY <2>1, <2>2, <2>3, StreamTypes, StartFits
    <2> QED BY <2>1, <2>4, ClosedKeeps
<1>8. CASE HandleWriteError
    BY <1>8, HandleWriteErrorKeeps
<1>9. CASE WriteIdles
    <2>1. /\ write.idle /\ write' = Stop(write)
          /\ handshake' = FALSE /\ sent' = <<>> /\ answers' = <<>>
          /\ UNCHANGED <<pipeline, user, queue>>
        BY <1>9 DEF WriteIdles, queueVars
    <2>2. write' \in Stream /\ CallbackFits(write') /\ ~IsOpen(write') /\ ~write'.idle
        BY <2>1, StreamTypes, CloseFits DEF WriteInv
    <2>3. queue[user] = <<>>
        <3>1. queue[user] \in Seq(Batch) /\ pipeline = <<>>
            BY <2>1 DEF QueueInv, WriteInv
        <3>2. /\ Room(queue[user]) \in 0 .. Len(queue[user])
              /\ queue[user] # <<>> => Room(queue[user]) # 0
            BY <3>1, RoomFacts
        <3> QED BY <3>1, <3>2, FrontOfQueue DEF WriteInv
    <2> QED BY <2>1, <2>2, <2>3, ClosedKeeps
<1>10. CASE /\ write.stale > 0 /\ write' = [write EXCEPT !.stale = @ - 1]
            /\ UNCHANGED <<pipeline, handshake, sent, answers, user, queue>>
    <2>1. write' \in Stream
        BY <1>10, StreamTypes DEF WriteInv
    <2>2. /\ write'.state = write.state /\ write'.token = write.token
          /\ write'.backoff = write.backoff /\ write'.idle = write.idle
        BY <1>10 DEF WriteInv, Stream
    <2>3. /\ CallbackFits(write') /\ (IsOpen(write') <=> IsOpen(write))
          /\ IsStarted(write') <=> IsStarted(write)
        BY <2>2 DEF WriteInv, CallbackFits, IsOpen, IsStarted
    <2>4. Wire(write', handshake', pipeline') = Wire(write, handshake, pipeline)
        BY <1>10, <2>3 DEF Wire
    <2> QED BY <1>10, <2>1, <2>2, <2>3, <2>4 DEF WriteInv, Room
<1>11. CASE ConnectivityChange
    BY <1>11, WriteRestarts DEF ConnectivityChange, queueVars, QueueInv
<1>12. ASSUME NEW u \in Users, HandleCredentialChange(u) PROVE WriteInv'
    BY <1>12, WriteRestarts DEF HandleCredentialChange
<1>13. CASE Restart
    <2>1. /\ FillWritePipeline(queue[user], <<>>, NewStream, <<>>)
          /\ handshake' = FALSE /\ answers' = <<>> /\ UNCHANGED <<user, queue>>
        BY <1>13 DEF Restart, queueVars
    <2> QED BY <2>1, NewStreamFits, FreshKeeps DEF QueueInv
<1>14. CASE UNCHANGED <<writeVars, user, queue>>
    BY <1>14 DEF writeVars, WriteInv, Wire, Room
<1> QED BY <1>1, <1>2, <1>3, <1>4, <1>5, <1>6, <1>7, <1>8, <1>9, <1>10, <1>11, <1>12, <1>13, <1>14
     DEF Next, vars, queueVars, writeVars, Listen, StopListening, WatchOpens, WatchFails,
         WatchIdles, WatchBackoffElapses, OnWatchStreamChange, ProcessTargetError,
         OnlineStateTimeout, StaleToken

-----------------------------------------------------------------------------
(* The invariant                                                               *)

LEMMA InvInit == Init => IInv
<1> SUFFICES ASSUME Init PROVE IInv
    OBVIOUS
<1>1. WatchInv
    <2>1. UpdateState("Unknown") \in Tracker /\ Sound(UpdateState("Unknown"))
          /\ ~UpdateState("Unknown").timer
        BY RemoteStoreAssumption DEF UpdateState, Tracker, OnlineState, Sound
    <2> QED BY <2>1, NewStreamFits DEF Init, WatchInv
<1>2. QueueInv
    <2>1. \A u \in Users : queue[u] = <<>> /\ <<>> \in Seq(Batch) /\ Len(queue[u]) = 0
        BY EmptySeq DEF Init
    <2> QED BY <2>1, RemoteStoreAssumption DEF Init, QueueInv, QueuesAscend
<1>3. WriteInv
    <2>1. <<>> \in Requests /\ <<>> \in Seq(Batch) /\ <<>> \o <<>> = <<>>
        BY EmptySeq, ConcatEmptySeq DEF Requests
    <2>2. queue[user] = <<>> /\ Room(<<>>) \in 0 .. Len(<<>>) /\ Len(<<>>) = 0
        BY <2>1, RoomFacts, EmptySeq DEF Init
    <2>3. SubSeq(queue[user], 1, Room(queue[user])) = <<>>
        BY <2>1, <2>2, FrontOfQueue
    <2>4. answers \o sent = Wire(write, handshake, pipeline)
        BY <2>1, NewStreamFits DEF Init, Wire
    <2> QED BY <2>1, <2>2, <2>3, <2>4, NewStreamFits DEF Init, WriteInv, Requests
<1> QED BY <1>1, <1>2, <1>3, InvSplits

LEMMA InvStep == IInv /\ [Next]_vars => IInv'
<1> SUFFICES ASSUME IInv, [Next]_vars PROVE IInv'
    OBVIOUS
<1>1. WatchInv /\ QueueInv /\ WriteInv
    BY InvSplits
<1>2. WatchInv' /\ QueueInv' /\ WriteInv'
    BY <1>1, WatchStep, QueueStep, WriteStep
<1>3. (WatchInv /\ QueueInv /\ WriteInv)' => IInv'
    BY InvSplits, PTL
<1> QED BY <1>2, <1>3

(* The inductive invariant holds in every state.                               *)
THEOREM Invariant == Spec => []IInv
BY InvInit, InvStep, PTL DEF Spec

(* Every execution is well typed.                                              *)
THEOREM TypeCorrect == Spec => []TypeOK
BY Invariant, PTL DEF IInv

(* No callback finds a stream it was not scheduled for.                        *)
THEOREM NoCallbackOvertakes == Spec => []CallbacksFit
BY Invariant, PTL DEF IInv

(* A needed stream is started, and the idle timer leaves it alone.             *)
THEOREM NeededStreamsRun == Spec => []StreamsRunWhenNeeded
BY Invariant, PTL DEF IInv

(* The online state timer runs only while there is something to find out.      *)
THEOREM TimerIsNeeded == Spec => []TimerOnlyWhileUnknown
BY Invariant, PTL DEF IInv

(* An open watch stream watches exactly what is listened to.                   *)
THEOREM WatchedAsListened == Spec => []WatchesWhatIsListenedTo
BY Invariant, PTL DEF IInv

(* What is under way is the pipeline, and the pipeline is the front of the     *)
(* user's queue.                                                               *)
THEOREM AnswersMeetTheirWrites == Spec => []WireMatchesPipeline
BY Invariant, PTL DEF IInv

LEMMA OwnAnswerStep ==
    IInv /\ [Next]_vars =>
        [\A u \in Users :
             Len(queue'[u]) < Len(queue[u]) =>
                 /\ u = user
                 /\ queue'[u] = Tail(queue[u])
                 /\ Head(queue[u]) = Head(answers \o sent)]_vars
<1> SUFFICES ASSUME IInv, [Next]_vars, NEW u \in Users, Len(queue'[u]) < Len(queue[u])
             PROVE  /\ u = user
                    /\ queue'[u] = Tail(queue[u])
                    /\ Head(queue[u]) = Head(answers \o sent)
    OBVIOUS
<1>1. QueueInv /\ WriteInv /\ Len(queue[u]) \in Nat
    BY InvSplits, LenProperties DEF QueueInv
<1>2. CASE OnWriteStreamMutationResult
    <2>1. /\ Head(queue[user]) = Head(answers \o sent)
          /\ queue'[user] = Tail(queue[user])
          /\ u # user => queue'[u] = queue[u]
        BY <1>1, <1>2, MutationResultKeeps
    <2>2. u # user => Len(queue'[u]) = Len(queue[u])
        BY <2>1
    <2>3. u = user
        BY <1>1, <2>2
    <2> QED BY <2>1, <2>3
<1>3. CASE HandleWriteError
    <2>1. /\ Head(queue[user]) = Head(answers \o sent)
          /\ queue'[user] = Tail(queue[user])
          /\ u # user => queue'[u] = queue[u]
        BY <1>1, <1>3, HandleWriteErrorKeeps
    <2>2. u # user => Len(queue'[u]) = Len(queue[u])
        BY <2>1
    <2>3. u = user
        BY <1>1, <2>2
    <2> QED BY <2>1, <2>3
<1>4. CASE WriteMutations
    <2>1. \/ Len(queue'[u]) = Len(queue[u])
          \/ Len(queue'[u]) = Len(queue[u]) + 1
        BY <1>1, <1>4, AppendedQueue DEF WriteMutations
    <2>2. ~ Len(queue'[u]) < Len(queue[u])
        BY <1>1, <2>1
    <2> QED BY <2>2
<1>5. CASE UNCHANGED queue
    <2>1. ~ Len(queue'[u]) < Len(queue[u])
        BY <1>1, <1>5
    <2> QED BY <2>1
<1> QED BY <1>2, <1>3, <1>4, <1>5
     DEF Next, vars, queueVars, Listen, StopListening, WatchOpens, WatchFails, WatchIdles,
         WatchBackoffElapses, OnWatchStreamChange, ProcessTargetError, OnlineStateTimeout,
         WriteOpens, WriteBackoffElapses, BackendAnswers, OnWriteStreamHandshakeComplete,
         WriteFails, WriteIdles, StaleToken, ConnectivityChange, HandleCredentialChange, Restart

(* A write leaves its queue with its own answer, in order.                     *)
THEOREM WritesGetTheirOwnAnswer == Spec => OwnAnswer
<1>1. IInv /\ [Next]_vars =>
          [\A u \in Users :
               Len(queue'[u]) < Len(queue[u]) =>
                   /\ u = user
                   /\ queue'[u] = Tail(queue[u])
                   /\ Head(queue[u]) = Head(answers \o sent)]_vars
    BY OwnAnswerStep
<1> QED BY <1>1, Invariant, PTL DEF Spec, OwnAnswer
=============================================================================
