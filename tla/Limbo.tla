-------------------------------- MODULE Limbo --------------------------------
(***************************************************************************)
(* Limbo resolution.  A view of a query may show a document that the       *)
(* backend, up to date, does not list and that no local write explains: it *)
(* is in limbo.  SyncEngine looks up each such document with a listen of   *)
(* its own, so many at a time, and queues the others.                      *)
(*                                                                         *)
(* Why a document is in limbo is the input: the document sets, the remote  *)
(* keys and the pending writes of a view are one set, suspects.  What is   *)
(* modelled is the bookkeeping, which is spread over a reference set, a    *)
(* queue and two maps, and runs as one task of the worker queue per event. *)
(***************************************************************************)
EXTENDS Integers, Sequences, FiniteSets, SequencesExt

CONSTANTS
    Docs,            \* document keys, ordered
    Queries,         \* queries, each with a target of its own
    MaxConcurrent,   \* max_concurrent_limbo_resolutions_
    MaxQueued,       \* bound: keys in the queue
    MaxLookups       \* bound: lookups at a time

ASSUME LimboAssumption ==
    /\ Docs \subseteq Nat /\ IsFiniteSet(Docs)
    /\ MaxConcurrent \in Nat \ {0}
    /\ MaxQueued \in Nat /\ MaxLookups \in Nat

VARIABLES
    listening,   \* the queries that have a view
    current,     \* current_ of each view
    limbo,       \* limbo_documents_ of each view, and limbo_document_refs_
    queued,      \* enqueued_limbo_resolutions_
    byKey,       \* active_limbo_targets_by_key_
    lookups      \* active_limbo_resolutions_by_target_: the key of each target

vars == <<listening, current, limbo, queued, byKey, lookups>>

InLimbo(d) == \E q \in Queries : d \in limbo[q]

Init ==
    /\ listening = {}
    /\ current = [q \in Queries |-> FALSE]
    /\ limbo = [q \in Queries |-> {}]
    /\ queued = <<>>
    /\ byKey = <<>>
    /\ lookups = <<>>

-----------------------------------------------------------------------------
(* The bookkeeping, as a record that one task hands from call to call.      *)

Books == [limbo |-> limbo, queued |-> queued, byKey |-> byKey, lookups |-> lookups]

BooksBecome(b) ==
    /\ Len(b.queued) <= MaxQueued
    /\ Cardinality(DOMAIN b.lookups) <= MaxLookups
    /\ limbo' = b.limbo
    /\ queued' = b.queued
    /\ byKey' = b.byKey
    /\ lookups' = b.lookups

\* emplace keeps the value of a key that has one.
Emplaced(f, x, y) == [z \in DOMAIN f \cup {x} |-> IF z \in DOMAIN f THEN f[z] ELSE y]

Without(f, x) == [y \in DOMAIN f \ {x} |-> f[y]]

InKeyOrder(D) == CHOOSE s \in SetToSeqs(D) : \A i, j \in DOMAIN s : i < j => s[i] < s[j]

\* A target that no lookup has; only that it differs from those in use matters.
NextId(b) == CHOOSE t \in 1 .. Cardinality(DOMAIN b.lookups) + 1 : t \notin DOMAIN b.lookups

HasPlace(b) == Cardinality(DOMAIN b.byKey) < MaxConcurrent

\* One turn of the loop below.
StartNext(b) ==
    IF b.queued # <<>> /\ HasPlace(b)
    THEN [b EXCEPT !.queued = Tail(@),
                   !.byKey = Emplaced(@, Head(b.queued), NextId(b)),
                   !.lookups = Emplaced(@, NextId(b), Head(b.queued))]
    ELSE b

\* The loop takes a key from the queue in each turn, so that it has ended after
\* as many turns as there are keys in the queue.
PumpEnqueuedLimboResolutions(b) ==
    LET Turn(c, d) == StartNext(c)
    IN  FoldLeft(Turn, b, b.queued)

TrackLimboChange(b, d) ==
    IF d \in DOMAIN b.byKey
    THEN b
    ELSE PumpEnqueuedLimboResolutions([b EXCEPT !.queued = Append(@, d)])

\* Mutation: the queue is not looked at when a lookup is refused.
FreedOnly(b, t) == [b EXCEPT !.byKey = Without(@, b.lookups[t]), !.lookups = Without(@, t)]

\* The lookup with target t is over.
Freed(b, t) ==
    PumpEnqueuedLimboResolutions(
        [b EXCEPT !.byKey = Without(@, b.lookups[t]), !.lookups = Without(@, t)])

RemoveLimboTarget(b, d) ==
    IF d \in DOMAIN b.byKey THEN Freed(b, b.byKey[d]) ELSE b

\* Mutation: other views of the document are not asked for.
RemoveReferenceUnchecked(b, q, d) ==
    RemoveLimboTarget([b EXCEPT !.limbo[q] = @ \ {d}], d)

\* The document is no longer in limbo for q; its lookup ends with the last
\* reference.
RemoveReference(b, q, d) ==
    LET left == [b EXCEPT !.limbo[q] = @ \ {d}]
    IN  IF \E p \in Queries : d \in left.limbo[p] THEN left ELSE RemoveLimboTarget(left, d)

AddReference(b, q, d) == TrackLimboChange([b EXCEPT !.limbo[q] = @ \cup {d}], d)

RemoveReferences(b, q, D) ==
    LET Leave(c, d) == RemoveReference(c, q, d)
    IN  FoldLeft(Leave, b, InKeyOrder(D))

AddReferences(b, q, D) ==
    LET Enter(c, d) == AddReference(c, q, d)
    IN  FoldLeft(Enter, b, InKeyOrder(D))

\* The view of q has the documents D in limbo: those that left come first.
UpdateTrackedLimboDocuments(b, q, D) ==
    AddReferences(RemoveReferences(b, q, b.limbo[q] \ D), q, D \ b.limbo[q])

\* The current views, in the given order.
UpdateViews(b, order, suspects) ==
    LET Update(c, q) == UpdateTrackedLimboDocuments(c, q, suspects[q])
    IN  FoldLeft(Update, b, order)

-----------------------------------------------------------------------------
\* A new view, which is not current and has nothing in limbo.
Listen(q) ==
    /\ q \notin listening
    /\ listening' = listening \cup {q}
    /\ UNCHANGED <<current, limbo, queued, byKey, lookups>>

\* The app stops listening, or the backend refuses the target.
RemoveAndCleanupTarget(q) ==
    /\ q \in listening
    /\ listening' = listening \ {q}
    /\ current' = [current EXCEPT ![q] = FALSE]
    /\ BooksBecome(UpdateTrackedLimboDocuments(Books, q, {}))

\* A write, its acknowledgement or refusal, a change of user, or a remote event;
\* only the last says which views are current.  A view that is not current leaves
\* its limbo as it is.
EmitNewSnapshots ==
    \E views \in SUBSET listening :
        \E suspects \in [views -> SUBSET Docs], order \in SetToSeqs(views) :
            /\ current' = [q \in Queries |-> q \in views]
            /\ BooksBecome(UpdateViews(Books, order, suspects))
            /\ UNCHANGED listening

\* The backend refuses a lookup: its document leaves every view, as if it had
\* been deleted, and a query with a limit may take in others instead.
HandleRejectedListen(t) ==
    /\ t \in DOMAIN lookups
    /\ LET views == {q \in Queries : current[q]} IN
           \E suspects \in [views -> SUBSET (Docs \ {lookups[t]})], order \in SetToSeqs(views) :
               BooksBecome(UpdateViews(Freed(Books, t), order, suspects))
    /\ UNCHANGED <<listening, current>>

\* The client is offline: no view is current, and no limbo is updated.
HandleOnlineStateChange ==
    /\ current' = [q \in Queries |-> FALSE]
    /\ UNCHANGED <<listening, limbo, queued, byKey, lookups>>

Next ==
    \/ \E q \in Queries : Listen(q)
    \/ \E q \in Queries : RemoveAndCleanupTarget(q)
    \/ EmitNewSnapshots
    \/ \E t \in DOMAIN lookups : HandleRejectedListen(t)
    \/ HandleOnlineStateChange

Spec == Init /\ [][Next]_vars

-----------------------------------------------------------------------------
(* Properties *)

TypeOK ==
    /\ listening \subseteq Queries
    /\ current \in [Queries -> BOOLEAN]
    /\ limbo \in [Queries -> SUBSET Docs]
    /\ queued \in Seq(Docs)
    /\ DOMAIN byKey \subseteq Docs
    /\ \A t \in DOMAIN lookups : lookups[t] \in Docs

\* The two maps agree and a place for a lookup is never left empty while a
\* document waits for one (sync_engine.h:244), through documents that leave
\* limbo, lookups that are refused and queries that end in one and the same task.
LookupsAgree ==
    /\ TypeOK
    /\ \A d \in DOMAIN byKey : byKey[d] \in DOMAIN lookups /\ lookups[byKey[d]] = d
    /\ Cardinality(DOMAIN byKey) <= MaxConcurrent
    /\ queued # <<>> => Cardinality(DOMAIN byKey) = MaxConcurrent

Pursued(d) == d \in DOMAIN byKey \cup Range(queued)

\* A document that comes into limbo is looked up or queued, and stays so for as
\* long as any view has it in limbo, whatever happens to the other views; only
\* the refusal of its lookup may end that.
LimboIsPursued ==
    [][\A d \in Docs :
           InLimbo(d)' =>
               \/ Pursued(d)'
               \/ InLimbo(d) /\ ~Pursued(d)
               \/ \E t \in DOMAIN lookups : lookups[t] = d /\ HandleRejectedListen(t)]_vars
=============================================================================
