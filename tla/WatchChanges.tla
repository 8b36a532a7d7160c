----------------------------- MODULE WatchChanges -----------------------------
(***************************************************************************)
(* What the watch stream says, and what the client makes of it: the        *)
(* WatchChangeAggregator, which collects the messages of the stream until  *)
(* one of them makes a consistent snapshot, and the part of RemoteStore,   *)
(* LocalStore and View that takes the snapshot.                            *)
(*                                                                         *)
(* A target may be listened to, left and listened to again faster than the *)
(* backend answers; its messages count only when no answer is outstanding. *)
(* A listen resumes from a token, which stands here for the documents that *)
(* the backend takes the client to have.  The backend may have forgotten   *)
(* what was deleted since; then only the number of documents, in an        *)
(* existence filter, tells the client that it has one too many, and it     *)
(* asks for everything again.                                              *)
(*                                                                         *)
(* Targets are queries; documents are what a target holds, their contents  *)
(* are left out.                                                           *)
(***************************************************************************)
EXTENDS Integers, Sequences, FiniteSets, SequencesExt

CONSTANTS
    Targets,      \* what the client may listen to
    Docs,         \* document keys
    NoToken,      \* the empty resume token
    MaxRequests,  \* bound: requests on the wire when the app makes one
    MaxMessages,  \* bound: messages on the wire when the backend sends one
    MaxChanges,   \* bound: changes to documents on the backend
    MaxTroubles   \* bound: streams lost, targets reset or refused

ASSUME WatchAssumption ==
    /\ IsFiniteSet(Docs) /\ \A D \in SUBSET Docs : D # NoToken
    /\ MaxRequests \in Nat /\ MaxMessages \in Nat
    /\ MaxChanges \in Nat /\ MaxTroubles \in Nat

VARIABLES
    listening,    \* listen_targets_, and the targets that have a view
    token,        \* the resume token of each of them in listen_targets_
    stored,       \* the resume token of each target in LocalStore
    keys,         \* synced_documents_ of the view, and the target's keys in LocalStore
    current,      \* current_ of the view
    open,         \* the watch stream is open
    states,       \* target_states_
    mismatched,   \* pending_target_resets_
    requests,     \* on their way to the backend
    messages,     \* on their way to the client
    results,      \* the backend: what each target holds
    serving,      \* the backend: what it has told of each target it watches
    news,         \* the backend: there is something to make a snapshot of
    denied,       \* targets refused on this stream
    astray,       \* targets resumed from a token for more than was stored
    changes,      \* changes so far
    troubles      \* troubles so far

clientVars == <<listening, token, stored, keys, current, states, mismatched, astray>>
backendVars == <<results, serving, news, denied>>
vars == <<clientVars, open, requests, messages, backendVars, changes, troubles>>

Watch(t, k) == [kind |-> "watch", target |-> t, token |-> k]
Unwatch(t) == [kind |-> "unwatch", target |-> t, token |-> NoToken]

-----------------------------------------------------------------------------
(* The state of a target                                                    *)

FreshState == [outstanding |-> 0, current |-> FALSE, changes |-> <<>>]

EnsureTargetState(t) == IF t \in DOMAIN states THEN states[t] ELSE FreshState

With(f, x, v) == [y \in DOMAIN f \cup {x} |-> IF y = x THEN v ELSE f[y]]
Without(f, x) == [y \in DOMAIN f \ {x} |-> f[y]]

WithState(t, s) == With(states, t, s)

\* Mutation: answers are not waited for.
IsListenedTo(t) == t \in listening

IsActiveTarget(t) ==
    /\ t \in listening
    /\ EnsureTargetState(t).outstanding = 0

RecordPendingTargetRequest(s, n) == [s EXCEPT !.outstanding = @ + n]

Changed(s, kind) == {d \in DOMAIN s.changes : s.changes[d] = kind}

AddDocumentToTarget(s, t, d) ==
    [s EXCEPT !.changes = With(@, d, IF d \in keys[t] THEN "modified" ELSE "added")]

RemoveDocumentFromTarget(s, t, d) ==
    [s EXCEPT !.changes = IF d \in keys[t] THEN With(@, d, "removed") ELSE Without(@, d)]

\* Mutation: what the client has is not taken back.
ResetTargetKeepingKeys(t) == FreshState

\* Removes are made up for all that the client has.
ResetTarget(t) == [FreshState EXCEPT !.changes = [d \in keys[t] |-> "removed"]]

Init ==
    /\ listening = {}
    /\ token = [t \in Targets |-> NoToken]
    /\ stored = [t \in Targets |-> NoToken]
    /\ keys = [t \in Targets |-> {}]
    /\ current = [t \in Targets |-> FALSE]
    /\ open = FALSE
    /\ states = <<>>
    /\ mismatched = {}
    /\ requests = <<>> /\ messages = <<>>
    /\ results \in [Targets -> SUBSET Docs]
    /\ serving = <<>> /\ news = FALSE /\ denied = {}
    /\ astray = {}
    /\ changes = 0 /\ troubles = 0

-----------------------------------------------------------------------------
(* The app and the stream                                                   *)

\* A listen from token k, of a client that has these keys, cannot put right what
\* is wrong: what the token promises and is missing is not sent again, and
\* without a token nothing tells of what the client has too much.
Misleads(k, has) == IF k = NoToken THEN has # {} ELSE ~(k \subseteq has)

\* A new view, and a request if the stream is open.
Listen(t) ==
    /\ t \notin listening
    /\ Len(requests) < MaxRequests
    /\ listening' = listening \cup {t}
    /\ token' = [token EXCEPT ![t] = stored[t]]
    /\ current' = [current EXCEPT ![t] = FALSE]
    /\ astray' = IF Misleads(stored[t], keys[t]) THEN astray \cup {t} ELSE astray \ {t}
    /\ IF open
       THEN /\ states' = WithState(t, RecordPendingTargetRequest(EnsureTargetState(t), 1))
            /\ requests' = Append(requests, Watch(t, stored[t]))
       ELSE UNCHANGED <<states, requests>>
    /\ UNCHANGED <<stored, keys, open, mismatched, messages, backendVars, changes, troubles>>

StopListening(t) ==
    /\ t \in listening
    /\ Len(requests) < MaxRequests
    /\ listening' = listening \ {t}
    /\ IF open
       THEN /\ states' = WithState(t, RecordPendingTargetRequest(EnsureTargetState(t), 1))
            /\ requests' = Append(requests, Unwatch(t))
       ELSE UNCHANGED <<states, requests>>
    /\ UNCHANGED <<token, stored, keys, current, open, mismatched, messages, backendVars,
                   astray, changes, troubles>>

\* A new aggregator, and a request for each target.
OnWatchStreamOpen ==
    /\ ~open
    /\ listening # {}
    /\ open' = TRUE
    /\ states' = [t \in listening |-> RecordPendingTargetRequest(FreshState, 1)]
    /\ \E order \in SetToSeqs(listening) :
           requests' = [i \in 1 .. Len(order) |-> Watch(order[i], token[order[i]])]
    /\ astray' = {t \in listening : Misleads(token[t], keys[t])}
    /\ UNCHANGED <<listening, token, stored, keys, current, mismatched, messages,
                   backendVars, changes, troubles>>

OnWatchStreamClose ==
    /\ open
    /\ troubles < MaxTroubles
    /\ troubles' = troubles + 1
    /\ open' = FALSE
    /\ states' = <<>> /\ mismatched' = {}
    /\ requests' = <<>> /\ messages' = <<>>
    /\ serving' = <<>> /\ news' = FALSE /\ denied' = {}
    /\ UNCHANGED <<listening, token, stored, keys, current, results, astray, changes>>

\* The client gives up on the connection.
ApplyOnlineStateChange ==
    /\ ~open
    /\ current' = [t \in Targets |-> FALSE]
    /\ UNCHANGED <<listening, token, stored, keys, states, mismatched, astray, open,
                   requests, messages, backendVars, changes, troubles>>

-----------------------------------------------------------------------------
(* The backend                                                              *)

Says(kind, t) == [kind |-> kind, target |-> t]
Filter(t, n) == [kind |-> "filter", target |-> t, count |-> n]
Document(d, in, out) == [kind |-> "document", doc |-> d, updated |-> in, removed |-> out]
Snapshot(holds) == [kind |-> "snapshot", holds |-> holds]

CanSend == open /\ Len(messages) < MaxMessages

\* A document comes into a target, or leaves it.
ChangeResults(t, d) ==
    /\ changes < MaxChanges
    /\ changes' = changes + 1
    /\ results' = [results EXCEPT ![t] = IF d \in @ THEN @ \ {d} ELSE @ \cup {d}]
    /\ UNCHANGED <<clientVars, open, requests, messages, serving, news, denied, troubles>>

\* What was deleted since the token may be forgotten; a filter will tell.
AcceptWatch(t, k) ==
    /\ \E forgotten \in SUBSET (IF k = NoToken THEN {} ELSE k \ results[t]) :
           serving' = With(serving, t, [told |-> IF k = NoToken THEN {} ELSE k \ forgotten,
                                        current |-> FALSE, filter |-> k # NoToken])
    /\ messages' = Append(messages, Says("added", t))
    /\ UNCHANGED <<denied, troubles>>

RefuseWatch(t) ==
    /\ troubles < MaxTroubles
    /\ troubles' = troubles + 1
    /\ denied' = denied \cup {t}
    /\ messages' = Append(messages, Says("refused", t))
    /\ UNCHANGED serving

HandleRequest ==
    /\ CanSend
    /\ requests # <<>>
    /\ requests' = Tail(requests)
    /\ LET r == Head(requests) IN
           \/ r.kind = "watch" /\ AcceptWatch(r.target, r.token)
           \/ r.kind = "watch" /\ RefuseWatch(r.target)
           \/ /\ r.kind = "unwatch"
              /\ serving' = Without(serving, r.target)
              /\ messages' = Append(messages, Says("removed", r.target))
              /\ UNCHANGED <<denied, troubles>>
    /\ UNCHANGED <<clientVars, open, results, news, changes>>

\* One message for all the targets that a document has entered or left.
SendDocument(d) ==
    /\ CanSend
    /\ LET in == {t \in DOMAIN serving : d \in results[t] \ serving[t].told}
           out == {t \in DOMAIN serving : d \in serving[t].told \ results[t]}
       IN  /\ in \cup out # {}
           /\ messages' = Append(messages, Document(d, in, out))
           /\ serving' = [t \in DOMAIN serving |->
                             [serving[t] EXCEPT !.told = (@ \ {d}) \cup (results[t] \cap {d})]]
    /\ news' = TRUE
    /\ UNCHANGED <<clientVars, open, requests, results, denied, changes, troubles>>

\* A document changes and stays where it is.
SendModified(d) ==
    /\ CanSend
    /\ changes < MaxChanges
    /\ changes' = changes + 1
    /\ LET in == {t \in DOMAIN serving : d \in results[t] \cap serving[t].told} IN
           /\ in # {}
           /\ messages' = Append(messages, Document(d, in, {}))
    /\ news' = TRUE
    /\ UNCHANGED <<clientVars, open, requests, results, serving, denied, troubles>>

SendCurrent(t) ==
    /\ CanSend
    /\ t \in DOMAIN serving
    /\ ~serving[t].current
    /\ serving[t].told = results[t]
    /\ serving' = [serving EXCEPT ![t].current = TRUE, ![t].filter = FALSE]
    /\ messages' = messages \o <<Says("current", t)>>
                     \o IF serving[t].filter
                        THEN <<Filter(t, Cardinality(results[t]))>> ELSE <<>>
    /\ news' = TRUE
    /\ UNCHANGED <<clientVars, open, requests, results, denied, changes, troubles>>

SendReset(t) ==
    /\ CanSend
    /\ troubles < MaxTroubles
    /\ troubles' = troubles + 1
    /\ t \in DOMAIN serving
    /\ serving' = [serving EXCEPT ![t] = [told |-> {}, current |-> FALSE, filter |-> FALSE]]
    /\ messages' = Append(messages, Says("reset", t))
    /\ UNCHANGED <<clientVars, open, requests, results, news, denied, changes>>

\* The whole stream is consistent.  Every snapshot brings a token.
SendSnapshot ==
    /\ CanSend
    /\ news
    /\ \A t \in DOMAIN serving : serving[t].current /\ serving[t].told = results[t]
    /\ messages' = Append(messages, Snapshot(results))
    /\ news' = FALSE
    /\ UNCHANGED <<clientVars, open, requests, results, serving, denied, changes, troubles>>

-----------------------------------------------------------------------------
(* The client reads a message                                               *)

Read(kind) ==
    /\ messages # <<>>
    /\ Head(messages).kind = kind
    /\ messages' = Tail(messages)
    /\ UNCHANGED <<open, backendVars, changes, troubles>>

\* What a message does to the state of its target, and to nothing else.
BecomesState(t, s) ==
    /\ states' = WithState(t, s)
    /\ UNCHANGED <<listening, token, stored, keys, current, mismatched, astray, requests>>

Answered(t) == RecordPendingTargetRequest(EnsureTargetState(t), -1)

\* Mutation: changes of the listen before are kept.
AddedKeepsChanges ==
    /\ Read("added")
    /\ LET t == Head(messages).target IN BecomesState(t, Answered(t))

\* The last answer a target waits for clears what came before it.
TargetAdded ==
    /\ Read("added")
    /\ LET t == Head(messages).target IN
           BecomesState(t, IF Answered(t).outstanding = 0
                           THEN [Answered(t) EXCEPT !.changes = <<>>] ELSE Answered(t))

\* Mutation: the first answer to say so removes the target.
TargetRemovedAtOnce ==
    /\ Read("removed")
    /\ states' = Without(states, Head(messages).target)
    /\ UNCHANGED <<listening, token, stored, keys, current, mismatched, astray, requests>>

\* The last answer removes the target, and what it was told.
TargetRemoved ==
    /\ Read("removed")
    /\ LET t == Head(messages).target IN
           states' = IF Answered(t).outstanding = 0
                     THEN Without(states, t) ELSE WithState(t, Answered(t))
    /\ UNCHANGED <<listening, token, stored, keys, current, mismatched, astray, requests>>

TargetCurrent ==
    /\ Read("current")
    /\ LET t == Head(messages).target
           s == EnsureTargetState(t)
       IN  BecomesState(t, IF IsActiveTarget(t) THEN [s EXCEPT !.current = TRUE] ELSE s)

TargetReset ==
    /\ Read("reset")
    /\ LET t == Head(messages).target IN
           BecomesState(t, IF IsActiveTarget(t) THEN ResetTarget(t) ELSE EnsureTargetState(t))

\* A target that is not listened to any more is ignored, answer and all.
ProcessTargetError ==
    /\ Read("refused")
    /\ LET t == Head(messages).target IN
           /\ listening' = listening \ {t}
           /\ states' = IF t \in listening THEN Without(states, t) ELSE states
    /\ UNCHANGED <<token, stored, keys, current, mismatched, astray, requests>>

HandleDocumentChange ==
    /\ Read("document")
    /\ LET m == Head(messages)
           In(t) == t \in m.updated /\ IsActiveTarget(t)
           Out(t) == t \in m.removed /\ IsActiveTarget(t)
       IN  states' = [t \in DOMAIN states \cup {u \in Targets : In(u) \/ Out(u)} |->
                         IF In(t) THEN AddDocumentToTarget(EnsureTargetState(t), t, m.doc)
                         ELSE IF Out(t) THEN RemoveDocumentFromTarget(EnsureTargetState(t), t, m.doc)
                         ELSE states[t]]
    /\ UNCHANGED <<listening, token, stored, keys, current, mismatched, astray, requests>>

\* Mutation: changes that no snapshot has been made of are not counted.
CountOfKeys(t) == Cardinality(keys[t])

GetCurrentDocumentCountForTarget(t) ==
    Cardinality(keys[t]) + Cardinality(Changed(EnsureTargetState(t), "added"))
                         - Cardinality(Changed(EnsureTargetState(t), "removed"))

HandleExistenceFilter ==
    /\ Read("filter")
    /\ LET t == Head(messages).target IN
           IF IsActiveTarget(t) /\ GetCurrentDocumentCountForTarget(t) # Head(messages).count
           THEN states' = WithState(t, ResetTarget(t)) /\ mismatched' = mismatched \cup {t}
           ELSE UNCHANGED <<states, mismatched>>
    /\ UNCHANGED <<listening, token, stored, keys, current, astray, requests>>

\* Each target of the order is left and listened to again.
Rewatch(order) ==
    [i \in 1 .. 2 * Len(order) |->
        LET t == order[(i + 1) \div 2] IN IF i % 2 = 1 THEN Unwatch(t) ELSE Watch(t, NoToken)]

\* The targets a snapshot takes changes from; the token it brings marks each of
\* them as changed.
Included == {t \in DOMAIN states : IsActiveTarget(t)}

\* The documents and the token of each target are stored; a target that does
\* not match is listened to again without a token, which is not stored.
TakeSnapshot(holds, again) ==
    /\ keys' = [t \in Targets |->
                   IF t \in Included
                   THEN (keys[t] \cup Changed(states[t], "added")) \ Changed(states[t], "removed")
                   ELSE keys[t]]
    /\ current' = [t \in Targets |-> IF t \in Included THEN states[t].current ELSE current[t]]
    /\ stored' = [t \in Targets |-> IF t \in Included THEN holds[t] ELSE stored[t]]
    /\ token' = [t \in Targets |-> IF t \in again THEN NoToken
                                   ELSE IF t \in Included THEN holds[t] ELSE token[t]]
    /\ states' = [t \in DOMAIN states \cup again |->
                     RecordPendingTargetRequest(
                         IF t \in Included THEN [states[t] EXCEPT !.changes = <<>>]
                                           ELSE EnsureTargetState(t),
                         IF t \in again THEN 2 ELSE 0)]
    /\ \E order \in SetToSeqs(again) : requests' = requests \o Rewatch(order)
    /\ astray' = (astray \ again) \cup {t \in again : Misleads(NoToken, keys'[t])}
    /\ mismatched' = {}
    /\ UNCHANGED listening

\* Mutation: a target that does not match is not listened to again.
RaiseWatchSnapshotOnly ==
    /\ Read("snapshot")
    /\ TakeSnapshot(Head(messages).holds, {})

RaiseWatchSnapshot ==
    /\ Read("snapshot")
    /\ TakeSnapshot(Head(messages).holds, mismatched \cap listening)

ClientReads ==
    \/ TargetAdded
    \/ TargetRemoved
    \/ TargetCurrent
    \/ TargetReset
    \/ ProcessTargetError
    \/ HandleDocumentChange
    \/ HandleExistenceFilter
    \/ RaiseWatchSnapshot

BackendSends ==
    \/ HandleRequest
    \/ \E d \in Docs : SendDocument(d)
    \/ \E t \in Targets : SendCurrent(t)
    \/ SendSnapshot

Next ==
    \/ \E t \in Targets : Listen(t)
    \/ \E t \in Targets : StopListening(t)
    \/ OnWatchStreamOpen
    \/ OnWatchStreamClose
    \/ ApplyOnlineStateChange
    \/ \E t \in Targets, d \in Docs : ChangeResults(t, d)
    \/ BackendSends
    \/ \E d \in Docs : SendModified(d)
    \/ \E t \in Targets : SendReset(t)
    \/ ClientReads

Spec == Init /\ [][Next]_vars

\* The stream is opened, the client reads, the backend answers and tells.
FairSpec ==
    /\ Spec
    /\ WF_vars(OnWatchStreamOpen)
    /\ WF_vars(ClientReads)
    /\ WF_vars(BackendSends)

-----------------------------------------------------------------------------
(* Properties *)

\* Requests for a target on their way, and answers on theirs.
OnTheWire(t) ==
    Cardinality({i \in 1 .. Len(requests) : requests[i].target = t})
    + Cardinality({i \in 1 .. Len(messages) :
                      messages[i].kind \in {"added", "removed"} /\ messages[i].target = t})

\* Types, and remote_event.h:208, "The number of outstanding responses (adds or
\* removes) that we are waiting on": through listens that overtake one another,
\* listens again after a mismatch and lost streams it is that number, as long as
\* no listen of the target was refused on this stream.
OutstandingResponses ==
    /\ listening \subseteq Targets
    /\ \A t \in Targets :
           /\ keys[t] \subseteq Docs
           /\ open /\ t \notin denied => EnsureTargetState(t).outstanding = OnTheWire(t)
           /\ ~open => EnsureTargetState(t) = FreshState

\* A view that is told it is current has what the backend had in that snapshot:
\* what is taken as a change for a target belongs to the listen it waits for, and
\* deletes that the backend forgot show in the count.  Not so where the listen
\* could not put right what was wrong (Misleads).
CurrentIsTrue ==
    [][RaiseWatchSnapshot =>
           \A t \in Included \ (astray \cup denied) :
               current'[t] => keys'[t] = Head(messages).holds[t]]_vars

\* A view that stays catches up with the backend, through lost streams, resets,
\* listens that cross and deletes that were forgotten, again unless its listen
\* was misled.
ViewsCatchUp ==
    \A t \in Targets :
        <>[](t \in listening /\ t \notin denied \cup astray)
            => <>[](current[t] /\ keys[t] = results[t])

\* remote_store.cc:329, "Clear the resume token for the query, since we're in a
\* known mismatch state": the next listen does not promise the backend documents
\* that the client has dropped.  (Violated: the token of the snapshot with the
\* mismatch is stored.)
TokensAreStored ==
    \A t \in Targets : stored[t] = NoToken \/ stored[t] \subseteq keys[t]

-----------------------------------------------------------------------------
(* Inductive invariants, which the proofs are about                         *)

Tokens == {NoToken} \cup SUBSET Docs
DocumentChanges == UNION {[D -> {"added", "modified", "removed"}] : D \in SUBSET Docs}
TargetState == [outstanding : Int, current : BOOLEAN, changes : DocumentChanges]
Told == [told : SUBSET Docs, current : BOOLEAN, filter : BOOLEAN]
Request == [kind : {"watch", "unwatch"}, target : Targets, token : Tokens]
Message ==
    [kind : {"added", "removed", "refused", "current", "reset"}, target : Targets]
    \cup [kind : {"filter"}, target : Targets, count : Nat]
    \cup [kind : {"document"}, doc : Docs, updated : SUBSET Targets, removed : SUBSET Targets]
    \cup [kind : {"snapshot"}, holds : [Targets -> SUBSET Docs]]

WatchTypeOK ==
    /\ listening \in SUBSET Targets /\ IsFiniteSet(listening)
    /\ token \in [Targets -> Tokens] /\ stored \in [Targets -> Tokens]
    /\ keys \in [Targets -> SUBSET Docs] /\ current \in [Targets -> BOOLEAN]
    /\ open \in BOOLEAN
    /\ DOMAIN states \subseteq Targets /\ states \in [DOMAIN states -> TargetState]
    /\ requests \in Seq(Request) /\ messages \in Seq(Message)
    /\ results \in [Targets -> SUBSET Docs]
    /\ DOMAIN serving \subseteq Targets /\ serving \in [DOMAIN serving -> Told]

\* A stream that is closed has left nothing behind.
ClosedIsEmpty == ~open => states = <<>> /\ requests = <<>> /\ messages = <<>> /\ serving = <<>>

RefusalsAreKnown ==
    \A i \in 1 .. Len(messages) : messages[i].kind = "refused" => messages[i].target \in denied

WatchIInv == WatchTypeOK /\ ClosedIsEmpty /\ RefusalsAreKnown /\ OutstandingResponses

\* What the client will have stored of a target when it takes the next snapshot.
Has(t) ==
    LET s == EnsureTargetState(t) IN (keys[t] \cup Changed(s, "added")) \ Changed(s, "removed")

IsAnswer(m, t) == m.kind \in {"added", "removed"} /\ m.target = t

\* Between a and b the backend has sent m: what it had told of t.
Tells(t, a, m, b) ==
    /\ m.kind = "document" =>
           /\ b.told = (a.told \ {d \in {m.doc} : t \in m.removed})
                             \cup {d \in {m.doc} : t \in m.updated}
           /\ b.current = a.current /\ b.filter = a.filter
    /\ m.kind = "current" /\ m.target = t =>
           ~a.current /\ b.current /\ b.told = a.told /\ b.filter = a.filter
    /\ m.kind = "filter" /\ m.target = t =>
           /\ a.filter /\ a.current /\ m.count = Cardinality(a.told)
           /\ ~b.filter /\ b.current /\ b.told = a.told
    /\ m.kind = "reset" /\ m.target = t => b.told = {} /\ ~b.current /\ ~b.filter
    /\ m.kind = "snapshot" => a.current /\ ~a.filter /\ m.holds[t] = a.told /\ b = a
    /\ m.kind \in {"current", "filter", "reset"} /\ m.target # t => b = a
    /\ m.kind \in {"added", "removed", "refused"} => b = a

\* The backend answered the listen of t with the b-th of these messages, or
\* before all of them if b = 0, and has told more and more, f, until now.
History(t, msgs, b, f, now) ==
    /\ b \in 0 .. Len(msgs) /\ f \in [0 .. Len(msgs) -> Told]
    /\ b # 0 => msgs[b].kind = "added" /\ msgs[b].target = t
    /\ \A i \in b + 1 .. Len(msgs) :
           ~IsAnswer(msgs[i], t) /\ Tells(t, f[i - 1], msgs[i], f[i])
    /\ f[Len(msgs)] = now

\* A client that has these keys has all it was told, and no more once a filter
\* has been compared.
Agrees(has, s) == s.told \subseteq has /\ (s.filter \/ has = s.told)

\* After a filter that did not match, nothing is current until a reset.
Mismatched(t, s) == s.current /\ ~s.filter /\ ~EnsureTargetState(t).current

\* The last request for t is still to be handled.
AsksAgain(t) ==
    \E j \in 1 .. Len(requests) :
        /\ requests[j].kind = "watch" /\ requests[j].target = t
        /\ ~Misleads(requests[j].token, keys[t])
        /\ \A i \in j + 1 .. Len(requests) : requests[i].target # t

\* What the backend has told of t since fits what the client has.
IsTold(t) ==
    /\ \A i \in 1 .. Len(requests) : requests[i].target # t
    /\ t \in DOMAIN serving
    /\ \E b \in 0 .. Len(messages), f \in [0 .. Len(messages) -> Told] :
           /\ History(t, messages, b, f, serving[t])
           /\ IF b = 0 THEN Agrees(Has(t), f[0]) \/ Mismatched(t, f[0]) ELSE Agrees(keys[t], f[b])

FilterAfterCurrent == \A t \in DOMAIN serving : ~(serving[t].current /\ serving[t].filter)

ChangesFit ==
    \A t \in DOMAIN states :
        \A d \in DOMAIN states[t].changes :
            /\ states[t].changes[d] = "added" => d \notin keys[t]
            /\ states[t].changes[d] = "removed" => d \in keys[t]

Followed == open => \A t \in listening \ (denied \cup astray) : AsksAgain(t) \/ IsTold(t)

CurrentIInv == WatchIInv /\ FilterAfterCurrent /\ ChangesFit /\ Followed
=============================================================================
