------------------------------ MODULE CloudList ------------------------------
(***************************************************************************)
(* FavouritesViewController and PhotosViewController, each a table fed by  *)
(* a snapshot listener on a collection of the Firestore client of          *)
(* CloudStore.                                                             *)
(*                                                                         *)
(* The client raises an event, with all documents of the collection, each  *)
(* time they change in the local view.  The closure appends a row for each *)
(* document and puts a block on the main queue for each row, which tells   *)
(* the table to count its rows again and to scroll to the last one.  Until *)
(* that block runs the table draws and is touched with the old count.      *)
(*                                                                         *)
(* The listener is never removed, so the screen is fed for as long as the  *)
(* process lives, off screen and under other users.  A new screen starts a *)
(* listener of its own; one of them is modelled.                           *)
(***************************************************************************)
EXTENDS CloudStore

CONSTANT MaxRows  \* bound: rows and tasks there are when the app deletes

\* A document is named by 20 letters and digits, drawn by AutoId, so there are
\* finitely many names.
ASSUME ListAssumption == MaxRows \in Nat /\ IsFiniteSet(Docs)

VARIABLES
    list,         \* which screen this is, once it was opened
    listener,     \* the user it was opened for, and the documents last raised
    tasks,        \* the main queue: snapshots, and blocks that reload and scroll
    restaurant,   \* the rows of the table
    dbUserArray,  \* who uploaded each of them, for the photos
    counted,      \* the number of rows the table knows of
    selected      \* selectedRestaurant, or None before the first touch

listVars == <<list, listener, tasks, restaurant, dbUserArray, counted, selected>>
allVars == <<user, queue, cache, online, results, watch, server, author, refused,
             mainQueue, drops, list, listener, tasks, restaurant, dbUserArray,
             counted, selected>>

Snapshot(D) == [kind |-> "snapshot", docs |-> D]
Scroll == [kind |-> "scroll", docs |-> {}]
Task == [kind : {"snapshot"}, docs : SUBSET Docs] \cup {Scroll}

Shown == {d \in Docs : Visible(d)}

Closed ==
    /\ list = "closed"
    /\ listener = [currentUser |-> None, raised |-> {}]
    /\ tasks = <<>>
    /\ restaurant = <<>>
    /\ dbUserArray = <<>>
    /\ counted = 0
    /\ selected = None

ListInit == Init /\ Closed

-----------------------------------------------------------------------------
(* The screen *)

\* An event is raised when the documents differ from those raised last.
Raise(D) ==
    /\ listener' = [listener EXCEPT !.raised = D]
    /\ tasks' = IF D = listener.raised THEN tasks ELSE Append(tasks, Snapshot(D))

\* viewDidLoad: currentUser is read once.
Load(kind) ==
    /\ list = "closed"
    /\ user # None
    /\ list' = kind
    /\ listener' = [currentUser |-> user, raised |-> Shown]
    /\ tasks' = IF Shown = {} THEN <<>> ELSE <<Snapshot(Shown)>>
    /\ UNCHANGED <<restaurant, dbUserArray, counted, selected>>
    /\ UNCHANGED vars

LoadRestaurants == Load("favourites")
LoadPhotos == Load("photos")

\* Mutation: the user is read again whenever a snapshot comes.
ListedNow(d) == list = "photos" \/ author[d] = user

\* The favourites of one user, the photos of everybody.
Listed(d) == list = "photos" \/ author[d] = listener.currentUser

\* Mutation: the rows of the last snapshot are cleared first.
RunSnapshotClearing ==
    /\ tasks # <<>>
    /\ Head(tasks).kind = "snapshot"
    /\ LET rows == SetToSeq({d \in Head(tasks).docs : Listed(d)}) IN
           /\ restaurant' = rows
           /\ dbUserArray' = [i \in 1 .. Len(rows) |-> author[rows[i]]]
           /\ tasks' = Tail(tasks) \o [i \in 1 .. Len(rows) |-> Scroll]
    /\ UNCHANGED <<list, listener, counted, selected>>
    /\ UNCHANGED vars

\* Mutation: the rows are counted when the snapshot is handled, by its documents.
RunSnapshotUnfiltered ==
    /\ tasks # <<>>
    /\ Head(tasks).kind = "snapshot"
    /\ LET docs == Head(tasks).docs
           rows == SetToSeq({d \in docs : Listed(d)}) IN
           /\ restaurant' = restaurant \o rows
           /\ dbUserArray' = dbUserArray \o [i \in 1 .. Len(rows) |-> author[rows[i]]]
           /\ tasks' = Tail(tasks) \o [i \in 1 .. Cardinality(docs) |-> Scroll]
    /\ UNCHANGED <<list, listener, counted, selected>>
    /\ UNCHANGED vars

\* All documents are appended again; nothing is ever taken away.
RunSnapshot ==
    /\ tasks # <<>>
    /\ Head(tasks).kind = "snapshot"
    /\ LET rows == SetToSeq({d \in Head(tasks).docs : Listed(d)}) IN
           /\ restaurant' = restaurant \o rows
           /\ dbUserArray' = dbUserArray \o [i \in 1 .. Len(rows) |-> author[rows[i]]]
           /\ tasks' = Tail(tasks) \o [i \in 1 .. Len(rows) |-> Scroll]
    /\ UNCHANGED <<list, listener, counted, selected>>
    /\ UNCHANGED vars

\* reloadData, then scrollToRow(count - 1).
RunScroll ==
    /\ tasks # <<>>
    /\ Head(tasks) = Scroll
    /\ tasks' = Tail(tasks)
    /\ counted' = Len(restaurant)
    /\ UNCHANGED <<list, listener, restaurant, dbUserArray, selected>>
    /\ UNCHANGED vars

\* The user touches one of the rows that the table has drawn.
DidSelectRow(row) ==
    /\ row \in 1 .. counted
    /\ selected' = restaurant[row]
    /\ UNCHANGED <<list, listener, tasks, restaurant, dbUserArray, counted>>
    /\ UNCHANGED vars

-----------------------------------------------------------------------------
(* What may change the local view: after it, the listener is told. *)

\* Mutation: only what the backend sends is raised.
EmitNewSnapshotsFromWatch ==
    /\ IF list # "closed" /\ watch # Nothing
       THEN Raise({d \in Docs : Visible(d)'}) ELSE UNCHANGED <<listener, tasks>>
    /\ UNCHANGED <<list, restaurant, dbUserArray, counted, selected>>

EmitNewSnapshots ==
    /\ IF list # "closed"
       THEN Raise({d \in Docs : Visible(d)'}) ELSE UNCHANGED <<listener, tasks>>
    /\ UNCHANGED <<list, restaurant, dbUserArray, counted, selected>>

ListRestart ==
    /\ Restart
    /\ list' = "closed"
    /\ listener' = [currentUser |-> None, raised |-> {}]
    /\ tasks' = <<>>
    /\ restaurant' = <<>>
    /\ dbUserArray' = <<>>
    /\ counted' = 0
    /\ selected' = None

ListNext ==
    \/ LoadRestaurants
    \/ LoadPhotos
    \/ RunSnapshot
    \/ RunScroll
    \/ \E row \in 1 .. counted : DidSelectRow(row)
    \/ \E d \in Docs, caller \in Callers : AddDocument(d, caller) /\ EmitNewSnapshots
    \/ \E d \in Docs :
           /\ Len(restaurant) + Len(tasks) < MaxRows
           /\ DeleteDocument(d)
           /\ EmitNewSnapshots
    \/ HandleSuccessfulWrite /\ EmitNewSnapshots
    \/ HandleRejectedWrite /\ EmitNewSnapshots
    \/ ApplyRemoteEvent /\ EmitNewSnapshots
    \/ \E u \in Users : HandleCredentialChange(u) /\ EmitNewSnapshots
    \/ RunCompletion /\ UNCHANGED listVars
    \/ Commit /\ UNCHANGED listVars
    \/ Refuse /\ UNCHANGED listVars
    \/ \E d \in Docs : OtherDevice(d) /\ UNCHANGED listVars
    \/ SendSnapshot /\ UNCHANGED listVars
    \/ Connect /\ UNCHANGED listVars
    \/ LoseConnection /\ UNCHANGED listVars
    \/ ListRestart

ListSpec == ListInit /\ [][ListNext]_allVars

-----------------------------------------------------------------------------
(* Properties *)

\* Whatever arrives between the append and the block that counts the rows, the
\* table never draws or scrolls to a row that is not there, and a photo never
\* comes without its sender.
TableWithinRows ==
    /\ counted <= Len(restaurant)
    /\ Len(dbUserArray) = Len(restaurant)
    /\ (\E k \in 1 .. Len(tasks) : tasks[k] = Scroll) => restaurant # <<>>

\* Once the main queue is served, every document of the local view that
\* belongs in the list is in it: no change is missed, through pending writes,
\* refusals, snapshots of the backend and changes of user.
NothingMissing ==
    list # "closed" /\ tasks = <<>> =>
        /\ \A d \in Shown : Listed(d) => \E i \in 1 .. Len(restaurant) : restaurant[i] = d
        /\ counted = Len(restaurant)

\* The favourites of two users are never in one list, although the listener
\* outlives the session it was started in.
FavouritesOfOneUser ==
    list = "favourites" =>
        \A i, j \in 1 .. Len(restaurant) : author[restaurant[i]] = author[restaurant[j]]

\* Every variable of the screen keeps its type; what the user picked last is
\* among the rows.
ListTypeOK ==
    /\ list \in {"closed", "favourites", "photos"}
    /\ listener \in [currentUser : Users, raised : SUBSET Docs]
    /\ \A k \in 1 .. Len(tasks) : tasks[k] \in Task
    /\ \A i \in 1 .. Len(restaurant) : restaurant[i] \in Docs
    /\ \A i \in 1 .. Len(dbUserArray) : dbUserArray[i] \in Accounts \cup {Other}
    /\ counted \in Nat
    /\ selected \in Range(restaurant) \cup {None}

-----------------------------------------------------------------------------
(* The inductive invariant.                                                  *)

\* The arrays of the screen and the main queue are sequences, and a screen that
\* is not open has nothing in its arrays.
ListSequences ==
    /\ tasks \in Seq(Task)
    /\ restaurant \in Seq(Docs)
    /\ dbUserArray \in Seq(Accounts \cup {Other})
    /\ list = "closed" =>
           tasks = <<>> /\ restaurant = <<>> /\ dbUserArray = <<>> /\ counted = 0
    /\ list # "closed" => listener.currentUser # None

\* What is told was added by somebody, and a list of favourites holds those of
\* the user it was opened for.
RowsHaveAuthors ==
    /\ \A k \in 1 .. Len(tasks) : \A d \in tasks[k].docs : author[d] # None
    /\ list = "favourites" =>
           \A i \in 1 .. Len(restaurant) : author[restaurant[i]] = listener.currentUser

\* The listener was told of the local view as it is.
RaisedIsShown == list # "closed" => listener.raised = Shown

\* A document raised and not in the rows yet is in a snapshot on its way.
RaisedArrives ==
    list # "closed" =>
        \A d \in listener.raised :
            Listed(d) =>
                \/ \E i \in 1 .. Len(restaurant) : restaurant[i] = d
                \/ \E k \in 1 .. Len(tasks) : d \in tasks[k].docs

\* Rows that the table does not know of have a block on its way.
CountArrives ==
    counted # Len(restaurant) => \E k \in 1 .. Len(tasks) : tasks[k] = Scroll

ListIInv ==
    /\ ListTypeOK /\ ListSequences /\ TableWithinRows /\ RowsHaveAuthors
    /\ RaisedIsShown /\ RaisedArrives /\ CountArrives
=============================================================================
