---------------------------- MODULE DocumentLife ----------------------------
(***************************************************************************)
(* What the Firestore client promises for each document the app adds: it   *)
(* waits until the backend has taken it or refused it, it appears on the   *)
(* backend only while it waits, and what was settled and is then deleted   *)
(* stays away.  There are no streams, caches, results or restarts here;    *)
(* CloudStore has them, and implements this.                               *)
(*                                                                         *)
(* A document that waits may be stored more than once: its write is sent   *)
(* again when the answer was lost, also if somebody deleted the document   *)
(* in between.                                                             *)
(***************************************************************************)
CONSTANTS
    Accounts,   \* the users of this device
    None,       \* the author of an unused document
    Other,      \* another device
    Docs        \* document names

VARIABLES
    author,     \* who created a document
    waiting,    \* documents whose creation is not settled
    stored,     \* what the backend holds of a document
    refused     \* documents whose creation the backend refused

lifeVars == <<author, waiting, stored, refused>>

LifeInit ==
    /\ author = [d \in Docs |-> None]
    /\ waiting = {}
    /\ stored = [d \in Docs |-> "never"]
    /\ refused = {}

Add(d) ==
    /\ author[d] = None
    /\ \E u \in Accounts : author' = [author EXCEPT ![d] = u]
    /\ waiting' = waiting \cup {d}
    /\ UNCHANGED <<stored, refused>>

AddElsewhere(d) ==
    /\ author[d] = None
    /\ author' = [author EXCEPT ![d] = Other]
    /\ stored' = [stored EXCEPT ![d] = "present"]
    /\ UNCHANGED <<waiting, refused>>

Store(d) ==
    /\ d \in waiting
    /\ stored' = [stored EXCEPT ![d] = "present"]
    /\ UNCHANGED <<author, waiting, refused>>

\* By anybody, of any document somebody has added.
Delete(d) ==
    /\ author[d] # None
    /\ stored' = [stored EXCEPT ![d] = "gone"]
    /\ UNCHANGED <<author, waiting, refused>>

Settle(d) ==
    /\ d \in waiting
    /\ stored[d] # "never"
    /\ waiting' = waiting \ {d}
    /\ UNCHANGED <<author, stored, refused>>

Refuse(d) ==
    /\ d \in waiting
    /\ waiting' = waiting \ {d}
    /\ refused' = refused \cup {d}
    /\ UNCHANGED <<author, stored>>

LifeNext ==
    \E d \in Docs :
        Add(d) \/ AddElsewhere(d) \/ Store(d) \/ Delete(d) \/ Settle(d) \/ Refuse(d)

LifeSpec == LifeInit /\ [][LifeNext]_lifeVars
=============================================================================
