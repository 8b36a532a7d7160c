------------------------------- MODULE Session -------------------------------
(***************************************************************************)
(* Who is signed in, and which screens are open.                           *)
(*                                                                         *)
(* AuthenticationViewController asks the device owner to prove himself,    *)
(* LoginViewController and SignUpViewController ask Firebase Auth for a    *)
(* session, RestaurantViewController ends it.  Each request is answered    *)
(* later: Firebase changes the current user on its serial work queue and   *)
(* only then puts the app's callback on the main queue, where it may find  *)
(* that the screen that asked is gone, that another request was answered,  *)
(* or that the user has logged out.  The session is kept in the keychain   *)
(* and survives the process.                                               *)
(*                                                                         *)
(* UIKit is modelled by what the storyboard asks of it: a "show" segue     *)
(* pushes on top of the navigation stack that its source is in, and does   *)
(* nothing when the source is in none; a screen that hides its back button *)
(* cannot be popped.                                                       *)
(***************************************************************************)
EXTENDS Integers, Sequences, FiniteSets, SequencesExt

CONSTANTS
    Accounts,      \* the accounts that can be signed in
    None,          \* no account
    MaxLogins,     \* bound: LoginViewControllers alive at a time
    MaxRequests,   \* bound: requests to Firebase Auth outstanding at a time
    MaxQueue       \* bound: callbacks waiting when the user acts

ASSUME SessionAssumption ==
    /\ None \notin Accounts
    /\ MaxLogins \in Nat /\ MaxRequests \in Nat /\ MaxQueue \in Nat

VARIABLES
    canEvaluate,   \* the device has a passcode, Face ID or Touch ID
    authState,     \* AuthenticationViewController.state
    prompt,        \* the system's authentication prompt is on the screen
    stack,         \* the navigation stack, root first
    requests,      \* requests to Firebase Auth not answered yet
    mainQueue,     \* callbacks waiting for the main thread
    currentUser,   \* Auth.auth().currentUser
    keychain,      \* the user saved by Firebase Auth
    revoked        \* the last session was ended by the server

vars == <<canEvaluate, authState, prompt, stack, requests, mainQueue,
          currentUser, keychain, revoked>>

Users == Accounts \cup {None}
LoginIds == 1 .. MaxLogins
RequestIds == 1 .. MaxRequests

\* id tells the instances of LoginViewController apart; it is 0 elsewhere.
Screens == {"auth", "login", "signUp", "location", "restaurant", "detail"}
View == [screen : Screens, id : 0 .. MaxLogins]
Plain(screen) == [screen |-> screen, id |-> 0]
LoginView(i) == [screen |-> "login", id |-> i]

\* A request remembers the LoginViewController whose closure waits for it.
Idle == [kind |-> "idle", login |-> 0, account |-> None]
Request == [kind : {"signIn", "signUp"}, login : 0 .. MaxLogins, account : Accounts] \cup {Idle}

Callback == [kind : {"granted", "signIn", "signUp"}, login : 0 .. MaxLogins, ok : BOOLEAN]
Granted == [kind |-> "granted", login |-> 0, ok |-> TRUE]

Top == Last(stack)
Push(view) == stack' = Append(stack, view)
Pop == stack' = Front(stack)
InStack(view) == \E i \in 1 .. Len(stack) : stack[i] = view

\* Nobody, not even a waiting closure, refers to this LoginViewController.
IsFree(i) ==
    /\ ~InStack(LoginView(i))
    /\ \A r \in RequestIds : requests[r].login # i
    /\ \A k \in 1 .. Len(mainQueue) : mainQueue[k].login # i

\* The user can touch the screen: nothing covers it.  The bound on callbacks
\* that wait meanwhile is a bound on how far touches run ahead of them.
Touchable == ~prompt /\ Len(mainQueue) < MaxQueue

(* viewDidLoad: state is set to loggedout and authUser starts an evaluation. *)
Init ==
    /\ canEvaluate \in BOOLEAN
    /\ authState = "loggedout"
    /\ prompt = canEvaluate
    /\ stack = <<Plain("auth")>>
    /\ requests = [r \in RequestIds |-> Idle]
    /\ mainQueue = <<>>
    /\ keychain \in Users
    /\ currentUser = keychain
    /\ revoked = FALSE

-----------------------------------------------------------------------------
(* AuthenticationViewController *)

(* authUser: a state left at loggedin by the last visit is only toggled; an  *)
(* alert replaces the prompt when the device cannot evaluate.                *)
TapButton ==
    /\ Touchable
    /\ Top.screen = "auth"
    /\ IF authState = "loggedin"
       THEN authState' = "loggedout" /\ UNCHANGED prompt
       ELSE prompt' = canEvaluate /\ UNCHANGED authState
    /\ UNCHANGED <<canEvaluate, stack, requests, mainQueue, currentUser, keychain, revoked>>

\* Success is handed to the main queue; failure shows an alert.
EvaluationReply(success) ==
    /\ prompt
    /\ prompt' = FALSE
    /\ mainQueue' = IF success THEN Append(mainQueue, Granted) ELSE mainQueue
    /\ UNCHANGED <<canEvaluate, authState, stack, requests, currentUser, keychain, revoked>>

\* Mutation: didSet performs no segue.
RunGrantedWithoutSegue ==
    /\ mainQueue # <<>>
    /\ Head(mainQueue).kind = "granted"
    /\ mainQueue' = Tail(mainQueue)
    /\ authState' = "loggedin"
    /\ UNCHANGED <<canEvaluate, prompt, stack, requests, currentUser, keychain, revoked>>

\* didSet pushes the login screen even if the state was loggedin already.
RunGranted ==
    /\ mainQueue # <<>>
    /\ Head(mainQueue).kind = "granted"
    /\ mainQueue' = Tail(mainQueue)
    /\ authState' = "loggedin"
    /\ \E i \in LoginIds : IsFree(i) /\ Push(LoginView(i))
    /\ UNCHANGED <<canEvaluate, prompt, requests, currentUser, keychain, revoked>>

-----------------------------------------------------------------------------
(* LoginViewController and SignUpViewController *)

Ask(kind, login, account) ==
    \E r \in RequestIds :
        /\ requests[r] = Idle
        /\ requests' = [requests EXCEPT ![r] =
                           [kind |-> kind, login |-> login, account |-> account]]

LoginTap(account) ==
    /\ Touchable
    /\ Top.screen = "login"
    /\ Ask("signIn", Top.id, account)
    /\ UNCHANGED <<canEvaluate, authState, prompt, stack, mainQueue, currentUser,
                   keychain, revoked>>

SignUpButtonTapped(account) ==
    /\ Touchable
    /\ Top.screen = "signUp"
    /\ Ask("signUp", 0, account)
    /\ UNCHANGED <<canEvaluate, authState, prompt, stack, mainQueue, currentUser,
                   keychain, revoked>>

Answered(r, ok) ==
    /\ requests' = [requests EXCEPT ![r] = Idle]
    /\ mainQueue' = Append(mainQueue,
                        [kind |-> requests[r].kind, login |-> requests[r].login, ok |-> ok])

\* Mutation: the user is made current and not saved.
RequestSucceedsUnsaved(r) ==
    /\ requests[r] # Idle
    /\ currentUser' = requests[r].account
    /\ revoked' = FALSE
    /\ Answered(r, TRUE)
    /\ UNCHANGED <<canEvaluate, authState, prompt, stack, keychain>>

\* The decorated callback of FIRAuth, on the work queue: the user is saved and
\* made current before the app's callback is queued, after sign-up too.
RequestSucceeds(r) ==
    /\ requests[r] # Idle
    /\ keychain' = requests[r].account
    /\ currentUser' = requests[r].account
    /\ revoked' = FALSE
    /\ Answered(r, TRUE)
    /\ UNCHANGED <<canEvaluate, authState, prompt, stack>>

\* Refused by the server, timed out, or the keychain would not save the user.
RequestFails(r) ==
    /\ requests[r] # Idle
    /\ Answered(r, FALSE)
    /\ UNCHANGED <<canEvaluate, authState, prompt, stack, currentUser, keychain, revoked>>

\* Mutation: the segue is performed even when the screen that asked is gone.
RunSignInAnywhere ==
    /\ mainQueue # <<>>
    /\ Head(mainQueue).kind = "signIn"
    /\ mainQueue' = Tail(mainQueue)
    /\ IF Head(mainQueue).ok THEN Push(Plain("location")) ELSE UNCHANGED stack
    /\ UNCHANGED <<canEvaluate, authState, prompt, requests, currentUser, keychain, revoked>>

\* Mutation: the segue is performed only from the screen on top.
RunSignInOnTop ==
    /\ mainQueue # <<>>
    /\ Head(mainQueue).kind = "signIn"
    /\ mainQueue' = Tail(mainQueue)
    /\ IF Head(mainQueue).ok /\ Top = LoginView(Head(mainQueue).login)
       THEN Push(Plain("location"))
       ELSE UNCHANGED stack
    /\ UNCHANGED <<canEvaluate, authState, prompt, requests, currentUser, keychain, revoked>>

\* performSegue from the screen that asked, wherever the user is by now.
RunSignIn ==
    /\ mainQueue # <<>>
    /\ Head(mainQueue).kind = "signIn"
    /\ mainQueue' = Tail(mainQueue)
    /\ IF Head(mainQueue).ok /\ InStack(LoginView(Head(mainQueue).login))
       THEN Push(Plain("location"))
       ELSE UNCHANGED stack
    /\ UNCHANGED <<canEvaluate, authState, prompt, requests, currentUser, keychain, revoked>>

\* An alert in both cases; the new user is not taken anywhere.
RunSignUp ==
    /\ mainQueue # <<>>
    /\ Head(mainQueue).kind = "signUp"
    /\ mainQueue' = Tail(mainQueue)
    /\ UNCHANGED <<canEvaluate, authState, prompt, stack, requests, currentUser,
                   keychain, revoked>>

-----------------------------------------------------------------------------
(* Segues that a touch performs, and the back button where it is not hidden. *)

Segue(from, to) ==
    /\ Touchable
    /\ Top.screen = from
    /\ Push(Plain(to))
    /\ UNCHANGED <<canEvaluate, authState, prompt, requests, mainQueue, currentUser,
                   keychain, revoked>>

OpenSignUp == Segue("login", "signUp")
ShowRestaurants == Segue("location", "restaurant")
OpenDetail == Segue("restaurant", "detail")

\* Mutation: no screen hides its back button.
BackFromAnywhere ==
    /\ Touchable
    /\ Pop
    /\ UNCHANGED <<canEvaluate, authState, prompt, requests, mainQueue, currentUser,
                   keychain, revoked>>

Back ==
    /\ Touchable
    /\ Top.screen \in {"signUp", "detail"}
    /\ Pop
    /\ UNCHANGED <<canEvaluate, authState, prompt, requests, mainQueue, currentUser,
                   keychain, revoked>>

-----------------------------------------------------------------------------
(* The end of a session, and of the process *)

\* Mutation: only the screen on top is popped.
LogOutTappedPoppingOne ==
    /\ Touchable
    /\ Top.screen = "restaurant"
    /\ currentUser' = None
    /\ keychain' = IF currentUser = None THEN keychain ELSE None
    /\ Pop
    /\ UNCHANGED <<canEvaluate, authState, prompt, requests, mainQueue, revoked>>

\* signOut on the work queue, then popToRootViewController.  Requests that
\* are outstanding stay so.
LogOutTapped ==
    /\ Touchable
    /\ Top.screen = "restaurant"
    /\ currentUser' = None
    /\ keychain' = IF currentUser = None THEN keychain ELSE None
    /\ stack' = <<stack[1]>>
    /\ UNCHANGED <<canEvaluate, authState, prompt, requests, mainQueue, revoked>>

\* A refresh of the token, for Firestore, finds it invalid.  The user is
\* dropped by force: the keychain may fail to forget him.
RevokeSession ==
    /\ currentUser # None
    /\ currentUser' = None
    /\ keychain' \in {keychain, None}
    /\ revoked' = TRUE
    /\ UNCHANGED <<canEvaluate, authState, prompt, stack, requests, mainQueue>>

\* The process ends and starts again; Firebase Auth reads the saved user.
Restart ==
    /\ canEvaluate' \in BOOLEAN
    /\ authState' = "loggedout"
    /\ prompt' = canEvaluate'
    /\ stack' = <<Plain("auth")>>
    /\ requests' = [r \in RequestIds |-> Idle]
    /\ mainQueue' = <<>>
    /\ currentUser' = keychain
    /\ revoked' = FALSE
    /\ UNCHANGED keychain

-----------------------------------------------------------------------------
MainQueue == RunGranted \/ RunSignIn \/ RunSignUp

Next ==
    \/ TapButton
    \/ \E success \in BOOLEAN : EvaluationReply(success)
    \/ RunGranted
    \/ \E account \in Accounts : LoginTap(account)
    \/ \E account \in Accounts : SignUpButtonTapped(account)
    \/ \E r \in RequestIds : RequestSucceeds(r)
    \/ \E r \in RequestIds : RequestFails(r)
    \/ RunSignIn
    \/ RunSignUp
    \/ OpenSignUp
    \/ ShowRestaurants
    \/ OpenDetail
    \/ Back
    \/ LogOutTapped
    \/ RevokeSession
    \/ Restart

Spec == Init /\ [][Next]_vars

\* The main queue is served, and Firebase Auth answers or times out.
FairSpec ==
    /\ Spec
    /\ WF_vars(MainQueue)
    /\ \A r \in RequestIds : WF_vars(RequestSucceeds(r) \/ RequestFails(r))

-----------------------------------------------------------------------------
(* Properties *)

\* Every variable keeps its type, and the stack is never empty.
TypeOK ==
    /\ canEvaluate \in BOOLEAN
    /\ authState \in {"loggedin", "loggedout"}
    /\ prompt \in BOOLEAN
    /\ stack \in Seq(View) /\ stack # <<>>
    /\ requests \in [RequestIds -> Request]
    /\ mainQueue \in Seq(Callback)
    /\ currentUser \in Users
    /\ keychain \in Users
    /\ revoked \in BOOLEAN

\* The restaurants are only ever on screen in a session, unless the server
\* ended it: no answer that arrives late, twice or after logging out opens
\* LocationViewController for nobody.
SessionBehindScreens ==
    (\E i \in 1 .. Len(stack) : stack[i].screen \in {"location", "restaurant", "detail"})
        => currentUser # None \/ revoked

\* What lies directly under a screen, or somewhere under it, whatever order
\* the touches and the callbacks push in: nobody gets past the login screen
\* without it, and no screen floats on one that does not lead to it.
ScreensGrowFromLogin ==
    \A i \in 1 .. Len(stack) :
        /\ stack[i].screen = "auth" <=> i = 1
        /\ stack[i].screen = "location" =>
               \E j \in 1 .. i - 1 : stack[j].screen = "login"
        /\ stack[i].screen = "signUp" => stack[i - 1].screen = "login"
        /\ stack[i].screen = "restaurant" => stack[i - 1].screen = "location"
        /\ stack[i].screen = "detail" => stack[i - 1].screen = "restaurant"

\* The user a restart would find is the user who is signed in, through
\* overlapping requests, failed saves and logging out.
SavedSessionIsCurrent == currentUser # None => keychain = currentUser

\* Proving to be the device owner opens the login screen in the end, however
\* the callbacks queue up behind those of older requests, unless the process
\* starts anew first.
EvaluationOpensLogin ==
    (\E k \in 1 .. Len(mainQueue) : mainQueue[k] = Granted)
        ~> ((\E i \in LoginIds : InStack(LoginView(i))) \/ Init)

SignedInFrom(i) == [kind |-> "signIn", login |-> i, ok |-> TRUE]

\* A login that Firebase accepted opens the location screen in the end, as long
\* as the screen that asked is open, even under others or after a second touch.
SignInOpensLocation ==
    \A i \in LoginIds :
        (\E k \in 1 .. Len(mainQueue) : mainQueue[k] = SignedInFrom(i)) /\ InStack(LoginView(i))
            ~> ((\E j \in 1 .. Len(stack) : stack[j].screen = "location")
                \/ ~InStack(LoginView(i)))

\* Main.storyboard:676 titles the button "Login with Face-ID": touching it
\* asks the device to evaluate its owner, if it can.  (Violated: after logging
\* out the first touch only resets the state left by the last visit.)
TouchEvaluates == [][TapButton /\ canEvaluate => prompt']_vars

-----------------------------------------------------------------------------
(* The inductive invariant.                                                  *)

\* What keeps SessionBehindScreens: a success that can still push the location
\* screen belongs to a session that has not been ended by the user.  Logging
\* out keeps it, because it removes every login screen a success could find,
\* and a new login screen is one no success waits for.
PendingSignIns ==
    \A k \in 1 .. Len(mainQueue) :
        /\ mainQueue[k].kind = "signIn"
        /\ mainQueue[k].ok
        /\ InStack(LoginView(mainQueue[k].login))
        => currentUser # None \/ revoked

IInv ==
    /\ TypeOK
    /\ PendingSignIns
    /\ SessionBehindScreens
    /\ ScreensGrowFromLogin
    /\ SavedSessionIsCurrent
=============================================================================
