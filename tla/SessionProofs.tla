---------------------------- MODULE SessionProofs ----------------------------
(* Proofs of the safety properties of Session, for every set of accounts and  *)
(* every bound.                                                               *)
EXTENDS Session, SequenceTheorems, TLAPS

LEMMA ViewTypes ==
    /\ \A screen \in Screens : Plain(screen) \in View
    /\ \A i \in LoginIds : LoginView(i) \in View
    /\ Granted \in Callback
    /\ Idle \in Request
BY SessionAssumption DEF Plain, LoginView, View, Screens, LoginIds, Granted, Callback, Idle, Request, Users

(* What pushing, popping and answering do to the sequences.                   *)
LEMMA PushFacts ==
    ASSUME stack \in Seq(View), NEW view \in View, Push(view)
    PROVE  /\ stack' \in Seq(View) /\ stack' # <<>>
           /\ Len(stack) \in Nat
           /\ Len(stack') = Len(stack) + 1
           /\ \A i \in 1 .. Len(stack) : stack'[i] = stack[i]
           /\ stack'[Len(stack) + 1] = view
BY AppendProperties, LenProperties DEF Push

LEMMA PopFacts ==
    ASSUME stack \in Seq(View), Len(stack) > 1, Pop
    PROVE  /\ stack' \in Seq(View) /\ stack' # <<>>
           /\ Len(stack) \in Nat
           /\ Len(stack') = Len(stack) - 1
           /\ \A i \in 1 .. Len(stack') : stack'[i] = stack[i]
<1>1. /\ Len(stack) \in Nat
      /\ \A i \in 1 .. Len(stack) - 1 : stack[i] \in View
    BY LenProperties, ElementOfSeq
<1>2. stack' = SubSeq(stack, 1, Len(stack) - 1)
    BY DEF Pop, Front
<1>3. /\ stack' \in Seq(View)
      /\ Len(stack') = Len(stack) - 1
      /\ \A i \in 1 .. Len(stack) - 1 : stack'[i] = stack[i]
    BY <1>1, <1>2, SubSeqProperties
<1>4. stack' # <<>>
    BY <1>1, <1>3
<1> QED BY <1>1, <1>3, <1>4

LEMMA DequeueFacts ==
    ASSUME mainQueue \in Seq(Callback), mainQueue # <<>>, mainQueue' = Tail(mainQueue)
    PROVE  /\ mainQueue' \in Seq(Callback)
           /\ Head(mainQueue) = mainQueue[1]
           /\ mainQueue[1] \in Callback
           /\ 1 \in 1 .. Len(mainQueue)
           /\ \A k \in 1 .. Len(mainQueue') :
                 k + 1 \in 1 .. Len(mainQueue) /\ mainQueue'[k] = mainQueue[k + 1]
<1>1. /\ Head(mainQueue) \in Callback /\ mainQueue' \in Seq(Callback)
      /\ Len(mainQueue') = Len(mainQueue) - 1
      /\ \A k \in 1 .. Len(mainQueue') : mainQueue'[k] = mainQueue[k + 1]
    BY HeadTailProperties
<1>2. Len(mainQueue) \in Nat /\ Len(mainQueue) # 0
    BY LenProperties, EmptySeq
<1>3. Head(mainQueue) = mainQueue[1]
    OBVIOUS
<1> QED BY <1>1, <1>2, <1>3

LEMMA EnqueueFacts ==
    ASSUME mainQueue \in Seq(Callback), NEW callback \in Callback,
           mainQueue' = Append(mainQueue, callback)
    PROVE  /\ mainQueue' \in Seq(Callback)
           /\ \A k \in 1 .. Len(mainQueue') :
                 \/ k \in 1 .. Len(mainQueue) /\ mainQueue'[k] = mainQueue[k]
                 \/ mainQueue'[k] = callback
BY AppendProperties, LenProperties

LEMMA AnswerFacts ==
    ASSUME TypeOK, NEW r \in RequestIds, NEW ok \in BOOLEAN, requests[r] # Idle, Answered(r, ok)
    PROVE  /\ requests' \in [RequestIds -> Request]
           /\ mainQueue' \in Seq(Callback)
           /\ \A k \in 1 .. Len(mainQueue') :
                 \/ k \in 1 .. Len(mainQueue) /\ mainQueue'[k] = mainQueue[k]
                 \/ mainQueue'[k].ok = ok
<1>1. requests[r] \in [kind : {"signIn", "signUp"}, login : 0 .. MaxLogins, account : Accounts]
    BY DEF TypeOK, Request
<1>2. [kind |-> requests[r].kind, login |-> requests[r].login, ok |-> ok] \in Callback
    BY <1>1 DEF Callback
<1>3. requests' \in [RequestIds -> Request]
    BY ViewTypes DEF TypeOK, Answered
<1>4. /\ mainQueue' \in Seq(Callback)
      /\ \A k \in 1 .. Len(mainQueue') :
             \/ k \in 1 .. Len(mainQueue) /\ mainQueue'[k] = mainQueue[k]
             \/ mainQueue'[k] = [kind |-> requests[r].kind, login |-> requests[r].login, ok |-> ok]
    BY <1>2, EnqueueFacts DEF TypeOK, Answered
<1> QED BY <1>3, <1>4

-----------------------------------------------------------------------------
LEMMA TypeStep == TypeOK /\ ScreensGrowFromLogin /\ [Next]_vars => TypeOK'
<1> SUFFICES ASSUME TypeOK, ScreensGrowFromLogin, [Next]_vars PROVE TypeOK'
    OBVIOUS
<1>1. CASE TapButton
    BY <1>1 DEF TypeOK, TapButton
<1>2. ASSUME NEW success \in BOOLEAN, EvaluationReply(success) PROVE TypeOK'
    <2>1. mainQueue' \in Seq(Callback)
        BY <1>2, ViewTypes, EnqueueFacts DEF TypeOK, EvaluationReply
    <2> QED BY <1>2, <2>1 DEF TypeOK, EvaluationReply
<1>3. CASE RunGranted
    <2>1. mainQueue' \in Seq(Callback)
        BY <1>3, DequeueFacts DEF TypeOK, RunGranted
    <2>2. stack' \in Seq(View) /\ stack' # <<>>
        BY <1>3, ViewTypes, PushFacts DEF TypeOK, RunGranted
    <2> QED BY <1>3, <2>1, <2>2 DEF TypeOK, RunGranted
<1>4. ASSUME NEW account \in Accounts, LoginTap(account) \/ SignUpButtonTapped(account)
      PROVE TypeOK'
    <2>1. Top \in View
        <3>1. Len(stack) \in 1 .. Len(stack)
            BY LenProperties, EmptySeq DEF TypeOK
        <3> QED BY <3>1, ElementOfSeq DEF TypeOK, Top, Last
    <2>2. Top.id \in 0 .. MaxLogins /\ 0 \in 0 .. MaxLogins
        BY <2>1, SessionAssumption DEF View
    <2>3. PICK kind \in {"signIn", "signUp"}, login \in 0 .. MaxLogins : Ask(kind, login, account)
        BY <1>4, <2>2 DEF LoginTap, SignUpButtonTapped
    <2>4. [kind |-> kind, login |-> login, account |-> account] \in Request
        BY DEF Request
    <2>5. requests' \in [RequestIds -> Request]
        BY <2>3, <2>4 DEF Ask, TypeOK
    <2> QED BY <1>4, <2>5 DEF TypeOK, LoginTap, SignUpButtonTapped
<1>5. ASSUME NEW r \in RequestIds, RequestSucceeds(r) PROVE TypeOK'
    <2>1. requests[r].account \in Users
        BY <1>5 DEF TypeOK, Request, RequestSucceeds, Users
    <2>2. requests' \in [RequestIds -> Request] /\ mainQueue' \in Seq(Callback)
        BY <1>5, AnswerFacts DEF RequestSucceeds
    <2> QED BY <1>5, <2>1, <2>2 DEF TypeOK, RequestSucceeds
<1>6. ASSUME NEW r \in RequestIds, RequestFails(r) PROVE TypeOK'
    <2>1. requests' \in [RequestIds -> Request] /\ mainQueue' \in Seq(Callback)
        BY <1>6, AnswerFacts DEF RequestFails
    <2> QED BY <1>6, <2>1 DEF TypeOK, RequestFails
<1>7. CASE RunSignIn
    <2>1. mainQueue' \in Seq(Callback)
        BY <1>7, DequeueFacts DEF TypeOK, RunSignIn
    <2>2. Plain("location") \in View
        BY ViewTypes DEF Screens
    <2>3. stack' \in Seq(View) /\ stack' # <<>>
        BY <1>7, <2>2, PushFacts DEF TypeOK, RunSignIn
    <2> QED BY <1>7, <2>1, <2>3 DEF TypeOK, RunSignIn
<1>8. CASE RunSignUp
    BY <1>8, DequeueFacts DEF TypeOK, RunSignUp
<1>9. CASE OpenSignUp \/ ShowRestaurants \/ OpenDetail
    <2>1. PICK to \in Screens : Push(Plain(to))
        BY <1>9 DEF OpenSignUp, ShowRestaurants, OpenDetail, Segue, Screens
    <2>2. stack' \in Seq(View) /\ stack' # <<>>
        BY <2>1, ViewTypes, PushFacts DEF TypeOK
    <2> QED BY <1>9, <2>2 DEF TypeOK, OpenSignUp, ShowRestaurants, OpenDetail, Segue
<1>10. CASE Back
    <2>1. Len(stack) > 1
        <3>1. Len(stack) \in Nat \ {0}
            BY LenProperties, EmptySeq DEF TypeOK
        <3>2. 1 \in 1 .. Len(stack)
            BY <3>1
        <3>3. Len(stack) = 1 => stack[1].screen = "auth"
            BY <3>2 DEF ScreensGrowFromLogin
        <3>4. Len(stack) # 1
            BY <1>10, <3>3 DEF Back, Top, Last
        <3>5. \A n \in Nat \ {0} : n # 1 => n > 1
            OBVIOUS
        <3> QED BY <3>1, <3>4, <3>5
    <2>2. stack' \in Seq(View) /\ stack' # <<>>
        BY <1>10, <2>1, PopFacts DEF TypeOK, Back
    <2> QED BY <1>10, <2>2 DEF TypeOK, Back
<1>11. CASE LogOutTapped
    <2>1. stack[1] \in View
        <3>1. 1 \in 1 .. Len(stack)
            BY LenProperties, EmptySeq DEF TypeOK
        <3> QED BY <3>1, ElementOfSeq DEF TypeOK
    <2>2. stack' \in Seq(View) /\ stack' # <<>>
        BY <1>11, <2>1 DEF LogOutTapped
    <2> QED BY <1>11, <2>2 DEF TypeOK, LogOutTapped, Users
<1>12. CASE RevokeSession
    BY <1>12 DEF TypeOK, RevokeSession, Users
<1>13. CASE Restart
    <2>1. stack' \in Seq(View) /\ stack' # <<>>
        BY <1>13, ViewTypes DEF Restart, Screens
    <2>2. requests' \in [RequestIds -> Request] /\ mainQueue' \in Seq(Callback)
        BY <1>13, ViewTypes DEF Restart
    <2> QED BY <1>13, <2>1, <2>2 DEF TypeOK, Restart
<1>14. CASE UNCHANGED vars
    BY <1>14 DEF TypeOK, vars
<1> QED BY <1>1, <1>2, <1>3, <1>4, <1>5, <1>6, <1>7, <1>8, <1>9, <1>10, <1>11, <1>12, <1>13, <1>14 DEF Next

-----------------------------------------------------------------------------
(* The screens: every push is on a screen that leads to the new one, or, for *)
(* a callback, with the login screen that waits for it still in the stack.   *)
LEMMA TopFacts ==
    ASSUME TypeOK
    PROVE  /\ Len(stack) \in 1 .. Len(stack) /\ 1 \in 1 .. Len(stack)
           /\ Len(stack) \in Nat
           /\ Top = stack[Len(stack)]
<1>1. Len(stack) \in Nat \ {0}
    BY LenProperties, EmptySeq DEF TypeOK
<1> QED BY <1>1 DEF Top, Last

\* The conditions under which a view may be pushed.
MayPush(view) ==
    /\ view.screen # "auth"
    /\ view.screen = "location" => \E j \in 1 .. Len(stack) : stack[j].screen = "login"
    /\ view.screen = "signUp" => Top.screen = "login"
    /\ view.screen = "restaurant" => Top.screen = "location"
    /\ view.screen = "detail" => Top.screen = "restaurant"

LEMMA PushGrows ==
    ASSUME TypeOK, ScreensGrowFromLogin, NEW view \in View, Push(view), MayPush(view)
    PROVE  ScreensGrowFromLogin'
<1>1. /\ Len(stack) \in Nat /\ Len(stack) >= 1
      /\ Len(stack') = Len(stack) + 1
      /\ \A i \in 1 .. Len(stack) : stack'[i] = stack[i]
      /\ stack'[Len(stack) + 1] = view
    BY PushFacts, TopFacts DEF TypeOK
<1>2. ASSUME NEW i \in 1 .. Len(stack)
      PROVE  /\ stack'[i].screen = "auth" <=> i = 1
             /\ stack'[i].screen = "location" =>
                    \E j \in 1 .. i - 1 : stack'[j].screen = "login"
             /\ stack'[i].screen = "signUp" => stack'[i - 1].screen = "login"
             /\ stack'[i].screen = "restaurant" => stack'[i - 1].screen = "location"
             /\ stack'[i].screen = "detail" => stack'[i - 1].screen = "restaurant"
    <2>1. stack'[i] = stack[i] /\ \A j \in 1 .. i - 1 : stack'[j] = stack[j]
        BY <1>1
    <2>2. i # 1 => i - 1 \in 1 .. i - 1
        BY <1>1
    <2>3. i = 1 => stack[i].screen = "auth"
        BY DEF ScreensGrowFromLogin
    <2>4. /\ stack[i].screen = "auth" <=> i = 1
          /\ stack[i].screen = "location" => \E j \in 1 .. i - 1 : stack[j].screen = "login"
          /\ stack[i].screen = "signUp" => stack[i - 1].screen = "login"
          /\ stack[i].screen = "restaurant" => stack[i - 1].screen = "location"
          /\ stack[i].screen = "detail" => stack[i - 1].screen = "restaurant"
        BY DEF ScreensGrowFromLogin
    <2>5. stack[i].screen = "location" => \E j \in 1 .. i - 1 : stack'[j].screen = "login"
        BY <2>1, <2>4
    <2>6. i # 1 => stack'[i - 1] = stack[i - 1]
        BY <2>1, <2>2
    <2>7. stack[i].screen # "auth" => i # 1
        BY <2>3
    <2>8. /\ stack[i].screen = "signUp" => stack'[i - 1].screen = "login"
          /\ stack[i].screen = "restaurant" => stack'[i - 1].screen = "location"
          /\ stack[i].screen = "detail" => stack'[i - 1].screen = "restaurant"
        BY <2>4, <2>6, <2>7
    <2> QED BY <2>1, <2>4, <2>5, <2>8
<1>3. DEFINE n == Len(stack) + 1
<1>4. /\ n # 1 /\ n - 1 = Len(stack)
      /\ stack'[n] = view /\ stack'[n - 1] = Top
      /\ \A j \in 1 .. Len(stack) : stack'[j] = stack[j]
    BY <1>1, TopFacts
<1>5. /\ stack'[n].screen = "auth" <=> n = 1
      /\ stack'[n].screen = "location" => \E j \in 1 .. n - 1 : stack'[j].screen = "login"
      /\ stack'[n].screen = "signUp" => stack'[n - 1].screen = "login"
      /\ stack'[n].screen = "restaurant" => stack'[n - 1].screen = "location"
      /\ stack'[n].screen = "detail" => stack'[n - 1].screen = "restaurant"
    BY <1>4 DEF MayPush
<1>6. \A i \in 1 .. Len(stack') : i \in 1 .. Len(stack) \/ i = n
    BY <1>1
<1> QED BY <1>2, <1>5, <1>6 DEF ScreensGrowFromLogin

LEMMA ScreensStep == TypeOK /\ ScreensGrowFromLogin /\ [Next]_vars => ScreensGrowFromLogin'
<1> SUFFICES ASSUME TypeOK, ScreensGrowFromLogin, [Next]_vars PROVE ScreensGrowFromLogin'
    OBVIOUS
<1>1. CASE RunGranted
    <2>1. PICK i \in LoginIds : Push(LoginView(i))
        BY <1>1 DEF RunGranted
    <2>2. MayPush(LoginView(i))
        BY DEF MayPush, LoginView
    <2> QED BY <2>1, <2>2, ViewTypes, PushGrows
<1>2. CASE RunSignIn
    <2>1. CASE UNCHANGED stack
        BY <2>1 DEF ScreensGrowFromLogin
    <2>2. CASE InStack(LoginView(Head(mainQueue).login)) /\ Push(Plain("location"))
        <3>1. MayPush(Plain("location"))
            BY <2>2 DEF MayPush, Plain, InStack, LoginView
        <3> QED BY <2>2, <3>1, ViewTypes, PushGrows DEF Screens
    <2> QED BY <1>2, <2>1, <2>2 DEF RunSignIn
<1>3. CASE OpenSignUp \/ ShowRestaurants \/ OpenDetail
    <2>1. PICK to \in Screens : Push(Plain(to)) /\ MayPush(Plain(to))
        BY <1>3 DEF OpenSignUp, ShowRestaurants, OpenDetail, Segue, Screens, MayPush, Plain
    <2> QED BY <2>1, ViewTypes, PushGrows
<1>4. CASE Back
    <2>1. Top.screen # "auth"
        BY <1>4 DEF Back
    <2>2. Len(stack) # 1
        BY <2>1, TopFacts DEF ScreensGrowFromLogin
    <2>3. \A n \in Nat : n \in 1 .. n /\ n # 1 => n > 1
        OBVIOUS
    <2>4. Len(stack) > 1
        BY <2>2, <2>3, TopFacts
    <2>5. /\ \A i \in 1 .. Len(stack') : stack'[i] = stack[i]
          /\ Len(stack) \in Nat /\ Len(stack') = Len(stack) - 1
        BY <1>4, <2>4, PopFacts DEF Back, TypeOK
    <2>6. \A i \in 1 .. Len(stack') :
              /\ i \in 1 .. Len(stack)
              /\ i # 1 => i - 1 \in 1 .. Len(stack')
              /\ \A j \in 1 .. i - 1 : j \in 1 .. Len(stack')
        BY <2>5
    <2>7. ASSUME NEW i \in 1 .. Len(stack')
          PROVE  /\ stack'[i].screen = "auth" <=> i = 1
                 /\ stack'[i].screen = "location" =>
                        \E j \in 1 .. i - 1 : stack'[j].screen = "login"
                 /\ stack'[i].screen = "signUp" => stack'[i - 1].screen = "login"
                 /\ stack'[i].screen = "restaurant" => stack'[i - 1].screen = "location"
                 /\ stack'[i].screen = "detail" => stack'[i - 1].screen = "restaurant"
        <3>1. /\ i \in 1 .. Len(stack) /\ stack'[i] = stack[i]
              /\ i # 1 => stack'[i - 1] = stack[i - 1]
              /\ \A j \in 1 .. i - 1 : stack'[j] = stack[j]
            BY <2>5, <2>6
        <3>2. stack[i].screen = "auth" <=> i = 1
            BY <3>1 DEF ScreensGrowFromLogin
        <3> QED BY <3>1, <3>2 DEF ScreensGrowFromLogin
    <2> QED BY <2>7 DEF ScreensGrowFromLogin
<1>5. CASE LogOutTapped
    <2>1. stack[1].screen = "auth"
        BY TopFacts DEF ScreensGrowFromLogin
    <2>2. Len(stack') = 1 /\ stack'[1] = stack[1]
        BY <1>5 DEF LogOutTapped
    <2> QED BY <2>1, <2>2 DEF ScreensGrowFromLogin
<1>6. CASE Restart
    BY <1>6 DEF Restart, Plain, ScreensGrowFromLogin
<1>7. CASE UNCHANGED stack
    BY <1>7 DEF ScreensGrowFromLogin
<1> QED BY <1>1, <1>2, <1>3, <1>4, <1>5, <1>6, <1>7 DEF Next, vars, TapButton,
        EvaluationReply, LoginTap, SignUpButtonTapped, RequestSucceeds, RequestFails,
        RunSignUp, RevokeSession

-----------------------------------------------------------------------------
(* The user a restart would find.                                            *)
LEMMA SavedStep == SavedSessionIsCurrent /\ [Next]_vars => SavedSessionIsCurrent'
<1> SUFFICES ASSUME SavedSessionIsCurrent, [Next]_vars PROVE SavedSessionIsCurrent'
    OBVIOUS
<1>1. CASE \E r \in RequestIds : RequestSucceeds(r)
    BY <1>1 DEF RequestSucceeds, SavedSessionIsCurrent
<1>2. CASE LogOutTapped \/ RevokeSession \/ Restart
    BY <1>2 DEF LogOutTapped, RevokeSession, Restart, SavedSessionIsCurrent
<1>3. CASE UNCHANGED <<currentUser, keychain>>
    BY <1>3 DEF SavedSessionIsCurrent
<1> QED BY <1>1, <1>2, <1>3 DEF Next, vars, TapButton, EvaluationReply, RunGranted, LoginTap,
        SignUpButtonTapped, RequestFails, RunSignIn, RunSignUp, OpenSignUp, ShowRestaurants,
        OpenDetail, Segue, Back

-----------------------------------------------------------------------------
(* The session behind the screens.                                           *)

\* A step that does not end the session, adds no success outside a session,
\* and adds no login screen.
Calm ==
    /\ currentUser # None \/ revoked => currentUser' # None \/ revoked'
    /\ \A k \in 1 .. Len(mainQueue') :
           \/ \E j \in 1 .. Len(mainQueue) : mainQueue'[k] = mainQueue[j]
           \/ mainQueue'[k].kind # "signIn"
           \/ ~mainQueue'[k].ok
           \/ currentUser' # None
    /\ \A i \in 1 .. Len(stack') :
           stack'[i].screen = "login" => \E j \in 1 .. Len(stack) : stack'[i] = stack[j]

LEMMA CalmKeepsPending == PendingSignIns /\ Calm => PendingSignIns'
<1> SUFFICES ASSUME PendingSignIns, Calm, NEW k \in 1 .. Len(mainQueue'),
                    mainQueue'[k].kind = "signIn", mainQueue'[k].ok,
                    NEW i \in 1 .. Len(stack'), stack'[i] = LoginView(mainQueue'[k].login)
             PROVE  currentUser' # None \/ revoked'
    BY DEF PendingSignIns, InStack, LoginView
<1>1. PICK j \in 1 .. Len(stack) : LoginView(mainQueue'[k].login) = stack[j]
    BY DEF Calm, LoginView
<1>2. ASSUME NEW q \in 1 .. Len(mainQueue), mainQueue'[k] = mainQueue[q]
      PROVE  currentUser # None \/ revoked
    BY <1>1, <1>2 DEF PendingSignIns, InStack
<1> QED BY <1>2 DEF Calm

Inside(view) == view.screen \in {"location", "restaurant", "detail"}

LEMMA PendingStep ==
    TypeOK /\ ScreensGrowFromLogin /\ PendingSignIns /\ SessionBehindScreens /\ [Next]_vars
        => PendingSignIns' /\ SessionBehindScreens'
<1> SUFFICES ASSUME TypeOK, ScreensGrowFromLogin, PendingSignIns, SessionBehindScreens, [Next]_vars
             PROVE  PendingSignIns' /\ SessionBehindScreens'
    OBVIOUS
<1>1. ASSUME Calm,
             \A i \in 1 .. Len(stack') : Inside(stack'[i]) => currentUser # None \/ revoked
      PROVE  PendingSignIns' /\ SessionBehindScreens'
    BY <1>1, CalmKeepsPending DEF Calm, SessionBehindScreens, Inside
<1>2. \A i \in 1 .. Len(stack) : Inside(stack[i]) => currentUser # None \/ revoked
    BY DEF SessionBehindScreens, Inside
<1>3. CASE UNCHANGED <<stack, currentUser, revoked, mainQueue>>
    BY <1>1, <1>2, <1>3 DEF Calm
<1>4. ASSUME NEW success \in BOOLEAN, EvaluationReply(success)
      PROVE  PendingSignIns' /\ SessionBehindScreens'
    <2>1. \A k \in 1 .. Len(mainQueue') :
              \/ k \in 1 .. Len(mainQueue) /\ mainQueue'[k] = mainQueue[k]
              \/ mainQueue'[k] = Granted
        BY <1>4, ViewTypes, EnqueueFacts DEF EvaluationReply, TypeOK
    <2>2. Calm
        BY <1>4, <2>1 DEF Calm, EvaluationReply, Granted
    <2> QED BY <1>1, <1>2, <1>4, <2>2 DEF EvaluationReply
<1>5. ASSUME NEW r \in RequestIds, RequestSucceeds(r)
      PROVE  PendingSignIns' /\ SessionBehindScreens'
    <2>1. currentUser' # None /\ stack' = stack
        BY <1>5, SessionAssumption DEF RequestSucceeds, TypeOK, Request
    <2> QED BY <2>1 DEF PendingSignIns, SessionBehindScreens
<1>6. ASSUME NEW r \in RequestIds, RequestFails(r)
      PROVE  PendingSignIns' /\ SessionBehindScreens'
    <2>1. \A k \in 1 .. Len(mainQueue') :
              \/ k \in 1 .. Len(mainQueue) /\ mainQueue'[k] = mainQueue[k]
              \/ mainQueue'[k].ok = FALSE
        BY <1>6, AnswerFacts DEF RequestFails
    <2>2. Calm
        BY <1>6, <2>1 DEF Calm, RequestFails
    <2> QED BY <1>1, <1>2, <1>6, <2>2 DEF RequestFails
<1>7. CASE RunSignUp
    <2>1. \A k \in 1 .. Len(mainQueue') :
              k + 1 \in 1 .. Len(mainQueue) /\ mainQueue'[k] = mainQueue[k + 1]
        BY <1>7, DequeueFacts DEF RunSignUp, TypeOK
    <2>2. Calm
        BY <1>7, <2>1 DEF Calm, RunSignUp
    <2> QED BY <1>1, <1>2, <1>7, <2>2 DEF RunSignUp
<1>8. CASE RunSignIn
    <2>1. /\ Head(mainQueue) = mainQueue[1] /\ 1 \in 1 .. Len(mainQueue)
          /\ \A k \in 1 .. Len(mainQueue') :
                 k + 1 \in 1 .. Len(mainQueue) /\ mainQueue'[k] = mainQueue[k + 1]
        BY <1>8, DequeueFacts DEF RunSignIn, TypeOK
    <2>2. CASE UNCHANGED stack
        <3>1. Calm
            BY <1>8, <2>1, <2>2 DEF Calm, RunSignIn
        <3> QED BY <1>1, <1>2, <2>2, <3>1
    <2>3. CASE /\ mainQueue[1].ok /\ InStack(LoginView(mainQueue[1].login))
               /\ Push(Plain("location"))
        <3>1. currentUser # None \/ revoked
            BY <1>8, <2>1, <2>3 DEF PendingSignIns, RunSignIn
        <3>2. \A i \in 1 .. Len(stack') :
                  \/ i \in 1 .. Len(stack) /\ stack'[i] = stack[i]
                  \/ stack'[i] = Plain("location")
            BY <2>3, PushFacts, ViewTypes DEF TypeOK, Screens
        <3>3. Calm
            BY <1>8, <2>1, <3>2 DEF Calm, RunSignIn, Plain
        <3> QED BY <1>1, <3>1, <3>3
    <2> QED BY <1>8, <2>1, <2>2, <2>3 DEF RunSignIn
<1>9. CASE RunGranted
    <2>1. PICK n \in LoginIds : IsFree(n) /\ Push(LoginView(n))
        BY <1>9 DEF RunGranted
    <2>2. \A i \in 1 .. Len(stack') :
              \/ i \in 1 .. Len(stack) /\ stack'[i] = stack[i]
              \/ stack'[i] = LoginView(n)
        BY <2>1, PushFacts, ViewTypes DEF TypeOK
    <2>3. \A k \in 1 .. Len(mainQueue') :
              k + 1 \in 1 .. Len(mainQueue) /\ mainQueue'[k] = mainQueue[k + 1]
        BY <1>9, DequeueFacts DEF RunGranted, TypeOK
    <2>4. UNCHANGED <<currentUser, revoked>>
        BY <1>9 DEF RunGranted
    <2>5. SessionBehindScreens'
        BY <1>2, <2>2, <2>4 DEF SessionBehindScreens, Inside, LoginView
    <2>6. PendingSignIns'
        <3> SUFFICES ASSUME NEW k \in 1 .. Len(mainQueue'),
                            mainQueue'[k].kind = "signIn", mainQueue'[k].ok,
                            NEW i \in 1 .. Len(stack'),
                            stack'[i] = LoginView(mainQueue'[k].login)
                     PROVE  currentUser # None \/ revoked
            BY <2>4 DEF PendingSignIns, InStack, LoginView
        <3>1. mainQueue'[k].login # n
            BY <2>1, <2>3 DEF IsFree
        <3>2. i \in 1 .. Len(stack) /\ stack'[i] = stack[i]
            BY <2>2, <3>1 DEF LoginView
        <3> QED BY <2>3, <3>2 DEF PendingSignIns, InStack
    <2> QED BY <2>5, <2>6
<1>10. CASE OpenSignUp \/ ShowRestaurants \/ OpenDetail
    <2>1. PICK to \in {"signUp", "restaurant", "detail"} :
              /\ Push(Plain(to))
              /\ to # "signUp" => Inside(Top)
        BY <1>10 DEF OpenSignUp, ShowRestaurants, OpenDetail, Segue, Inside
    <2>2. \A i \in 1 .. Len(stack') :
              \/ i \in 1 .. Len(stack) /\ stack'[i] = stack[i]
              \/ stack'[i] = Plain(to)
        BY <2>1, PushFacts, ViewTypes DEF TypeOK, Screens
    <2>3. UNCHANGED <<currentUser, revoked, mainQueue>>
        BY <1>10 DEF OpenSignUp, ShowRestaurants, OpenDetail, Segue
    <2>4. Calm
        BY <2>1, <2>2, <2>3 DEF Calm, Plain
    <2>5. Inside(Plain(to)) => currentUser # None \/ revoked
        BY <1>2, <2>1, TopFacts DEF Inside, Plain
    <2> QED BY <1>1, <1>2, <2>2, <2>4, <2>5
<1>11. CASE Back
    <2>1. Top.screen # "auth"
        BY <1>11 DEF Back
    <2>2. Len(stack) # 1
        BY <2>1, TopFacts DEF ScreensGrowFromLogin
    <2>3. \A n \in Nat : n \in 1 .. n /\ n # 1 => n > 1
        OBVIOUS
    <2>4. Len(stack) > 1
        BY <2>2, <2>3, TopFacts
    <2>5. \A i \in 1 .. Len(stack') : i \in 1 .. Len(stack) /\ stack'[i] = stack[i]
        BY <1>11, <2>4, PopFacts DEF Back, TypeOK
    <2>6. Calm
        BY <1>11, <2>5 DEF Calm, Back
    <2> QED BY <1>1, <1>2, <2>5, <2>6
<1>12. CASE LogOutTapped \/ Restart
    <2>1. stack[1].screen = "auth"
        BY TopFacts DEF ScreensGrowFromLogin
    <2>2. Len(stack') = 1 /\ stack'[1].screen = "auth"
        BY <1>12, <2>1 DEF LogOutTapped, Restart, Plain
    <2> QED BY <2>2 DEF PendingSignIns, SessionBehindScreens, InStack, LoginView
<1>13. CASE RevokeSession
    BY <1>13 DEF RevokeSession, PendingSignIns, SessionBehindScreens
<1> QED BY <1>3, <1>4, <1>5, <1>6, <1>7, <1>8, <1>9, <1>10, <1>11, <1>12, <1>13
        DEF Next, vars, TapButton, LoginTap, SignUpButtonTapped

-----------------------------------------------------------------------------
LEMMA InvInit == Init => IInv
<1> SUFFICES ASSUME Init PROVE IInv
    OBVIOUS
<1>1. stack = <<Plain("auth")>> /\ mainQueue = <<>>
    BY DEF Init
<1>2. stack \in Seq(View) /\ stack # <<>> /\ mainQueue \in Seq(Callback)
    BY <1>1, ViewTypes DEF Screens
<1>3. requests \in [RequestIds -> Request]
    BY ViewTypes DEF Init
<1>4. canEvaluate \in BOOLEAN /\ prompt \in BOOLEAN /\ revoked \in BOOLEAN
    BY DEF Init
<1>5. TypeOK
    BY <1>2, <1>3, <1>4 DEF Init, TypeOK
<1>6. PendingSignIns /\ SessionBehindScreens /\ ScreensGrowFromLogin
    BY <1>1 DEF PendingSignIns, SessionBehindScreens, ScreensGrowFromLogin, Plain
<1>7. SavedSessionIsCurrent
    BY DEF Init, SavedSessionIsCurrent
<1> QED BY <1>5, <1>6, <1>7 DEF IInv

(* The inductive invariant holds in every reachable state.                   *)
THEOREM Invariant == Spec => []IInv
<1>1. IInv /\ [Next]_vars => IInv'
    BY TypeStep, ScreensStep, SavedStep, PendingStep DEF IInv
<1> QED BY InvInit, <1>1, PTL DEF Spec

(* Every execution is well typed.                                            *)
THEOREM TypeCorrect == Spec => []TypeOK
BY Invariant, PTL DEF IInv

(* No late, repeated or orphaned answer opens the restaurants for nobody.    *)
THEOREM SessionHolds == Spec => []SessionBehindScreens
BY Invariant, PTL DEF IInv

(* No screen is open over one that does not lead to it.                      *)
THEOREM ScreensHold == Spec => []ScreensGrowFromLogin
BY Invariant, PTL DEF IInv

(* The keychain holds the user who is signed in.                             *)
THEOREM SavedHolds == Spec => []SavedSessionIsCurrent
BY Invariant, PTL DEF IInv
=============================================================================
