--------------------------- MODULE KBaseAuthProofs ---------------------------
(***************************************************************************)
(* Proofs about KBaseAuthFlow, for any users, tokens, requests under way   *)
(* and number of Hub restarts.                                             *)
(***************************************************************************)
EXTENDS KBaseAuthFlow, TLAPS

\* What none of the state KBaseAuthenticator keeps is touched by.
OtherStep ==
    \/ \E t \in Tokens \cup {NoToken} : SetCookie(t)
    \/ \E t \in Tokens : Revoke(t)
    \/ \E u \in Users, granted \in SUBSET Roles : SetRoles(u, granted)
    \/ UNCHANGED vars

\* A request makes progress or comes to nothing, and the Hub's state stays.
CallStep(r) ==
    BeginLogin(r) \/ BeginRefresh(r) \/ AskToken(r) \/ NoAnswer(r) \/ AskMe(r)

\* Cookie changes, revocations and role changes leave the Hub's state alone.
LEMMA OtherFrame ==
    ASSUME OtherStep
    PROVE  UNCHANGED <<session, call, hubVars>>
  BY DEF OtherStep, SetCookie, Revoke, SetRoles, vars, kbaseVars, browserVars, hubVars

\* Starting a call, asking KBase, or ending a call without a user, changes nothing
\* but the call.
LEMMA CallFrame ==
    ASSUME NEW r \in Requests, CallStep(r)
    PROVE  UNCHANGED <<kbaseVars, browserVars, hubVars>>
  BY DEF CallStep, BeginLogin, BeginRefresh, AskToken, NoAnswer, AskMe

\* The kinds of step there are.
LEMMA StepKinds ==
    ASSUME [Next]_vars
    PROVE  \/ \E r \in Requests : CallStep(r) \/ Act(r)
           \/ Spawn \/ Restart \/ OtherStep
           \/ \E u \in Users : AuthAges(u)
  BY BoundAssumption DEF Next, CallStep, OtherStep

---------------------------------------------------------------------------
(* Type correctness.                                                       *)

\* The initial state is well typed.
LEMMA InitTyped == Init => TypeOK
  BY BoundAssumption DEF Init, TypeOK, Roles

\* What KBase could answer is a set of admin flags.
LEMMA VouchingType ==
    ASSUME NEW t, NEW granted
    PROVE  Vouching(t, granted) \in SUBSET BOOLEAN
<1>1. ("admin" \in granted) \in BOOLEAN
  OBVIOUS
<1>2. {"admin" \in granted} \in SUBSET BOOLEAN
  BY <1>1, Zenon
<1> QED  BY <1>2 DEF Vouching

\* A call that begins, and one that makes progress, is a call.
LEMMA BeginType ==
    ASSUME TypeOK, NEW r \in Requests, NEW kind \in {"login", "refresh"},
           NEW u \in Users \cup {NoOne}, NEW t \in Tokens, Begin(r, kind, u, t)
    PROVE  /\ call' \in [Requests -> Calls \cup {NoCall}]
           /\ saw' \in [Requests -> SUBSET BOOLEAN]
<1>1. [kind |-> kind, user |-> u, token |-> t, step |-> "token", admin |-> FALSE] \in Calls
  BY DEF Calls
<1> QED  BY <1>1, VouchingType DEF Begin, TypeOK

LEMMA ProgressType ==
    ASSUME NEW c \in Calls, NEW step \in {"token", "me", "answered"}, NEW b \in BOOLEAN
    PROVE  /\ [c EXCEPT !.step = step] \in Calls
           /\ [c EXCEPT !.step = step, !.admin = b] \in Calls
  BY DEF Calls

\* The end of a call leaves calls.
LEMMA ReturnType ==
    ASSUME TypeOK, NEW r \in Requests, Return(r)
    PROVE  /\ call' \in [Requests -> Calls \cup {NoCall}]
           /\ saw' \in [Requests -> SUBSET BOOLEAN]
  BY DEF Return, TypeOK

\* An answer leaves a call with the admin flag KBase has just spoken of.
LEMMA AnsweredType ==
    ASSUME TypeOK, NEW r \in Requests, call[r] # NoCall, Answered(r)
    PROVE  call' \in [Requests -> Calls \cup {NoCall}]
<1> DEFINE b == "admin" \in roles[Owner[call[r].token]]
<1>1. call[r] \in Calls
  BY DEF TypeOK
<1>2. b \in BOOLEAN
  OBVIOUS
<1>3. [call[r] EXCEPT !.step = "answered", !.admin = b] \in Calls
  <2> HIDE DEF b
  <2> QED  BY <1>1, <1>2, ProgressType
<1>4. call' = [call EXCEPT ![r] = [call[r] EXCEPT !.step = "answered", !.admin = b]]
  BY DEF Answered, TypeOK
<1> HIDE DEF b
<1> QED  BY <1>3, <1>4 DEF TypeOK

\* Every step keeps the types.
LEMMA NextTyped == TypeOK /\ [Next]_vars => TypeOK'
  <1>. SUFFICES ASSUME TypeOK, [Next]_vars PROVE TypeOK'
    OBVIOUS
  <1>. DEFINE CallsTyped == /\ call' \in [Requests -> Calls \cup {NoCall}]
                            /\ saw' \in [Requests -> SUBSET BOOLEAN]
  <1>1. ASSUME NEW r \in Requests, CallStep(r) PROVE TypeOK'
    <2>1. CASE BeginLogin(r)
      <3>1. cookie \in Tokens
        BY <2>1 DEF BeginLogin, TypeOK
      <3>. QED BY <2>1, <3>1, BeginType DEF BeginLogin, TypeOK, kbaseVars, browserVars, hubVars
    <2>2. CASE BeginRefresh(r)
      <3>1. session \in Users /\ authState[session] \in States
        BY <2>2 DEF BeginRefresh, Readable, TypeOK
      <3>2. authState[session].token \in Tokens
        BY <3>1 DEF States
      <3>3. CallsTyped
        BY <2>2, <3>1, <3>2, BeginType DEF BeginRefresh
      <3>. QED BY <2>2, <3>3 DEF BeginRefresh, TypeOK, kbaseVars, browserVars, hubVars
    <2>3. CASE AskToken(r)
      <3>1. call[r] \in Calls
        BY <2>3 DEF AskToken, TypeOK
      <3>2. CASE call' = [call EXCEPT ![r].step = "me"] /\ UNCHANGED saw
        <4>1. [call[r] EXCEPT !.step = "me"] \in Calls
          BY <3>1, ProgressType
        <4>2. CallsTyped
          BY <3>2, <4>1 DEF TypeOK
        <4>. QED BY <2>3, <4>2 DEF AskToken, TypeOK, kbaseVars, browserVars, hubVars
      <3>3. CASE Return(r)
        BY <2>3, <3>3, ReturnType DEF AskToken, TypeOK, kbaseVars, browserVars, hubVars
      <3>. QED BY <2>3, <3>2, <3>3 DEF AskToken
    <2>4. CASE NoAnswer(r)
      BY <2>4, ReturnType DEF NoAnswer, TypeOK, kbaseVars, browserVars, hubVars
    <2>5. CASE AskMe(r)
      <3>1. CASE Answered(r)
        <4>1. CallsTyped
          <5>1. saw' = saw
            BY <3>1 DEF Answered
          <5>2. call[r] # NoCall
            BY <2>5 DEF AskMe
          <5>. QED BY <3>1, <5>1, <5>2, AnsweredType DEF TypeOK
        <4>. QED BY <2>5, <4>1 DEF AskMe, TypeOK, kbaseVars, browserVars, hubVars
      <3>2. CASE Return(r)
        BY <2>5, <3>2, ReturnType DEF AskMe, TypeOK, kbaseVars, browserVars, hubVars
      <3>. QED BY <2>5, <3>1, <3>2 DEF AskMe
    <2>. QED BY <1>1, <2>1, <2>2, <2>3, <2>4, <2>5 DEF CallStep
  <1>2. ASSUME NEW r \in Requests, Act(r) PROVE TypeOK'
    <2>1. call[r] \in Calls /\ call[r].token \in Tokens /\ call[r].kind \in {"login", "refresh"}
      BY <1>2 DEF Act, Calls, TypeOK
    <2>2. Owner[call[r].token] \in Users
      BY <2>1, OwnerAssumption
    <2>3. [token |-> call[r].token, key |-> hubKey] \in States
      BY <2>1 DEF States, TypeOK
    <2>4. CallsTyped
      BY <1>2, ReturnType DEF Act
    <2>5. CASE LoggedIn(call[r].token, call[r].admin)
      BY <1>2, <2>2, <2>3, <2>4, <2>5 DEF Act, LoggedIn, TypeOK, kbaseVars
    <2>6. CASE Refreshed(call[r].user)
      BY <1>2, <2>4, <2>6 DEF Act, Refreshed, TypeOK, kbaseVars, browserVars
    <2>. QED BY <1>2, <2>5, <2>6 DEF Act
  <1>3. CASE Spawn
    <2>1. session \in Users /\ authState[session].token \in Tokens
      BY <1>3, BoundAssumption DEF Spawn, Readable, States, TypeOK
    <2>. QED BY <1>3, <2>1 DEF Spawn, TypeOK, kbaseVars, browserVars
  <1>4. ASSUME NEW u \in Users, AuthAges(u) PROVE TypeOK'
    BY <1>4 DEF AuthAges, TypeOK, kbaseVars, browserVars
  <1>5. CASE Restart
    BY <1>5, BoundAssumption DEF Restart, TypeOK, kbaseVars, browserVars
  <1>6. CASE OtherStep
    <2>1. ASSUME NEW u \in Users, NEW granted \in SUBSET Roles, SetRoles(u, granted)
          PROVE  TypeOK'
      <3>1. saw' \in [Requests -> SUBSET BOOLEAN]
        <4>1. ASSUME NEW r \in Requests
              PROVE  (IF call[r] # NoCall /\ Owner[call[r].token] = u
                      THEN saw[r] \cup Vouching(call[r].token, granted) ELSE saw[r])
                         \in SUBSET BOOLEAN
          BY VouchingType DEF TypeOK
        <4>. QED BY <2>1, <4>1 DEF SetRoles
      <3>. QED BY <2>1, <3>1 DEF SetRoles, TypeOK, browserVars, hubVars
    <2>. QED
      BY <1>6, <2>1 DEF OtherStep, SetCookie, Revoke, TypeOK, vars, kbaseVars, browserVars,
                        hubVars
  <1>. QED
    BY <1>1, <1>2, <1>3, <1>4, <1>5, <1>6, StepKinds

\* Every reachable state is well typed.
THEOREM TypeCorrect == Spec => []TypeOK
  BY InitTyped, NextTyped, PTL DEF Spec

---------------------------------------------------------------------------
(* Tokens.                                                                 *)

\* A request that the Hub is about to act on was answered for a token with MFA.
AnswersWereAdmitted ==
    \A r \in Requests :
        call[r] # NoCall /\ call[r].step = "answered" => call[r].token \in MfaTokens

TokensInv == TokensStayWithTheirUser /\ AnswersWereAdmitted

\* What a call asks about does not change while it is under way.
LEMMA CallKeepsToken ==
    ASSUME TypeOK, NEW r \in Requests, AskToken(r) \/ AskMe(r) \/ NoAnswer(r) \/ Act(r),
           NEW q \in Requests, call'[q] # NoCall
    PROVE  /\ call[q] # NoCall
           /\ call'[q].kind = call[q].kind /\ call'[q].user = call[q].user
           /\ call'[q].token = call[q].token
           /\ q # r => call'[q] = call[q]
<1>1. CASE Return(r)
  BY <1>1 DEF Return, TypeOK
<1>2. CASE call' = [call EXCEPT ![r].step = "me"] /\ call[r] # NoCall
  <2>1. call[r] \in Calls
    BY <1>2 DEF TypeOK
  <2> QED  BY <1>2, <2>1 DEF TypeOK, Calls
<1>3. CASE Answered(r) /\ call[r] # NoCall
  <2>1. call[r] \in Calls
    BY <1>3 DEF TypeOK
  <2>2. q # r => call'[q] = call[q]
    BY <1>3 DEF TypeOK, Answered
  <2>3. \E b \in BOOLEAN : call'[r] = [call[r] EXCEPT !.step = "answered", !.admin = b]
    <3>1. ("admin" \in roles[Owner[call[r].token]]) \in BOOLEAN
      OBVIOUS
    <3>2. call'[r] = [call[r] EXCEPT !.step = "answered",
                                     !.admin = "admin" \in roles[Owner[call[r].token]]]
      BY <1>3 DEF Answered, TypeOK
    <3> QED  BY <3>1, <3>2, Zenon
  <2>4. PICK b \in BOOLEAN : call'[r] = [call[r] EXCEPT !.step = "answered", !.admin = b]
    BY <2>3
  <2>5. /\ call'[r].kind = call[r].kind /\ call'[r].user = call[r].user
        /\ call'[r].token = call[r].token
    BY <2>1, <2>4 DEF Calls
  <2> QED  BY <1>3, <2>2, <2>5
<1> QED  BY <1>1, <1>2, <1>3 DEF AskToken, AskMe, NoAnswer, Act

\* Every step keeps the answers those for tokens with MFA.
LEMMA NextAnswers ==
    ASSUME TypeOK, AnswersWereAdmitted, [Next]_vars
    PROVE  AnswersWereAdmitted'
<1> USE DEF AnswersWereAdmitted
<1>1. ASSUME NEW r \in Requests, NEW kind, NEW u, NEW t, Begin(r, kind, u, t)
      PROVE  AnswersWereAdmitted'
  BY <1>1 DEF Begin, TypeOK
<1>2. ASSUME NEW r \in Requests, AskToken(r) PROVE AnswersWereAdmitted'
  <2>1. call'[r] # NoCall => call'[r].step = "me"
    <3>1. call[r] # NoCall /\ call[r] \in Calls
      BY <1>2 DEF AskToken, TypeOK
    <3> QED  BY <1>2, <3>1 DEF AskToken, Return, TypeOK, Calls
  <2> QED  BY <1>2, <2>1, CallKeepsToken
<1>3. ASSUME NEW r \in Requests, AskMe(r) PROVE AnswersWereAdmitted'
  <2>1. call'[r] # NoCall => call[r].token \in MfaTokens
    BY <1>3 DEF AskMe, Admitted, Return, TypeOK
  <2> QED  BY <1>3, <2>1, CallKeepsToken
<1>4. ASSUME NEW r \in Requests, NoAnswer(r) \/ Act(r) PROVE AnswersWereAdmitted'
  BY <1>4 DEF NoAnswer, Act, Return, TypeOK
<1>5. CASE Restart
  BY <1>5 DEF Restart
<1>6. CASE UNCHANGED call
  BY <1>6
<1>7. CASE Spawn \/ OtherStep \/ \E u \in Users : AuthAges(u)
  BY <1>6, <1>7, OtherFrame DEF Spawn, AuthAges
<1> QED  BY <1>1, <1>2, <1>3, <1>4, <1>5, <1>7, StepKinds
         DEF CallStep, BeginLogin, BeginRefresh

\* A login stores the token of the user it logs in, and one obtained with MFA.
LEMMA LoginStoresOwnToken ==
    ASSUME TypeOK, TokensStayWithTheirUser, NEW t \in Tokens, NEW isAdmin,
           t \in MfaTokens, LoggedIn(t, isAdmin)
    PROVE  TokensStayWithTheirUser'
  <1>1. Owner[t] \in Users
    BY OwnerAssumption
  <1>2. ASSUME NEW u \in Users, authState'[u] # NoState
        PROVE  Owner[authState'[u].token] = u /\ authState'[u].token \in MfaTokens
    BY <1>1, <1>2 DEF LoggedIn, TokensStayWithTheirUser, TypeOK
  <1>3. UNCHANGED container
    BY DEF LoggedIn
  <1>. QED BY <1>2, <1>3 DEF TokensStayWithTheirUser

\* A call that the Hub acts on has a token of some user, is a login or a refresh.
LEMMA ActIsTyped ==
    ASSUME TypeOK, NEW r \in Requests, Act(r)
    PROVE  /\ call[r] # NoCall /\ call'[r] = NoCall
           /\ call[r].token \in Tokens /\ Owner[call[r].token] \in Users
           /\ call[r].kind \in {"login", "refresh"}
           /\ call[r].admin \in BOOLEAN
<1>1. call[r] \in Calls
  BY DEF Act, TypeOK
<1> QED  BY <1>1, OwnerAssumption DEF Act, Return, TypeOK, Calls

\* Every step keeps each user's tokens the user's own.
LEMMA NextTokens ==
    ASSUME TypeOK, TokensInv, [Next]_vars
    PROVE  TokensStayWithTheirUser'
  <1>1. CASE UNCHANGED <<authState, container>>
    BY <1>1 DEF TokensInv, TokensStayWithTheirUser
  <1>2. ASSUME NEW r \in Requests, Act(r) PROVE TokensStayWithTheirUser'
    <2>1. call[r].token \in Tokens /\ call[r].token \in MfaTokens
      BY <1>2, ActIsTyped DEF Act, TokensInv, AnswersWereAdmitted
    <2>2. \/ LoggedIn(call[r].token, call[r].admin)
          \/ UNCHANGED <<authState, container>>
      BY <1>2 DEF Act, Refreshed
    <2>. QED BY <1>1, <2>1, <2>2, LoginStoresOwnToken DEF TokensInv
  <1>3. CASE Spawn
    <2>1. UNCHANGED authState
      BY <1>3 DEF Spawn
    <2>2. /\ session \in Users /\ authState[session] # NoState
          /\ container' = [container EXCEPT ![session] = authState[session].token]
      BY <1>3, BoundAssumption DEF Spawn, Readable, TypeOK
    <2>3. ASSUME NEW u \in Users, container'[u] # NoToken
          PROVE  Owner[container'[u]] = u /\ container'[u] \in MfaTokens
      BY <2>2, <2>3 DEF TokensInv, TokensStayWithTheirUser, TypeOK
    <2>. QED BY <2>1, <2>3 DEF TokensInv, TokensStayWithTheirUser
  <1>4. ASSUME NEW r \in Requests, CallStep(r)
        PROVE  UNCHANGED <<authState, container>>
    BY <1>4, CallFrame DEF hubVars
  <1>5. CASE OtherStep \/ Restart \/ \E u \in Users : AuthAges(u)
    BY <1>1, <1>5, OtherFrame DEF hubVars, Restart, AuthAges
  <1>. QED
    BY <1>1, <1>2, <1>3, <1>4, <1>5, StepKinds

\* TokensInv holds in every reachable state.
LEMMA TokensInvariant == Spec => []TokensInv
  <1>1. Init => TokensInv
    BY DEF Init, TokensInv, TokensStayWithTheirUser, AnswersWereAdmitted
  <1>2. TypeOK /\ TokensInv /\ [Next]_vars => TokensInv'
    BY NextTokens, NextAnswers DEF TokensInv
  <1>. QED BY <1>1, <1>2, TypeCorrect, PTL DEF Spec

\* No interleaving of logins, refreshes, spawns and restarts leaves a user, or the
\* user's container, with another user's token or with one obtained without MFA.
THEOREM TokensStay == Spec => []TokensStayWithTheirUser
  <1>1. TokensInv => TokensStayWithTheirUser
    BY DEF TokensInv
  <1>. QED BY <1>1, TokensInvariant, PTL

---------------------------------------------------------------------------
(* Admission.                                                              *)

\* A refresh under way is that of a user whose stored auth state can be read, and
\* checks a token of that user.
RefreshesAreOwn ==
    \A r \in Requests :
        call[r] # NoCall /\ call[r].kind = "refresh"
            => /\ call[r].user \in Users
               /\ Readable(call[r].user)
               /\ Owner[call[r].token] = call[r].user

AdmissionInv == RefreshesAreOwn /\ ServedUserHasToken

\* Auth state that can be read stays readable while the Hub keeps its key.
LEMMA ReadableStays ==
    ASSUME TypeOK, NEW t \in Tokens, NEW isAdmin, LoggedIn(t, isAdmin), NEW u \in Users
    PROVE  /\ Readable(u) => Readable(u)'
           /\ u = Owner[t] => Readable(u)'
  <1>1. [token |-> t, key |-> hubKey] \in States /\ Owner[t] \in Users
    BY OwnerAssumption DEF States, TypeOK
  <1>. QED BY <1>1, NullAssumption DEF LoggedIn, Readable, TypeOK

\* Every step keeps AdmissionInv.
LEMMA NextAdmission ==
    ASSUME TypeOK, TokensStayWithTheirUser, AdmissionInv, [Next]_vars
    PROVE  AdmissionInv'
  <1>. USE DEF AdmissionInv, RefreshesAreOwn, ServedUserHasToken
  <1>1. ASSUME NEW r \in Requests, BeginLogin(r) PROVE AdmissionInv'
    BY <1>1 DEF BeginLogin, Begin, Readable, hubVars, TypeOK
  <1>2. ASSUME NEW r \in Requests, BeginRefresh(r) PROVE AdmissionInv'
    <2>1. session \in Users /\ Owner[authState[session].token] = session
      BY <1>2 DEF BeginRefresh, Readable, TokensStayWithTheirUser, TypeOK
    <2>. QED BY <1>2, <2>1 DEF BeginRefresh, Begin, Readable, hubVars, TypeOK
  <1>3. ASSUME NEW r \in Requests, AskToken(r) \/ AskMe(r) \/ NoAnswer(r)
        PROVE  AdmissionInv'
    <2>1. UNCHANGED hubVars
      BY <1>3, CallFrame DEF CallStep
    <2>. QED BY <1>3, <2>1, CallKeepsToken DEF Readable, hubVars
  <1>4. ASSUME NEW r \in Requests, Act(r) PROVE AdmissionInv'
    <2>1. call[r].token \in Tokens /\ call[r].kind \in {"login", "refresh"}
      BY <1>4, ActIsTyped
    <2>2. \A q \in Requests : call'[q] # NoCall => call'[q] = call[q]
      BY <1>4 DEF Act, Return, TypeOK
    <2>3. CASE LoggedIn(call[r].token, call[r].admin)
      <3>1. \A u \in Users : fresh'[u] => fresh[u] \/ u = Owner[call[r].token]
        BY <2>1, <2>3, OwnerAssumption DEF LoggedIn, TypeOK
      <3>. QED BY <2>1, <2>2, <2>3, <3>1, ReadableStays
    <2>4. CASE call[r].kind = "refresh" /\ Refreshed(call[r].user)
      BY <1>4, <2>2, <2>4 DEF Act, Refreshed, Readable, TypeOK
    <2>. QED BY <1>4, <2>1, <2>3, <2>4 DEF Act
  <1>5. ASSUME NEW u \in Users, AuthAges(u) PROVE AdmissionInv'
    BY <1>5 DEF AuthAges, Readable, TypeOK
  <1>6. CASE Spawn
    BY <1>6 DEF Spawn, Readable
  <1>7. CASE Restart
    BY <1>7 DEF Restart
  <1>8. CASE OtherStep
    BY <1>8, OtherFrame DEF hubVars, Readable
  <1>. QED
    BY <1>1, <1>2, <1>3, <1>4, <1>5, <1>6, <1>7, <1>8, StepKinds DEF CallStep

\* AdmissionInv holds in every reachable state.
LEMMA AdmissionInvariant == Spec => []AdmissionInv
  <1>1. Init => AdmissionInv
    BY DEF Init, AdmissionInv, RefreshesAreOwn, ServedUserHasToken
  <1>2. TypeOK /\ TokensStayWithTheirUser /\ AdmissionInv /\ [Next]_vars
           => AdmissionInv'
    BY NextAdmission
  <1>. QED BY <1>1, <1>2, TypeCorrect, TokensStay, PTL DEF Spec

\* Whoever the Hub serves has a token that pre_spawn_start can pass on, through
\* any number of restarts with new keys.
THEOREM ServedUsers == Spec => []ServedUserHasToken
  <1>1. AdmissionInv => ServedUserHasToken
    BY DEF AdmissionInv
  <1>. QED BY <1>1, AdmissionInvariant, PTL

---------------------------------------------------------------------------
(* What KBase said, and when.                                              *)

\* What KBase would answer now counts as seen by every request under way.
SawNow ==
    \A r \in Requests :
        call[r] # NoCall => Vouching(call[r].token, roles[Owner[call[r].token]]) \subseteq saw[r]

\* So does what it did answer.
SawAnswer ==
    \A r \in Requests :
        call[r] # NoCall /\ call[r].step = "answered" => call[r].admin \in saw[r]

RecentInv == SawNow /\ SawAnswer

\* A request that begins has seen what KBase would say at that moment.
LEMMA BeginRecent ==
    ASSUME TypeOK, RecentInv, NEW r \in Requests, NEW kind, NEW u, NEW t,
           Begin(r, kind, u, t), UNCHANGED kbaseVars
    PROVE  RecentInv'
<1> DEFINE c == [kind |-> kind, user |-> u, token |-> t, step |-> "token", admin |-> FALSE]
<1>1. call'[r] = c /\ saw'[r] = Vouching(t, roles[Owner[t]])
  BY DEF Begin, TypeOK
<1>2. \A q \in Requests : q # r => call'[q] = call[q] /\ saw'[q] = saw[q]
  BY DEF Begin, TypeOK
<1>3. UNCHANGED <<accepted, roles>>
  BY DEF kbaseVars
<1> QED  BY <1>1, <1>2, <1>3 DEF RecentInv, SawNow, SawAnswer, Vouching

\* A request that ends has nothing to answer for.
LEMMA ReturnRecent ==
    ASSUME TypeOK, RecentInv, NEW r \in Requests, Return(r), UNCHANGED kbaseVars
    PROVE  RecentInv'
<1>1. \A q \in Requests : call'[q] # NoCall => call'[q] = call[q] /\ saw'[q] = saw[q]
  BY DEF Return, TypeOK
<1>2. UNCHANGED <<accepted, roles>>
  BY DEF kbaseVars
<1> QED  BY <1>1, <1>2 DEF RecentInv, SawNow, SawAnswer, Vouching

\* The answer to api/V2/me is what KBase says at that moment.
LEMMA AskMeRecent ==
    ASSUME TypeOK, RecentInv, NEW r \in Requests, AskMe(r)
    PROVE  RecentInv'
<1> DEFINE t == call[r].token
           b == "admin" \in roles[Owner[t]]
<1>1. UNCHANGED <<accepted, roles>>
  BY DEF AskMe, kbaseVars
<1>2. CASE Return(r)
  BY <1>2, ReturnRecent DEF AskMe
<1>3. CASE t \in accepted /\ Admitted(t) /\ Answered(r)
  <2>1. call[r] # NoCall /\ call[r] \in Calls
    BY DEF AskMe, TypeOK
  <2>2. {b} \subseteq saw[r]
    BY <1>3, <2>1 DEF RecentInv, SawNow, Vouching, Admitted
  <2>3. call'[r] = [call[r] EXCEPT !.step = "answered", !.admin = b]
    BY <1>3 DEF Answered, TypeOK
  <2>4. call'[r].admin = b
    <3> HIDE DEF b
    <3> QED  BY <2>1, <2>3 DEF Calls
  <2>5. call'[r].admin \in saw[r]
    <3> HIDE DEF b
    <3> QED  BY <2>2, <2>4
  <2>6. UNCHANGED saw
    BY <1>3 DEF Answered
  <2>7. SawAnswer'
    BY <2>5, <2>6, CallKeepsToken DEF RecentInv, SawAnswer
  <2>8. SawNow'
    BY <1>1, <2>6, CallKeepsToken DEF RecentInv, SawNow, Vouching
  <2> QED  BY <2>7, <2>8 DEF RecentInv
<1> QED  BY <1>2, <1>3 DEF AskMe

\* A change of roles is seen by the requests of the user it is about.
LEMMA SetRolesRecent ==
    ASSUME TypeOK, RecentInv, NEW u \in Users, NEW granted \in SUBSET Roles,
           SetRoles(u, granted)
    PROVE  RecentInv'
<1>1. UNCHANGED <<accepted, call>> /\ roles' = [roles EXCEPT ![u] = granted]
  BY DEF SetRoles
<1>2. ASSUME NEW r \in Requests, call[r] # NoCall
      PROVE  /\ Vouching(call[r].token, roles'[Owner[call[r].token]]) \subseteq saw'[r]
             /\ saw[r] \subseteq saw'[r]
  <2>1. Owner[call[r].token] \in Users
    BY <1>2, OwnerAssumption DEF TypeOK, Calls
  <2>2. CASE Owner[call[r].token] = u
    <3>1. saw'[r] = saw[r] \cup Vouching(call[r].token, granted)
      BY <1>2, <2>2 DEF SetRoles
    <3>2. roles'[Owner[call[r].token]] = granted
      BY <1>1, <2>2 DEF TypeOK
    <3> QED  BY <3>1, <3>2
  <2>3. CASE Owner[call[r].token] # u
    <3>1. saw'[r] = saw[r]
      BY <1>2, <2>3 DEF SetRoles
    <3>2. roles'[Owner[call[r].token]] = roles[Owner[call[r].token]]
      BY <1>1, <2>1, <2>3 DEF TypeOK
    <3> QED  BY <1>2, <3>1, <3>2 DEF RecentInv, SawNow
  <2> QED  BY <2>2, <2>3
<1>3. SawNow'
  BY <1>1, <1>2 DEF SawNow, Vouching
<1>4. SawAnswer'
  BY <1>1, <1>2 DEF RecentInv, SawAnswer
<1> QED  BY <1>3, <1>4 DEF RecentInv

\* Every step keeps RecentInv.
LEMMA NextRecent ==
    ASSUME TypeOK, RecentInv, [Next]_vars
    PROVE  RecentInv'
<1>1. ASSUME NEW r \in Requests, CallStep(r) \/ Act(r) PROVE RecentInv'
  <2>1. UNCHANGED kbaseVars
    BY <1>1, CallFrame DEF Act
  <2>2. CASE AskMe(r)
    BY <2>2, AskMeRecent
  <2>3. CASE AskToken(r)
    <3>1. CASE call' = [call EXCEPT ![r].step = "me"] /\ UNCHANGED saw
      <4>1. call[r] # NoCall /\ call[r] \in Calls
        BY <2>3 DEF AskToken, TypeOK
      <4>2. call'[r].step = "me"
        BY <3>1, <4>1 DEF TypeOK, Calls
      <4>3. UNCHANGED <<accepted, roles, saw>>
        BY <2>1, <3>1 DEF kbaseVars
      <4>4. SawNow'
        BY <2>3, <4>3, CallKeepsToken DEF RecentInv, SawNow, Vouching
      <4>5. SawAnswer'
        BY <2>3, <4>2, <4>3, CallKeepsToken DEF RecentInv, SawAnswer
      <4> QED  BY <4>4, <4>5 DEF RecentInv
    <3> QED  BY <2>1, <2>3, <3>1, ReturnRecent DEF AskToken
  <2>4. CASE NoAnswer(r) \/ Act(r)
    BY <2>1, <2>4, ReturnRecent DEF NoAnswer, Act
  <2> QED  BY <1>1, <2>1, <2>2, <2>3, <2>4, BeginRecent DEF CallStep, BeginLogin, BeginRefresh
<1>2. CASE UNCHANGED <<accepted, roles, call, saw>>
  BY <1>2 DEF RecentInv, SawNow, SawAnswer, Vouching
<1>3. CASE Restart
  BY <1>3 DEF Restart, RecentInv, SawNow, SawAnswer
<1>4. ASSUME NEW t \in Tokens, Revoke(t) PROVE RecentInv'
  <2>1. UNCHANGED <<roles, call, saw>> /\ accepted' \subseteq accepted
    BY <1>4 DEF Revoke
  <2> QED  BY <2>1 DEF RecentInv, SawNow, SawAnswer, Vouching
<1>5. CASE Spawn \/ (\E u \in Users : AuthAges(u))
           \/ (\E t \in Tokens \cup {NoToken} : SetCookie(t)) \/ UNCHANGED vars
  BY <1>2, <1>5 DEF Spawn, AuthAges, SetCookie, vars, kbaseVars
<1> QED  BY <1>1, <1>3, <1>4, <1>5, SetRolesRecent, StepKinds DEF OtherStep

\* RecentInv holds in every reachable state.
LEMMA RecentInvariant == Spec => []RecentInv
  <1>1. Init => RecentInv
    BY DEF Init, RecentInv, SawNow, SawAnswer
  <1>. QED BY <1>1, NextRecent, TypeCorrect, PTL DEF Spec

\* Only the Hub's acting on an answer lets a user in or changes an admin flag.
LEMMA OnlyActAdmits ==
    ASSUME TypeOK, [Next]_vars, ~ \E r \in Requests : Act(r)
    PROVE  /\ \A u \in Users : fresh'[u] => fresh[u]
           /\ UNCHANGED admin
  <1>1. ASSUME NEW r \in Requests, CallStep(r) PROVE UNCHANGED <<fresh, admin>>
    BY <1>1, CallFrame DEF hubVars
  <1>2. CASE Spawn \/ OtherStep
    BY <1>2, OtherFrame DEF Spawn, hubVars
  <1>3. CASE Restart \/ \E u \in Users : AuthAges(u)
    BY <1>3 DEF Restart, AuthAges, TypeOK
  <1>. QED BY <1>1, <1>2, <1>3, StepKinds

\* The step that lets a user in, without time: the Hub acts on a request that has
\* seen KBase vouch for that user.
LEMMA AdmissionStep ==
    ASSUME TypeOK, TokensInv, AdmissionInv, RecentInv, [Next]_vars, NEW u \in Users,
           ~fresh[u], fresh'[u]
    PROVE  LetIn(u)
  <1>1. PICK r \in Requests : Act(r)
    BY OnlyActAdmits
  <1>. DEFINE t == call[r].token
  <1>2. /\ call[r] # NoCall /\ call'[r] = NoCall
        /\ t \in Tokens /\ call[r].kind \in {"login", "refresh"}
    BY <1>1, ActIsTyped
  <1>3. t \in MfaTokens /\ saw[r] # {}
    BY <1>1, <1>2 DEF Act, TokensInv, AnswersWereAdmitted, RecentInv, SawAnswer
  <1>4. ASSUME call[r].kind = "login" PROVE u = Owner[t]
    BY <1>1, <1>4 DEF Act, LoggedIn, TypeOK
  <1>5. ASSUME call[r].kind = "refresh" PROVE u = Owner[t]
    <2>1. u = call[r].user
      BY <1>1, <1>5 DEF Act, Refreshed, TypeOK
    <2>. QED BY <1>2, <1>5, <2>1 DEF AdmissionInv, RefreshesAreOwn
  <1>6. u = Owner[t]
    BY <1>2, <1>4, <1>5
  <1>. QED BY <1>2, <1>3, <1>6 DEF Ending, LetIn

\* The step that changes an admin flag, without time.
LEMMA AdminStep ==
    ASSUME TypeOK, RecentInv, [Next]_vars, NEW u \in Users, (u \in admin) # (u \in admin')
    PROVE  Decided(u)
  <1>1. PICK r \in Requests : Act(r)
    BY OnlyActAdmits
  <1>. DEFINE t == call[r].token
  <1>2. call[r] # NoCall /\ call'[r] = NoCall /\ call[r].admin \in BOOLEAN
    BY <1>1, ActIsTyped
  <1>3. LoggedIn(t, call[r].admin)
    BY <1>1 DEF Act, Refreshed
  <1>4. u = Owner[t]
    BY <1>3 DEF LoggedIn
  <1>5. call[r].admin \in saw[r]
    BY <1>1, <1>2 DEF Act, RecentInv, SawAnswer
  <1>6. (u \in admin') = call[r].admin
    BY <1>2, <1>3, <1>4 DEF LoggedIn
  <1>7. (u \in admin') \in saw[r]
    BY <1>5, <1>6, Zenon
  <1>. QED BY <1>2, <1>4, <1>7, Zenon DEF Ending, Decided

\* However requests, revocations and role changes interleave, between the answers
\* and after them: whoever is let in, and whoever becomes an administrator or no
\* longer is one, is so because KBase said it, as one answer could have, at a moment
\* since the request came.
THEOREM AdmissionRecent == Spec => AdmissionIsRecent
  <1>1. TypeOK /\ TokensInv /\ AdmissionInv /\ RecentInv /\ [Next]_vars =>
           [\A u \in Users :
               /\ ~fresh[u] /\ fresh'[u] => LetIn(u)
               /\ (u \in admin) # (u \in admin') => Decided(u)]_vars
    BY AdmissionStep, AdminStep
  <1>. QED
    BY <1>1, TypeCorrect, TokensInvariant, AdmissionInvariant, RecentInvariant, PTL
    DEF Spec, AdmissionIsRecent

---------------------------------------------------------------------------
(* KBaseAuthFlow implements KBaseAdmission.                                *)

\* No auth state is sealed with a key the Hub is yet to have: a new key opens none.
KeysArePast ==
    \A u \in Users : authState[u] # NoState => authState[u].key <= hubKey

\* Every step keeps the keys of the past.
LEMMA NextKeys ==
    ASSUME TypeOK, KeysArePast, [Next]_vars
    PROVE  KeysArePast'
  <1>. USE DEF KeysArePast
  <1>1. CASE UNCHANGED <<authState, hubKey>>
    BY <1>1
  <1>2. ASSUME NEW r \in Requests, Act(r) PROVE KeysArePast'
    <2>1. call[r].token \in Tokens
      BY <1>2, ActIsTyped
    <2>2. CASE LoggedIn(call[r].token, call[r].admin)
      <3>1. hubKey <= hubKey /\ hubKey' = hubKey
        BY <2>2, BoundAssumption DEF LoggedIn, TypeOK
      <3>. QED BY <2>1, <2>2, <3>1, OwnerAssumption DEF LoggedIn, TypeOK
    <2>3. CASE Refreshed(call[r].user)
      BY <1>1, <2>3 DEF Refreshed
    <2>. QED BY <1>2, <2>2, <2>3 DEF Act
  <1>3. CASE Restart
    <2>1. hubKey' = hubKey + 1 /\ UNCHANGED authState
      BY <1>3 DEF Restart
    <2>2. \A u \in Users : authState[u] # NoState => authState[u].key \in Nat
      BY BoundAssumption DEF TypeOK, States
    <2>. QED BY <2>1, <2>2, BoundAssumption DEF TypeOK
  <1>4. ASSUME NEW r \in Requests, CallStep(r) PROVE UNCHANGED <<authState, hubKey>>
    BY <1>4, CallFrame DEF hubVars
  <1>5. CASE Spawn \/ OtherStep \/ \E u \in Users : AuthAges(u)
    BY <1>1, <1>5, OtherFrame DEF hubVars, Spawn, AuthAges
  <1>. QED
    BY <1>1, <1>2, <1>3, <1>4, <1>5, StepKinds

\* Every reachable state has keys of the past only.
LEMMA KeysInvariant == Spec => []KeysArePast
  <1>1. Init => KeysArePast
    BY DEF Init, KeysArePast
  <1>. QED BY <1>1, NextKeys, TypeCorrect, PTL DEF Spec

\* What the Hub holds for its users changes with the auth state or the key only.
LEMMA HeldFrame ==
    ASSUME UNCHANGED <<authState, hubKey>>
    PROVE  UNCHANGED [u \in Users |-> Held(u)]
  BY DEF Held, Readable

\* A login puts its token, and only that, into what the Hub holds.
LEMMA HeldAfterLogin ==
    ASSUME TypeOK, NEW t \in Tokens, NEW isAdmin, LoggedIn(t, isAdmin)
    PROVE  [u \in Users |-> Held(u)]' = [[u \in Users |-> Held(u)] EXCEPT ![Owner[t]] = t]
  <1>1. [token |-> t, key |-> hubKey] \in States /\ Owner[t] \in Users
    BY OwnerAssumption DEF States, TypeOK
  <1>2. ASSUME NEW u \in Users, u # Owner[t] PROVE Held(u)' = Held(u)
    BY <1>1, <1>2 DEF LoggedIn, Held, Readable, TypeOK
  <1>3. Held(Owner[t])' = t
    BY <1>1, NullAssumption DEF LoggedIn, Held, Readable, TypeOK
  <1>. QED BY <1>1, <1>2, <1>3

\* The request has KBase's answer; what the answer vouches for.
HasAnswer(r) == call[r] # NoCall /\ call[r].step = "answered"
Voucher(r) == [token |-> call[r].token, admin |-> call[r].admin]

\* The answers are those of the requests that have one.
LEMMA AnswersAre == \A v : v \in Answers <=> \E r \in Requests : HasAnswer(r) /\ v = Voucher(r)
  BY DEF Answers, HasAnswer, Voucher

LEMMA AnswersAreNext ==
    \A v : v \in Answers' <=> \E r \in Requests : HasAnswer(r)' /\ v = Voucher(r)'
  BY DEF Answers, HasAnswer, Voucher

\* What a step does to one request alone does to the answers: nothing, when the request
\* has no answer before or after; the request's comes, or goes, when it has one.
LEMMA AnswersOfOneRequest ==
    ASSUME NEW r \in Requests, \A q \in Requests : q # r => call'[q] = call[q]
    PROVE  /\ ~HasAnswer(r) /\ ~HasAnswer(r)' => Answers' = Answers
           /\ ~HasAnswer(r) /\ HasAnswer(r)' => Answers' = Answers \cup {Voucher(r)'}
           /\ HasAnswer(r) /\ ~HasAnswer(r)' => Answers' \in {Answers, Answers \ {Voucher(r)}}
  <1>1. ASSUME NEW q \in Requests, q # r
        PROVE  HasAnswer(q)' = HasAnswer(q) /\ Voucher(q)' = Voucher(q)
    BY <1>1 DEF HasAnswer, Voucher
  <1>2. ASSUME ~HasAnswer(r), ~HasAnswer(r)' PROVE Answers' = Answers
    <2>1. ASSUME NEW v, v \in Answers PROVE v \in Answers'
      <3>1. PICK q \in Requests : HasAnswer(q) /\ v = Voucher(q)
        BY <2>1, AnswersAre
      <3>2. q # r
        BY <1>2, <3>1, Zenon
      <3>. QED BY <1>1, <3>1, <3>2, AnswersAreNext, Zenon
    <2>2. ASSUME NEW v, v \in Answers' PROVE v \in Answers
      <3>1. PICK q \in Requests : HasAnswer(q)' /\ v = Voucher(q)'
        BY <2>2, AnswersAreNext
      <3>2. q # r
        BY <1>2, <3>1, Zenon
      <3>. QED BY <1>1, <3>1, <3>2, AnswersAre, Zenon
    <2>. QED BY <2>1, <2>2
  <1>3. ASSUME ~HasAnswer(r), HasAnswer(r)' PROVE Answers' = Answers \cup {Voucher(r)'}
    <2>1. \A v : v \in Answers' <=> v \in Answers \/ v = Voucher(r)'
      BY <1>1, <1>3, AnswersAre, AnswersAreNext, ZenonT(30)
    <2>. QED BY <2>1
  <1>4. ASSUME HasAnswer(r), ~HasAnswer(r)'
        PROVE  Answers' = Answers \/ Answers' = Answers \ {Voucher(r)}
    <2>1. ASSUME NEW v, v # Voucher(r) PROVE v \in Answers' <=> v \in Answers
      <3>1. ASSUME v \in Answers PROVE v \in Answers'
        <4>1. PICK q \in Requests : HasAnswer(q) /\ v = Voucher(q)
          BY <3>1, AnswersAre
        <4>2. q # r
          BY <2>1, <4>1, Zenon
        <4>. QED BY <1>1, <4>1, <4>2, AnswersAreNext, Zenon
      <3>2. ASSUME v \in Answers' PROVE v \in Answers
        <4>1. PICK q \in Requests : HasAnswer(q)' /\ v = Voucher(q)'
          BY <3>2, AnswersAreNext
        <4>2. q # r
          BY <1>4, <4>1, Zenon
        <4>. QED BY <1>1, <4>1, <4>2, AnswersAre, Zenon
      <3>. QED BY <3>1, <3>2
    <2>2. Voucher(r) \in Answers
      BY <1>4, AnswersAre
    <2>3. CASE Voucher(r) \in Answers'
      BY <2>1, <2>2, <2>3
    <2>4. CASE Voucher(r) \notin Answers'
      BY <2>1, <2>2, <2>4
    <2>. QED BY <2>3, <2>4
  <1>. QED BY <1>2, <1>3, <1>4

\* Every other call stays.
LEMMA OneCall ==
    ASSUME TypeOK, NEW r \in Requests, CallStep(r) \/ Act(r), NEW q \in Requests, q # r
    PROVE  call'[q] = call[q]
  BY DEF CallStep, BeginLogin, BeginRefresh, Begin, AskToken, NoAnswer, AskMe, Answered,
         Act, Return, TypeOK

\* A request comes to have KBase's answer in no step but AskMe, and then has what KBase
\* says at that moment.
LEMMA AnswerComes ==
    ASSUME TypeOK, NEW r \in Requests, CallStep(r)
    PROVE  /\ ~HasAnswer(r)
           /\ HasAnswer(r)' =>
                 /\ call[r].token \in Tokens
                 /\ call[r].token \in accepted /\ Admitted(call[r].token)
                 /\ Voucher(r)' = [token |-> call[r].token,
                                   admin |-> "admin" \in roles[Owner[call[r].token]]]
  <1>1. CASE BeginLogin(r) \/ BeginRefresh(r)
    BY <1>1 DEF BeginLogin, BeginRefresh, Begin, HasAnswer, TypeOK
  <1>2. CASE AskToken(r) \/ NoAnswer(r)
    <2>1. call[r] # NoCall /\ call[r] \in Calls
      BY <1>2 DEF AskToken, NoAnswer, TypeOK
    <2>2. call'[r] = NoCall \/ call'[r] = [call[r] EXCEPT !.step = "me"]
      BY <1>2 DEF AskToken, NoAnswer, Return, TypeOK
    <2>. QED BY <1>2, <2>1, <2>2 DEF AskToken, NoAnswer, HasAnswer, Calls
  <1>3. CASE AskMe(r)
    <2>1. call[r] # NoCall /\ call[r] \in Calls /\ call[r].step = "me"
      BY <1>3 DEF AskMe, TypeOK
    <2>2. CASE Return(r)
      BY <2>1, <2>2 DEF Return, HasAnswer, TypeOK
    <2>3. CASE call[r].token \in accepted /\ Admitted(call[r].token) /\ Answered(r)
      <3>. DEFINE b == "admin" \in roles[Owner[call[r].token]]
      <3>1. call'[r] = [call[r] EXCEPT !.step = "answered", !.admin = b]
        BY <2>3 DEF Answered, TypeOK
      <3>2. call[r].token \in Tokens
        BY <2>1 DEF Calls
      <3>3. call'[r].token = call[r].token /\ call'[r].admin = b
        <4>. HIDE DEF b
        <4>. QED BY <2>1, <3>1 DEF Calls
      <3>4. Voucher(r)' = [token |-> call[r].token, admin |-> b]
        <4>. HIDE DEF b
        <4>. QED BY <3>3 DEF Voucher
      <3>. QED BY <2>1, <2>3, <3>2, <3>4, Zenon DEF HasAnswer
    <2>. QED BY <1>3, <2>2, <2>3 DEF AskMe
  <1>. QED BY <1>1, <1>2, <1>3 DEF CallStep

\* What a request does before the Hub acts on it is KBase's vouching, or nothing.
LEMMA CallStepIsAdmission ==
    ASSUME TypeOK, NEW r \in Requests, CallStep(r)
    PROVE  Admission!AdmissionNext \/ UNCHANGED Admission!admissionVars
  <1>. DEFINE t == call[r].token
              H == [u \in Users |-> Held(u)]
  <1>1. UNCHANGED <<kbaseVars, browserVars, hubVars>> /\ UNCHANGED H
    BY CallFrame, HeldFrame DEF hubVars
  <1>2. CASE HasAnswer(r)'
    <2>1. Answers' = Answers \cup {[token |-> t, admin |-> "admin" \in roles[Owner[t]]]}
      <3>1. Answers' = Answers \cup {Voucher(r)'}
        BY <1>2, AnswerComes, AnswersOfOneRequest, OneCall
      <3>2. Voucher(r)' = [token |-> t, admin |-> "admin" \in roles[Owner[t]]]
        BY <1>2, AnswerComes
      <3>. QED BY <3>1, <3>2, Zenon
    <2>2. t \in Tokens /\ Admission!Vouched(t)
      BY <1>2, AnswerComes DEF Admission!Vouched, Admitted
    <2>3. Admission!Vouch(t)
      <3>1. UNCHANGED <<accepted, roles, session, fresh, admin, container>>
        BY <1>1 DEF kbaseVars, browserVars, hubVars
      <3>. HIDE DEF H, t
      <3>. USE DEF H, t
      <3>. QED BY <1>1, <2>1, <2>2, <3>1, Zenon DEF Admission!Vouch, Admission!kbaseVars
    <2>. QED BY <2>2, <2>3 DEF Admission!AdmissionNext
  <1>3. CASE ~HasAnswer(r)'
    <2>1. UNCHANGED Answers
      BY <1>3, AnswerComes, AnswersOfOneRequest, OneCall
    <2>. QED BY <1>1, <2>1 DEF Admission!admissionVars, kbaseVars, browserVars, hubVars
  <1>. QED BY <1>2, <1>3

\* The Hub acts on an answer: it uses a voucher of KBase's, for a login or a refresh.
LEMMA ActIsAdmission ==
    ASSUME TypeOK, AdmissionInv, NEW r \in Requests, Act(r)
    PROVE  Admission!AdmissionNext
  <1>. DEFINE t == call[r].token
              v == Voucher(r)
              H == [u \in Users |-> Held(u)]
  <1>1. t \in Tokens /\ call[r].kind \in {"login", "refresh"} /\ Owner[t] \in Users
    BY ActIsTyped
  <1>2. UNCHANGED kbaseVars
    BY DEF Act
  <1>3. v.token = t /\ v.admin = call[r].admin
    BY DEF Voucher
  <1>4. HasAnswer(r) /\ ~HasAnswer(r)'
    BY ActIsTyped DEF Act, HasAnswer
  <1>5. v \in Answers
    BY <1>4, AnswersAre
  <1>6. Admission!Use(v)
    BY <1>4, <1>5, OneCall, AnswersOfOneRequest DEF Admission!Use
  <1>7. CASE LoggedIn(t, call[r].admin)
    <2>1. H' = [H EXCEPT ![Owner[t]] = t]
      BY <1>1, <1>7, HeldAfterLogin
    <2>2. Admission!Login(v)
      <3>. HIDE DEF v, H
      <3>1. /\ session' = Owner[v.token]
            /\ fresh' = [fresh EXCEPT ![Owner[v.token]] = TRUE]
            /\ UNCHANGED container
        BY <1>3, <1>7 DEF LoggedIn
      <3>2. admin' = IF v.admin THEN admin \cup {Owner[v.token]} ELSE admin \ {Owner[v.token]}
        BY <1>3, <1>7, Zenon DEF LoggedIn
      <3>3. H' = [H EXCEPT ![Owner[v.token]] = v.token]
        BY <1>3, <2>1
      <3>. USE DEF H
      <3>. QED BY <1>2, <1>6, <3>1, <3>2, <3>3, Zenon
               DEF Admission!Login, Admission!kbaseVars, kbaseVars
    <2>. QED BY <1>5, <2>2 DEF Admission!AdmissionNext
  <1>8. CASE call[r].kind = "refresh" /\ Refreshed(call[r].user)
    <2>. DEFINE u == call[r].user
    <2>1. u \in Users /\ Readable(u) /\ Owner[t] = u
      BY <1>8 DEF Act, AdmissionInv, RefreshesAreOwn
    <2>2. H[u] # NoToken
      BY <2>1, NullAssumption DEF Held, Readable, TypeOK, States
    <2>3. UNCHANGED H
      BY <1>8, HeldFrame DEF Refreshed
    <2>4. Admission!Refresh(v)
      <3>1. /\ fresh' = [fresh EXCEPT ![Owner[v.token]] = TRUE]
            /\ UNCHANGED <<session, admin, container>>
        BY <1>3, <1>8, <2>1 DEF Refreshed, browserVars
      <3>2. H[Owner[v.token]] # NoToken
        BY <1>3, <2>1, <2>2
      <3>. HIDE DEF v
      <3>. QED BY <1>2, <1>6, <2>3, <3>1, <3>2, Zenon
               DEF Admission!Refresh, Admission!kbaseVars, kbaseVars
    <2>. QED BY <1>5, <2>4 DEF Admission!AdmissionNext
  <1>. QED BY <1>1, <1>7, <1>8 DEF Act

\* Each other step is one of the abstract authenticator's, or changes nothing of it.
LEMMA OtherStepsAreAdmission ==
    ASSUME TypeOK, KeysArePast, [Next]_vars,
           ~ \E r \in Requests : CallStep(r) \/ Act(r)
    PROVE  Admission!AdmissionNext \/ UNCHANGED Admission!admissionVars
  <1>. DEFINE H == [u \in Users |-> Held(u)]
  <1>1. ASSUME UNCHANGED call PROVE UNCHANGED Answers
    BY <1>1 DEF Answers
  <1>2. CASE Spawn
    <2>1. session \in Users /\ H[session] = authState[session].token
      BY <1>2, BoundAssumption DEF Spawn, Held, TypeOK
    <2>2. UNCHANGED H /\ UNCHANGED Answers
      BY <1>1, <1>2, HeldFrame DEF Spawn
    <2>3. H[session] # NoToken
      BY <1>2, <2>1, NullAssumption DEF Spawn, Readable, TypeOK, States
    <2>4. Admission!Spawn(session)
      BY <1>2, <2>1, <2>2, <2>3
      DEF Admission!Spawn, Admission!kbaseVars, Spawn, kbaseVars, browserVars
    <2>. QED BY <2>1, <2>4 DEF Admission!AdmissionNext
  <1>3. ASSUME NEW u \in Users, AuthAges(u) PROVE Admission!AdmissionNext
    <2>1. UNCHANGED H /\ UNCHANGED Answers
      BY <1>1, <1>3, HeldFrame DEF AuthAges
    <2>2. Admission!Age(u)
      BY <1>3, <2>1 DEF Admission!Age, Admission!kbaseVars, AuthAges, kbaseVars, browserVars
    <2>. QED BY <2>2 DEF Admission!AdmissionNext
  <1>4. CASE Restart
    <2>1. ASSUME NEW u \in Users PROVE Held(u)' = NoToken
      <3>1. authState[u] # NoState => authState[u].key \in Nat /\ authState[u].key # hubKey + 1
        BY BoundAssumption DEF TypeOK, KeysArePast, States
      <3>. QED BY <1>4, <3>1 DEF Restart, Held, Readable
    <2>2. H' = [u \in Users |-> NoToken]
      BY <2>1
    <2>3. Answers' = {}
      BY <1>4, AnswersAreNext DEF Restart, HasAnswer
    <2>4. Admission!Forget
      BY <1>4, <2>2, <2>3
      DEF Admission!Forget, Admission!kbaseVars, Restart, kbaseVars, browserVars
    <2>. QED BY <2>4 DEF Admission!AdmissionNext
  <1>5. CASE OtherStep
    <2>1. /\ UNCHANGED <<session, fresh, admin, container>>
          /\ UNCHANGED H /\ UNCHANGED Answers
      BY <1>1, <1>5, OtherFrame, HeldFrame DEF hubVars
    <2>2. CASE UNCHANGED kbaseVars
      BY <2>1, <2>2 DEF Admission!admissionVars, kbaseVars
    <2>3. ASSUME NEW t \in Tokens, Revoke(t) PROVE Admission!KBaseChanges
      BY <2>1, <2>3 DEF Admission!KBaseChanges, Revoke, TypeOK, Roles
    <2>4. ASSUME NEW u \in Users, NEW granted \in SUBSET Roles, SetRoles(u, granted)
          PROVE  Admission!KBaseChanges
      <3>1. roles' \in [Users -> SUBSET Roles] /\ UNCHANGED accepted
        BY <2>4 DEF SetRoles, TypeOK
      <3>. QED BY <2>1, <3>1 DEF Admission!KBaseChanges, Roles
    <2>5. ASSUME NEW t \in Tokens \cup {NoToken}, SetCookie(t) PROVE UNCHANGED kbaseVars
      BY <2>5 DEF SetCookie
    <2>. QED BY <1>5, <2>2, <2>3, <2>4, <2>5
             DEF OtherStep, Admission!AdmissionNext, vars, kbaseVars
  <1>. QED BY <1>2, <1>3, <1>4, <1>5, StepKinds

\* Every login and every refresh rests on one moment at which KBase vouched for the
\* token as a whole; what the Hub holds meanwhile changes by logins only, and a new
\* Hub has no token of anybody and no answer of KBase's to act on.
THEOREM ImplementsAtomicAdmission == Spec => ImplementsAdmission
  <1>1. Init => Admission!AdmissionInit
    <2>. SUFFICES ASSUME Init PROVE Admission!AdmissionInit
      OBVIOUS
    <2>1. [u \in Users |-> Held(u)] = [u \in Users |-> NoToken]
      BY DEF Init, Held, Readable
    <2>2. Answers = {}
      BY AnswersAre DEF Init, HasAnswer
    <2>. QED BY <2>1, <2>2 DEF Init, Admission!AdmissionInit
  <1>2. TypeOK /\ AdmissionInv /\ KeysArePast /\ [Next]_vars
           => [Admission!AdmissionNext]_(Admission!admissionVars)
    BY CallStepIsAdmission, ActIsAdmission, OtherStepsAreAdmission
  <1>. QED
    BY <1>1, <1>2, TypeCorrect, AdmissionInvariant, KeysInvariant, PTL
    DEF Spec, ImplementsAdmission, Admission!AdmissionSpec

=============================================================================
