---------------------------- MODULE KBaseAuthFlow ----------------------------
(***************************************************************************)
(* KBaseAuthenticator: login with the kbase_session cookie, the periodic   *)
(* refresh_user and pre_spawn_start, over KBaseAuth.validate_token, which  *)
(* asks the KBase auth service twice.  Between the two requests, while     *)
(* they are under way and before the Hub acts on the second answer, it     *)
(* serves other requests and KBase revokes tokens and changes roles.       *)
(*                                                                         *)
(* JupyterHub's part is external: it calls refresh_user when a user's auth *)
(* is older than auth_refresh_age, and refuses the request when the answer *)
(* is False, without ending the browser's Hub session.                     *)
(***************************************************************************)
EXTENDS Naturals

CONSTANTS
    Users, Tokens,
    Requests,     \* requests of the browser the Hub handles at a time
    Owner,        \* [Tokens -> Users]: whom /api/V2/me names for a token
    MfaTokens,    \* tokens obtained with multi-factor authentication (USED)
    NoOne, NoToken, NoState, NoCall,
    Active,       \* bound: users whose roles change, who age and start servers
    Revocable,    \* bound: tokens that KBase revokes
    MaxRestarts   \* bound: restarts of the Hub

Roles == {"admin", "approved"}
States == [token : Tokens, key : 0..MaxRestarts]
Calls == [kind : {"login", "refresh"}, user : Users \cup {NoOne},
          token : Tokens, step : {"token", "me", "answered"}, admin : BOOLEAN]

ASSUME OwnerAssumption == Owner \in [Tokens -> Users] /\ MfaTokens \subseteq Tokens
ASSUME NullAssumption ==
    /\ NoOne \notin Users /\ NoToken \notin Tokens
    /\ NoState \notin States /\ NoCall \notin Calls
ASSUME BoundAssumption ==
    /\ MaxRestarts \in Nat
    /\ Active \subseteq Users /\ Revocable \subseteq Tokens

VARIABLES
    accepted,    \* tokens KBase accepts
    roles,       \* the KBase roles each user has, of those configured here
    cookie,      \* the browser's kbase_session cookie
    session,     \* the Hub user the browser is logged in as
    call,        \* the validate_token under way for each request
    authState,   \* auth state in the Hub's database, with the key that sealed it
    hubKey,      \* the JUPYTERHUB_CRYPT_KEY of this Hub process
    fresh,       \* auth refreshed less than auth_refresh_age ago, by this process
    admin,       \* users the Hub's database marks as admin
    container,   \* KBASE_AUTH_TOKEN in each user's container
    saw          \* what KBase could have answered to each request (history)

kbaseVars == <<accepted, roles>>
browserVars == <<cookie, session>>
hubVars == <<authState, hubKey, fresh, admin, container>>
vars == <<accepted, roles, cookie, session, call, authState, hubKey,
          fresh, admin, container, saw>>

TypeOK ==
    /\ accepted \subseteq Tokens
    /\ roles \in [Users -> SUBSET Roles]
    /\ cookie \in Tokens \cup {NoToken}
    /\ session \in Users \cup {NoOne}
    /\ call \in [Requests -> Calls \cup {NoCall}]
    /\ authState \in [Users -> States \cup {NoState}]
    /\ hubKey \in 0..MaxRestarts
    /\ fresh \in [Users -> BOOLEAN]
    /\ admin \subseteq Users
    /\ container \in [Users -> Tokens \cup {NoToken}]
    /\ saw \in [Requests -> SUBSET BOOLEAN]

Init ==
    /\ accepted = Tokens
    /\ roles = [u \in Users |-> {"approved"}]
    /\ cookie = NoToken
    /\ session = NoOne
    /\ call = [r \in Requests |-> NoCall]
    /\ authState = [u \in Users |-> NoState]
    /\ hubKey = 0
    /\ fresh = [u \in Users |-> FALSE]
    /\ admin = {}
    /\ container = [u \in Users |-> NoToken]
    /\ saw = [r \in Requests |-> {}]

---------------------------------------------------------------------------
(* Helpers.                                                                *)

\* user.get_auth_state(): what another key sealed reads as nothing.
Readable(u) == authState[u] # NoState /\ authState[u].key = hubKey

\* Mutant of Admitted: the approval role is not asked for.
AdmittedWithMfa(t) == t \in MfaTokens

\* The checks of authenticate and refresh_user on what validate_token returned.
Admitted(t) == "approved" \in roles[Owner[t]] /\ t \in MfaTokens

Return(r) ==
    /\ call' = [call EXCEPT ![r] = NoCall]
    /\ saw' = [saw EXCEPT ![r] = {}]

\* The admin flags with which KBase, as things are, lets the token's owner in: the
\* one of the owner's roles, or none.
Vouching(t, granted) ==
    IF t \in accepted /\ "approved" \in granted THEN {"admin" \in granted} ELSE {}

Begin(r, kind, u, t) ==
    /\ call[r] = NoCall
    /\ call' = [call EXCEPT ![r] =
          [kind |-> kind, user |-> u, token |-> t, step |-> "token", admin |-> FALSE]]
    /\ saw' = [saw EXCEPT ![r] = Vouching(t, roles[Owner[t]])]

---------------------------------------------------------------------------
(* KBaseAuthenticator.                                                     *)

\* Without a cookie authenticate raises at once.
BeginLogin(r) ==
    /\ cookie # NoToken
    /\ Begin(r, "login", NoOne, cookie)
    /\ UNCHANGED <<kbaseVars, browserVars, hubVars>>

\* A request of the logged-in browser, the user's auth being old.  Without a token
\* in the auth state refresh_user is False at once and nothing changes.
BeginRefresh(r) ==
    /\ session # NoOne
    /\ ~fresh[session] /\ Readable(session)
    /\ Begin(r, "refresh", session, authState[session].token)
    /\ UNCHANGED <<kbaseVars, browserVars, hubVars>>

\* No answer, or none of the auth server's: IOError.  Like InvalidTokenError, it
\* leaves the Hub's state as it was.
NoAnswer(r) ==
    /\ call[r] # NoCall /\ call[r].step # "answered"
    /\ Return(r)
    /\ UNCHANGED <<kbaseVars, browserVars, hubVars>>

\* GET api/V2/token: an error answer is InvalidTokenError.
AskToken(r) ==
    /\ call[r] # NoCall /\ call[r].step = "token"
    /\ IF call[r].token \in accepted
       THEN call' = [call EXCEPT ![r].step = "me"] /\ UNCHANGED saw
       ELSE Return(r)
    /\ UNCHANGED <<kbaseVars, browserVars, hubVars>>

\* KBase has said what it says of the token's owner, and of a token obtained with
\* MFA; the Hub is yet to act on it.
Answered(r) ==
    /\ call' = [call EXCEPT ![r].step = "answered",
                            ![r].admin = "admin" \in roles[Owner[call[r].token]]]
    /\ UNCHANGED saw

\* Mutant of AskMe: the first answer is taken for the token's acceptance.
AskMeTrustingFirstAnswer(r) ==
    /\ call[r] # NoCall /\ call[r].step = "me"
    /\ IF Admitted(call[r].token) THEN Answered(r) ELSE Return(r)
    /\ UNCHANGED <<kbaseVars, browserVars, hubVars>>

\* KBase answers GET api/V2/me.  The checks on the user that validate_token makes of
\* both answers look at the answers only, whenever they are made.
AskMe(r) ==
    /\ call[r] # NoCall /\ call[r].step = "me"
    /\ IF call[r].token \in accepted /\ Admitted(call[r].token)
       THEN Answered(r) ELSE Return(r)
    /\ UNCHANGED <<kbaseVars, browserVars, hubVars>>

\* Mutant of LoggedIn: the token alone is stored.
LoggedInBareToken(t, isAdmin) ==
    /\ session' = Owner[t]
    /\ authState' = [authState EXCEPT ![Owner[t]] = t]
    /\ fresh' = [fresh EXCEPT ![Owner[t]] = TRUE]
    /\ UNCHANGED <<cookie, hubKey, admin, container>>

\* authenticate's result: JupyterHub stores name, admin flag and auth state.
LoggedIn(t, isAdmin) ==
    /\ session' = Owner[t]
    /\ authState' = [authState EXCEPT ![Owner[t]] = [token |-> t, key |-> hubKey]]
    /\ admin' = IF isAdmin THEN admin \cup {Owner[t]} ELSE admin \ {Owner[t]}
    /\ fresh' = [fresh EXCEPT ![Owner[t]] = TRUE]
    /\ UNCHANGED <<cookie, hubKey, container>>

\* Mutant of Refreshed: the browser's cookie replaces the stored token.
RefreshedFromCookie(u) ==
    /\ fresh' = [fresh EXCEPT ![u] = TRUE]
    /\ authState' = IF cookie = NoToken THEN authState
          ELSE [authState EXCEPT ![u] = [token |-> cookie, key |-> hubKey]]
    /\ UNCHANGED <<browserVars, hubKey, admin, container>>

\* refresh_user returned True.  What it assigns to user.db.auth_state is not the
\* stored auth state, which stays as it was.
Refreshed(u) ==
    /\ fresh' = [fresh EXCEPT ![u] = TRUE]
    /\ UNCHANGED <<browserVars, authState, hubKey, admin, container>>

\* The answer has reached the Hub, which has awaited its body, the hooks of
\* JupyterHub and the sealing of the auth state since.
Act(r) ==
    /\ call[r] # NoCall /\ call[r].step = "answered"
    /\ Return(r)
    /\ IF call[r].kind = "login"
       THEN LoggedIn(call[r].token, call[r].admin)
       ELSE Refreshed(call[r].user)
    /\ UNCHANGED kbaseVars

\* pre_spawn_start on a request that was let through; it raises without a token.
Spawn ==
    /\ session \in Active /\ fresh[session]
    /\ Readable(session)
    /\ container' = [container EXCEPT ![session] = authState[session].token]
    /\ UNCHANGED <<kbaseVars, browserVars, call, saw, authState, hubKey, fresh, admin>>

---------------------------------------------------------------------------
(* JupyterHub, the browsers and KBase.                                     *)

\* auth_refresh_age passes.
AuthAges(u) ==
    /\ fresh[u]
    /\ fresh' = [fresh EXCEPT ![u] = FALSE]
    /\ UNCHANGED <<kbaseVars, browserVars, call, saw, authState, hubKey, admin, container>>

\* Mutant of Restart: the time of the last refresh is kept.
RestartKeepsFresh ==
    /\ hubKey < MaxRestarts /\ hubKey' = hubKey + 1
    /\ call' = [r \in Requests |-> NoCall]
    /\ saw' = [r \in Requests |-> {}]
    /\ UNCHANGED <<kbaseVars, browserVars, authState, fresh, admin, container>>

\* Sessions outlive the Hub (its cookie secret is a file), the key does not.
Restart ==
    /\ hubKey < MaxRestarts /\ hubKey' = hubKey + 1
    /\ call' = [r \in Requests |-> NoCall]
    /\ saw' = [r \in Requests |-> {}]
    /\ fresh' = [u \in Users |-> FALSE]
    /\ UNCHANGED <<kbaseVars, browserVars, authState, admin, container>>

\* The browser signs in to KBase, as anyone, or out of it.
SetCookie(t) ==
    /\ cookie # t /\ cookie' = t
    /\ UNCHANGED <<kbaseVars, session, call, saw, hubVars>>

Revoke(t) ==
    /\ t \in accepted /\ accepted' = accepted \ {t}
    /\ UNCHANGED <<roles, browserVars, call, saw, hubVars>>

SetRoles(u, granted) ==
    /\ roles[u] # granted /\ roles' = [roles EXCEPT ![u] = granted]
    /\ saw' = [r \in Requests |->
          IF call[r] # NoCall /\ Owner[call[r].token] = u
          THEN saw[r] \cup Vouching(call[r].token, granted) ELSE saw[r]]
    /\ UNCHANGED <<accepted, browserVars, call, hubVars>>

---------------------------------------------------------------------------

Next ==
    \/ \E r \in Requests :
          \/ BeginLogin(r) \/ BeginRefresh(r) \/ AskToken(r) \/ AskMe(r)
          \/ NoAnswer(r) \/ Act(r)
    \/ Spawn
    \/ \E t \in Tokens \cup {NoToken} : SetCookie(t)
    \/ \E u \in Active :
          AuthAges(u) \/ \E granted \in SUBSET Roles : SetRoles(u, granted)
    \/ \E t \in Revocable : Revoke(t)
    \/ Restart

Spec == Init /\ [][Next]_vars

---------------------------------------------------------------------------
(* Properties.                                                             *)

\* A user whose requests are served has a token pre_spawn_start can use: after a
\* Hub restart, which makes every stored auth state unreadable, the first
\* request is refused until the user has logged in again.
ServedUserHasToken == \A u \in Users : fresh[u] => Readable(u)

\* The token kept for a user, and the one handed to the user's container, is a
\* token of that very user and was obtained with MFA, whichever browsers and
\* cookies the logins came from.
TokensStayWithTheirUser ==
    \A u \in Users :
        /\ authState[u] # NoState =>
              Owner[authState[u].token] = u /\ authState[u].token \in MfaTokens
        /\ container[u] # NoToken =>
              Owner[container[u]] = u /\ container[u] \in MfaTokens

\* Requests that come to their end in a step.
Ending == {r \in Requests : call[r] # NoCall /\ call'[r] = NoCall}

\* One of them had KBase vouch for the user, on a token of theirs.
LetIn(u) ==
    \E r \in Ending :
        Owner[call[r].token] = u /\ call[r].token \in MfaTokens /\ saw[r] # {}

\* One of them had KBase hold of the user what the admin flag becomes.
Decided(u) ==
    \E r \in Ending : Owner[call[r].token] = u /\ (u \in admin') \in saw[r]

\* A user is let in, by login or refresh, on a token of theirs, obtained with MFA,
\* that KBase accepted at a moment since the request came at which it also called
\* them approved; an admin flag changes to what KBase held of that very user at such
\* a moment.  So an answer may be out of date when the Hub acts on it, but never by
\* more than the request has lasted, and two answers never add up to an approval
\* that KBase gave at no time.
AdmissionIsRecent ==
    [][\A u \in Users :
          /\ ~fresh[u] /\ fresh'[u] => LetIn(u)
          /\ (u \in admin) # (u \in admin') => Decided(u)]_vars

\* The token the Hub has for a user and can read.
Held(u) == IF Readable(u) THEN authState[u].token ELSE NoToken

\* What KBase has answered to the requests under way.
Answers ==
    {[token |-> call[r].token, admin |-> call[r].admin] :
        r \in {q \in Requests : call[q] # NoCall /\ call[q].step = "answered"}}

\* Though a login and a refresh take two requests, with other requests, restarts
\* and KBase's own changes in between and after them, each rests on one moment at
\* which KBase vouched for the token as a whole, and in this Hub's time.  A refresh
\* replaces neither a token, be it of a newer login, nor an admin flag; a restart of
\* the Hub takes every stored token and every answer away and leaves the sessions.
Admission == INSTANCE KBaseAdmission
                 WITH held <- [u \in Users |-> Held(u)], vouchers <- Answers
ImplementsAdmission == Admission!AdmissionSpec
=============================================================================
