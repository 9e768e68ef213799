--------------------------- MODULE KBaseAdmission ---------------------------
(***************************************************************************)
(* What KBaseAuthenticator promises, without requests under way, cookies   *)
(* or keys: a login and a refresh each rest on a voucher, which KBase      *)
(* gives at one moment at which it accepts a token of the user, obtained   *)
(* with MFA, and calls the user approved.  The Hub acts on it later, when  *)
(* KBase may think otherwise, but no Hub acts on a voucher of another.     *)
(***************************************************************************)
CONSTANTS
    Users, Tokens,
    Owner,       \* [Tokens -> Users]
    MfaTokens,   \* tokens obtained with multi-factor authentication
    NoOne, NoToken

VARIABLES
    accepted, roles,   \* KBase: tokens it accepts, the roles of each user
    session,           \* the Hub user the browser is logged in as
    held,              \* the token the Hub has for each user, and can read
    fresh,             \* users whose requests are served without asking KBase
    admin,             \* users the Hub marks as admin
    container,         \* the token in each user's container
    vouchers           \* what KBase has vouched for and the Hub may act on

kbaseVars == <<accepted, roles>>
admissionVars ==
    <<accepted, roles, session, held, fresh, admin, container, vouchers>>

AdmissionInit ==
    /\ accepted = Tokens
    /\ roles = [u \in Users |-> {"approved"}]
    /\ session = NoOne
    /\ held = [u \in Users |-> NoToken]
    /\ fresh = [u \in Users |-> FALSE]
    /\ admin = {}
    /\ container = [u \in Users |-> NoToken]
    /\ vouchers = {}

\* What KBase must say, at that moment, of a token that lets its owner in.
Vouched(t) == t \in accepted /\ t \in MfaTokens /\ "approved" \in roles[Owner[t]]

Vouch(t) ==
    /\ Vouched(t)
    /\ UNCHANGED <<kbaseVars, session, fresh, admin, container>>
    /\ vouchers' = vouchers \cup {[token |-> t, admin |-> "admin" \in roles[Owner[t]]]}
    /\ UNCHANGED held

\* A voucher is used up, unless another request holds the same.
Use(v) == v \in vouchers /\ vouchers' \in {vouchers, vouchers \ {v}}

Login(v) ==
    /\ UNCHANGED <<kbaseVars, container>>
    /\ session' = Owner[v.token]
    /\ fresh' = [fresh EXCEPT ![Owner[v.token]] = TRUE]
    /\ admin' = IF v.admin THEN admin \cup {Owner[v.token]} ELSE admin \ {Owner[v.token]}
    /\ held' = [held EXCEPT ![Owner[v.token]] = v.token]
    /\ Use(v)

\* The token asked about is one the Hub held for the user when the request came;
\* a login may have replaced it since, and stays.
Refresh(v) ==
    /\ UNCHANGED <<kbaseVars, session, admin, container>>
    /\ fresh' = [fresh EXCEPT ![Owner[v.token]] = TRUE]
    /\ held[Owner[v.token]] # NoToken
    /\ Use(v)
    /\ UNCHANGED held

Spawn(u) ==
    /\ session = u /\ fresh[u] /\ held[u] # NoToken
    /\ UNCHANGED <<kbaseVars, session, fresh, admin>>
    /\ container' = [container EXCEPT ![u] = held[u]]
    /\ UNCHANGED <<held, vouchers>>

Age(u) ==
    /\ fresh' = [fresh EXCEPT ![u] = FALSE]
    /\ UNCHANGED <<kbaseVars, session, admin, container, vouchers, held>>

\* A new Hub can read nothing, has refreshed nobody and has no answer of KBase's.
Forget ==
    /\ fresh' = [u \in Users |-> FALSE]
    /\ held' = [u \in Users |-> NoToken]
    /\ vouchers' = {}
    /\ UNCHANGED <<kbaseVars, session, admin, container>>

\* KBase revokes tokens and changes roles as it likes.
KBaseChanges ==
    /\ accepted' \subseteq accepted
    /\ UNCHANGED <<session, fresh, admin, container, vouchers, held>>
    /\ roles' \in [Users -> SUBSET {"admin", "approved"}]

AdmissionNext ==
    \/ KBaseChanges
    \/ \E u \in Users : Age(u) \/ Spawn(u)
    \/ \E t \in Tokens : Vouch(t)
    \/ \E v \in vouchers : Login(v) \/ Refresh(v)
    \/ Forget

AdmissionSpec == AdmissionInit /\ [][AdmissionNext]_admissionVars
=============================================================================
