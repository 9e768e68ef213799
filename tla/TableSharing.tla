----------------------------- MODULE TableSharing -----------------------------
(***************************************************************************)
(* Sharing a table: share_table, unshare_table, make_table_public,         *)
(* make_table_private and get_table_access_info of minio_governance/utils, *)
(* over DataGovernanceClient of minio_governance/client, which posts each  *)
(* to the governance service and waits for 60 seconds.  The service keeps  *)
(* rights by path; tables come and go in the catalog without it.           *)
(*                                                                         *)
(* A call has three moments: it is sent, the service acts on it, the caller*)
(* has its answer or an exception.  A call that timed out may still be     *)
(* acted on, at any later time or never.                                   *)
(***************************************************************************)
EXTENDS Sequences

CONSTANTS
    Users,
    Groups,
    Tenants,        \* they have a warehouse too
    Everyone,       \* to whom a public path is open
    Namespaces,     \* full names of databases
    Tables,
    Suffix,         \* ".db"
    NoTarget,       \* no database of that name
    CallIds,        \* bound: calls in a behaviour
    Lists           \* bound: the lists of recipients that callers name

Targets == Users \cup Tenants
Recipients == Users \cup Groups \cup {Everyone}

ASSUME SharingAssumption ==
    /\ Users \cap Tenants = {} /\ NoTarget \notin Targets
    /\ Everyone \notin Users \cup Groups
    /\ Suffix \notin Namespaces
    /\ Lists \subseteq SUBSET (Users \cup Groups)

\* A namespace argument comes with the suffix or without it; a directory has it.
Arguments == {<<ns>> : ns \in Namespaces} \cup {<<ns, Suffix>> : ns \in Namespaces}
Directory(argument) ==
    IF argument[Len(argument)] = Suffix THEN argument ELSE Append(argument, Suffix)
DatabaseDirectory(ns) == <<ns, Suffix>>

\* The paths a call can name: all lie in the warehouse of a user.
Paths == Users \X {DatabaseDirectory(ns) : ns \in Namespaces} \X Tables

Operations == {"share", "unshare", "public", "private", "info"}
Grants == {"share", "public"}
Revokes == {"unshare", "private"}

Unsent == [status |-> "none"]
Calls ==
    [status : {"open", "answered", "raised"},
     caller : Users,
     op : Operations,
     path : Paths,
     whom : SUBSET Recipients,      \* recipients in the request
     done : BOOLEAN,                \* the service has acted on it
     accepted : BOOLEAN,            \* it answers with a 2xx status
     reported : SUBSET Recipients,  \* recipients its answer names
     after : SUBSET CallIds]        \* calls answered before it was sent (history)

VARIABLES
    home,           \* in whose warehouse the database of each name lies
    tables,         \* the catalog: pairs of a database and a table
    rights,         \* the governance service: who may read a path
    calls

catalogVars == <<home, tables>>
vars == <<home, tables, rights, calls>>

TypeOK ==
    /\ home \in [Namespaces -> Targets \cup {NoTarget}]
    /\ tables \subseteq Namespaces \X Tables
    /\ \A place \in tables : home[place[1]] # NoTarget
    /\ rights \in [Paths -> SUBSET Recipients]
    /\ calls \in [CallIds -> Calls \cup {Unsent}]
    /\ \A c \in CallIds : calls[c].status = "answered" => calls[c].done /\ calls[c].accepted

Init ==
    /\ home = [ns \in Namespaces |-> NoTarget]
    /\ tables = {}
    /\ rights = [path \in Paths |-> {}]
    /\ calls = [c \in CallIds |-> Unsent]

---------------------------------------------------------------------------
(* The catalog (module Warehouse says which names arise for which target).  *)

\* create_namespace_if_not_exists: CREATE DATABASE IF NOT EXISTS.
CreateNamespace(target, ns) ==
    /\ home[ns] = NoTarget
    /\ home' = [home EXCEPT ![ns] = target]
    /\ UNCHANGED <<tables, rights, calls>>

\* saveAsTable: the user's own call of Spark.
SaveTable(ns, table) ==
    /\ home[ns] # NoTarget /\ <<ns, table>> \notin tables
    /\ tables' = tables \cup {<<ns, table>>}
    /\ UNCHANGED <<home, rights, calls>>

\* remove_table: DROP TABLE IF EXISTS.  Nothing is said to the governance service.
RemoveTable(ns, table) ==
    /\ <<ns, table>> \in tables
    /\ tables' = tables \ {<<ns, table>>}
    /\ UNCHANGED <<home, rights, calls>>

\* DROP DATABASE ... CASCADE: the user's own SQL.
DropDatabase(ns) ==
    /\ home[ns] # NoTarget
    /\ home' = [home EXCEPT ![ns] = NoTarget]
    /\ tables' = tables \ ({ns} \X Tables)
    /\ UNCHANGED <<rights, calls>>

---------------------------------------------------------------------------
(* The calls.                                                              *)

\* Mutant of TablePath: the path is the one of the database, whoever calls.
TablePathOfHome(user, argument, table) ==
    IF home[argument[1]] \in Users
    THEN <<home[argument[1]], Directory(argument), table>>
    ELSE <<user, Directory(argument), table>>

\* _build_table_path: the caller's own warehouse, wherever the database lies.
TablePath(user, argument, table) == <<user, Directory(argument), table>>

Answered == {c \in CallIds : calls[c].status = "answered"}

\* The client asks with the user's token, in any of the user's notebooks: calls of
\* one user may overlap.
Send(c, user, op, argument, table, whom) ==
    /\ calls[c].status = "none"
    /\ calls' = [calls EXCEPT ![c] =
           [status |-> "open", caller |-> user, op |-> op,
            path |-> TablePath(user, argument, table), whom |-> whom,
            done |-> FALSE, accepted |-> FALSE, reported |-> {}, after |-> Answered]]
    /\ UNCHANGED <<catalogVars, rights>>

ShareTable(c, user, argument, table, whom) == Send(c, user, "share", argument, table, whom)
UnshareTable(c, user, argument, table, whom) == Send(c, user, "unshare", argument, table, whom)
MakeTablePublic(c, user, argument, table) ==
    Send(c, user, "public", argument, table, {Everyone})
MakeTablePrivate(c, user, argument, table) ==
    Send(c, user, "private", argument, table, {Everyone})
GetTableAccessInfo(c, user, argument, table) ==
    Send(c, user, "info", argument, table, {})

\* Mutant of Reported: errors of single recipients are left out of account.
ReportedAll(c, moved) == calls[c].whom

\* The recipients that an answer of success names: those for whom it is one.  The
\* others are in its list of errors.
Reported(c, moved) == moved

\* The service changes the rights of some of the recipients and answers with them,
\* or fails half way.  It knows a path as public or not, without recipients.
ChangeRights(c, moved, accepted) ==
    LET call == calls[c]
    IN  /\ call.status \in {"open", "raised"} /\ ~call.done
        /\ moved \subseteq call.whom
        /\ accepted => call.status = "open" \* nobody reads a late answer
        /\ accepted /\ call.op \in {"public", "private"} => moved = call.whom
        /\ \/ /\ call.op \in Grants
              /\ rights' = [rights EXCEPT ![call.path] = @ \cup moved]
           \/ /\ call.op \in Revokes
              /\ rights' = [rights EXCEPT ![call.path] = @ \ moved]
           \/ \* "completely private" may mean the shares as well
              /\ call.op = "private"
              /\ rights' = [rights EXCEPT ![call.path] = {}]
        /\ calls' = [calls EXCEPT
               ![c].done = TRUE, ![c].accepted = accepted,
               ![c].reported = IF accepted THEN Reported(c, moved) ELSE {}]
        /\ UNCHANGED catalogVars

\* Mutant of ReadRights: an answer from before the call.
ReadNoRights(c) ==
    /\ calls[c].status = "open" /\ calls[c].op = "info" /\ ~calls[c].done
    /\ calls' = [calls EXCEPT ![c].done = TRUE, ![c].accepted = TRUE]
    /\ UNCHANGED <<catalogVars, rights>>

ReadRights(c) ==
    /\ calls[c].status = "open" /\ calls[c].op = "info" /\ ~calls[c].done
    /\ calls' = [calls EXCEPT ![c].done = TRUE, ![c].accepted = TRUE,
                              ![c].reported = rights[calls[c].path]]
    /\ UNCHANGED <<catalogVars, rights>>

\* Mutant of HandleResponse: an error is handed over like a result.
HandleAnyResponse(c) ==
    /\ calls[c].status = "open" /\ calls[c].done
    /\ calls' = [calls EXCEPT ![c].status = "answered"]
    /\ UNCHANGED <<catalogVars, rights>>

\* _handle_response: a 2xx answer is the result, any other raises APIError.
HandleResponse(c) ==
    /\ calls[c].status = "open" /\ calls[c].done
    /\ calls' = [calls EXCEPT
           ![c].status = IF calls[c].accepted THEN "answered" ELSE "raised"]
    /\ UNCHANGED <<catalogVars, rights>>

\* The connection fails, or 60 seconds are over, before the answer is there; or the
\* user interrupts the cell.
TimeOut(c) ==
    /\ calls[c].status = "open"
    /\ calls' = [calls EXCEPT ![c].status = "raised", ![c].accepted = FALSE,
                              ![c].reported = {}]
    /\ UNCHANGED <<catalogVars, rights>>

Catalog ==
    \/ \E ns \in Namespaces : DropDatabase(ns) \/ \E target \in Targets : CreateNamespace(target, ns)
    \/ \E ns \in Namespaces, table \in Tables : SaveTable(ns, table) \/ RemoveTable(ns, table)

Call(c) ==
    \E user \in Users, argument \in Arguments, table \in Tables :
        \/ \E whom \in Lists :
              ShareTable(c, user, argument, table, whom) \/ UnshareTable(c, user, argument, table, whom)
        \/ MakeTablePublic(c, user, argument, table)
        \/ MakeTablePrivate(c, user, argument, table)
        \/ GetTableAccessInfo(c, user, argument, table)

Serve(c) ==
    \/ \E moved \in SUBSET Recipients, accepted \in BOOLEAN : ChangeRights(c, moved, accepted)
    \/ ReadRights(c)

Next ==
    \/ Catalog
    \/ \E c \in CallIds : Call(c) \/ Serve(c) \/ HandleResponse(c) \/ TimeOut(c)

Spec == Init /\ [][Next]_vars

---------------------------------------------------------------------------
(* Properties.  They relate what callers were told to who can read a table. *)

Location(place) == <<home[place[1]], DatabaseDirectory(place[1]), place[2]>>
InUserWarehouse(place) == place \in tables /\ home[place[1]] \in Users

\* The call asked for the reader, and its answer, if there is one, names the reader:
\* for those in its list of errors nothing was done.
Concerns(c, reader) ==
    /\ reader \in calls[c].whom
    /\ calls[c].status = "answered" => reader \in calls[c].reported

\* The owner of the warehouse asked, at whatever time, to let the reader in.
LetsIn(g, path, reader) ==
    /\ calls[g].status # "none" /\ calls[g].op \in Grants
    /\ calls[g].path = path /\ calls[g].caller = path[1] /\ Concerns(g, reader)

\* A call that may have taken the right of the reader away.
ShutsOut(j, path, reader) ==
    /\ calls[j].status # "none" /\ calls[j].path = path
    /\ \/ calls[j].op = "unshare" /\ Concerns(j, reader)
       \/ calls[j].op = "private"

\* The caller was told that the right is gone.
ToldOut(j, path, reader) ==
    /\ calls[j].status = "answered" /\ calls[j].op \in Revokes
    /\ calls[j].path = path /\ reader \in calls[j].reported

\* The caller was told that the right is there.
ToldIn(g, path, reader) ==
    /\ calls[g].status = "answered" /\ calls[g].op \in Grants
    /\ calls[g].path = path /\ reader \in calls[g].reported

\* Whoever can read a table in a user's warehouse was let in by a call of that user on
\* this name, which no answered unshare_table or make_table_private came after: a call
\* that timed out may let someone in later than that, and the call may be older than
\* the table, for remove_table leaves rights alone.
ReadersWereLetIn ==
    \A place \in Namespaces \X Tables : InUserWarehouse(place) =>
        \A reader \in rights[Location(place)] :
            \E g \in CallIds :
                /\ LetsIn(g, Location(place), reader)
                /\ \A j \in CallIds :
                      ToldOut(j, Location(place), reader) => g \notin calls[j].after

\* A recipient named by the answer of share_table can read the table of that name in
\* the caller's warehouse, and can as long as the caller sends nothing that shuts the
\* recipient out: not so where the database lies in another warehouse.
SharesReachTheTable ==
    \A place \in Namespaces \X Tables, g \in CallIds, reader \in Recipients :
        /\ InUserWarehouse(place)
        /\ ToldIn(g, Location(place), reader)
        /\ reader \notin rights[Location(place)]
        => \E j \in CallIds :
              ShutsOut(j, Location(place), reader) /\ j \notin calls[g].after

\* get_table_access_info tells of the caller's path what some order of the calls
\* explains: nobody shut out for certain before it was asked, and everybody let in
\* for certain, but for calls that overlap.
AccessInfoIsRegular ==
    \A i \in CallIds : calls[i].status = "answered" /\ calls[i].op = "info" =>
        \A reader \in Recipients :
            IF reader \in calls[i].reported
            THEN \E g \in CallIds :
                    /\ LetsIn(g, calls[i].path, reader)
                    /\ \A j \in calls[i].after :
                          ToldOut(j, calls[i].path, reader) => g \notin calls[j].after
            ELSE \A g \in calls[i].after : ToldIn(g, calls[i].path, reader) =>
                    \E j \in CallIds :
                        /\ ShutsOut(j, calls[i].path, reader)
                        /\ j \notin calls[g].after /\ i \notin calls[j].after
=============================================================================
