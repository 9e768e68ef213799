----------------------------- MODULE ServerLease -----------------------------
(***************************************************************************)
(* What CustomKubeSpawner promises a user, without pods, environments or   *)
(* polls: a Spark cluster is leased while the notebook server starts and   *)
(* is given back when the server goes.  Users may take and give back a     *)
(* lease themselves, and one taken behind a release is theirs to lose.     *)
(***************************************************************************)
CONSTANTS
    Users,
    Reliable   \* the Hub survives and reaches the services it releases with

VARIABLES
    server,    \* the user's notebook server
    lease,     \* the user holds a Spark cluster
    strays     \* users who have taken a lease with no server to release it

leaseVars == <<server, lease, strays>>

LeaseTypeOK ==
    /\ server \in [Users -> {"off", "starting", "on", "stopping"}]
    /\ lease \in [Users -> BOOLEAN]
    /\ strays \subseteq Users

LeaseInit ==
    /\ server = [u \in Users |-> "off"]
    /\ lease = [u \in Users |-> FALSE]
    /\ strays = {}

Move(u, from, to) ==
    /\ server[u] \in from
    /\ server' = [server EXCEPT ![u] = to]

Start(u) == Move(u, {"off"}, "starting") /\ UNCHANGED <<lease, strays>>

\* The only place where the Hub takes a lease.
Acquire(u) ==
    /\ server[u] = "starting"
    /\ lease' = [lease EXCEPT ![u] = TRUE]
    /\ UNCHANGED <<server, strays>>

\* A start may lose what it took and still go on; a launch that goes on after it
\* was given up takes a lease away at any time.
Lose(u) ==
    /\ server[u] = "starting" \/ ~Reliable
    /\ lease' = [lease EXCEPT ![u] = FALSE]
    /\ UNCHANGED <<server, strays>>

Ready(u) == Move(u, {"starting"}, "on") /\ UNCHANGED <<lease, strays>>

\* Stopping gives the lease back before the server goes.
Release(u) ==
    /\ Move(u, {"starting", "on"}, "stopping")
    /\ \/ lease' = [lease EXCEPT ![u] = FALSE]
       \/ ~Reliable /\ UNCHANGED lease
    /\ UNCHANGED strays

Gone(u) == Move(u, {"stopping"}, "off") /\ UNCHANGED <<lease, strays>>

\* Stopping may fail after the lease was given back.
Resume(u) == Move(u, {"stopping"}, "on") /\ UNCHANGED <<lease, strays>>

\* A server dropped without a stop holds nothing, where all is reliable.
Drop(u) ==
    /\ Move(u, {"starting", "on"}, "off")
    /\ Reliable => ~lease[u] \/ u \in strays
    /\ UNCHANGED <<lease, strays>>

\* Users take and give back leases of their own.
TakeOwn(u) ==
    /\ lease' = [lease EXCEPT ![u] = TRUE]
    /\ strays' = IF server[u] \in {"starting", "on"} THEN strays ELSE strays \cup {u}
    /\ UNCHANGED server

GiveBackOwn(u) ==
    /\ lease' = [lease EXCEPT ![u] = FALSE]
    /\ UNCHANGED <<server, strays>>

HubLost ==
    /\ ~Reliable
    /\ server' = [u \in Users |-> "off"]
    /\ UNCHANGED <<lease, strays>>

LeaseNext ==
    \/ \E u \in Users : \/ Start(u) \/ Acquire(u) \/ Lose(u) \/ Ready(u)
                        \/ Release(u) \/ Gone(u) \/ Resume(u) \/ Drop(u)
                        \/ TakeOwn(u) \/ GiveBackOwn(u)
    \/ HubLost

LeaseSpec == LeaseInit /\ [][LeaseNext]_leaseVars

\* A lease belongs to a server that is starting or on, or its user took it when
\* there was none to release it.
NoStrayLease ==
    Reliable => \A u \in Users :
        lease[u] => server[u] \in {"starting", "on"} \/ u \in strays
=============================================================================
