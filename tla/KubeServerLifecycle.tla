------------------------- MODULE KubeServerLifecycle -------------------------
(***************************************************************************)
(* The life of a user's notebook server and Spark cluster under the Hub:   *)
(* CustomKubeSpawner.start, stop and poll, with the Spark Cluster Manager  *)
(* calls they make (spark/cluster.py), around the Hub process, the pods    *)
(* and the clusters, all of which can fail separately.                     *)
(*                                                                         *)
(* start() is an ordinary (not async) method: once it has begun, the Hub's *)
(* event loop runs nothing else until super().start() is awaited.  Only    *)
(* the death of the Hub, or the world outside it, falls between its steps: *)
(* KBase, Kubernetes, and the user's notebooks, which make and delete the  *)
(* user's cluster themselves.                                              *)
(***************************************************************************)
EXTENDS Naturals, FiniteSets

CONSTANTS
    Users,
    Tokens,             \* KBase session tokens a user may hold
    NoToken,            \* no token in auth state or spawner environment
    NoAddress,          \* SPARK_MASTER_URL not set
    MaxClusters,        \* bound: clusters one user ever asks for
    DeleteStoppedPods,  \* KubeSpawner.delete_stopped_pods
    AllowedFaults,      \* the faults this instance may meet
    MaxFaultKinds       \* bound: kinds of fault, and users whose notebooks call
                        \* the cluster manager, in one behaviour

FaultKinds == {"crash", "evict", "expire", "prepareFail", "createFail",
               "createLost", "deleteFail", "deleteLost", "replyLost",
               "launchTimeout", "stopFail"}

\* SPARK_MASTER_URL names one incarnation of one user's cluster.
Addresses == [owner : Users, id : Nat]

\* A launch the Hub has given up and not cancelled: what it goes on with, and
\* whether it waits for a pod in its way to be deleted.
LateLaunches == [token : Tokens \cup {NoToken},
                 address : Addresses \cup {NoAddress},
                 replacing : BOOLEAN]

ASSUME BoundAssumption == MaxClusters \in Nat /\ MaxFaultKinds \in Nat
ASSUME TokenAssumption == NoToken \notin Tokens
ASSUME AddressAssumption == NoAddress \notin Addresses
ASSUME ConfigAssumption ==
    DeleteStoppedPods \in BOOLEAN /\ AllowedFaults \subseteq FaultKinds

VARIABLES
    hubUp,       \* the Hub process runs
    hubAddress,  \* os.environ["SPARK_MASTER_URL"] of the Hub process
    authState,   \* the KBase token in the Hub's encrypted auth state
    phase,       \* where the Hub is with the user's server
    envToken,    \* spawner.environment["KBASE_AUTH_TOKEN"]
    envAddress,  \* spawner.environment["SPARK_MASTER_URL"]
    timeoutSet,  \* the Spawner object has an idle_timeout attribute
    pod,         \* the user's pod: absent, running, or its container exited
    podAddress,  \* SPARK_MASTER_URL in the running pod
    idle,        \* last_activity is older than the idle timeout
    cluster,     \* id of the user's live Spark cluster, 0 if there is none
    made,        \* clusters created for the user so far
    late,        \* launches that go on after the Hub has given them up
    revoked,     \* <<user, token>> pairs KBase no longer accepts
    faulted,     \* kinds of fault met so far (history)
    called,      \* users whose notebooks have made or deleted a cluster (history)
    strays       \* those of them who made one behind a stop() (history)

processVars == <<hubUp, hubAddress, authState>>
spawnerVars == <<envToken, envAddress, timeoutSet>>
podVars == <<pod, podAddress, idle>>
clusterVars == <<cluster, made>>
userVars == <<revoked, called, strays>>
vars == <<hubUp, hubAddress, authState, phase, envToken, envAddress,
          timeoutSet, pod, podAddress, idle, cluster, made, late, revoked,
          faulted, called, strays>>

\* "off": no server. "spawning": pre_spawn_start has run. "preparing": inside
\* start(), environment ready. "launching": super().start() asks for the pod.
\* "replacing": it deletes a pod of the same name first. "waiting": the pod is
\* there and not yet ready. "up": served and polled. "stopping": inside stop(),
\* which the Hub called. "culling": inside stop(), which poll() called.
\* "failed": starting raised, and the Hub has yet to clean up.
Phases == {"off", "spawning", "preparing", "launching", "replacing",
           "waiting", "up", "stopping", "culling", "failed"}

TypeOK ==
    /\ hubUp \in BOOLEAN
    /\ hubAddress \in Addresses \cup {NoAddress}
    /\ authState \in [Users -> Tokens \cup {NoToken}]
    /\ phase \in [Users -> Phases]
    /\ envToken \in [Users -> Tokens \cup {NoToken}]
    /\ envAddress \in [Users -> Addresses \cup {NoAddress}]
    /\ timeoutSet \in [Users -> BOOLEAN]
    /\ pod \in [Users -> {"none", "running", "exited"}]
    /\ podAddress \in [Users -> Addresses \cup {NoAddress}]
    /\ idle \in [Users -> BOOLEAN]
    /\ cluster \in [Users -> Nat]
    /\ made \in [Users -> Nat]
    /\ late \in [Users -> SUBSET LateLaunches]
    /\ revoked \subseteq Users \X Tokens
    /\ faulted \subseteq FaultKinds
    /\ strays \subseteq Users /\ called \subseteq Users

Init ==
    /\ hubUp = TRUE
    /\ hubAddress = NoAddress
    /\ authState = [u \in Users |-> NoToken]
    /\ phase = [u \in Users |-> "off"]
    /\ envToken = [u \in Users |-> NoToken]
    /\ envAddress = [u \in Users |-> NoAddress]
    /\ timeoutSet = [u \in Users |-> FALSE]
    /\ pod = [u \in Users |-> "none"]
    /\ podAddress = [u \in Users |-> NoAddress]
    /\ idle = [u \in Users |-> FALSE]
    /\ cluster = [u \in Users |-> 0]
    /\ made = [u \in Users |-> 0]
    /\ late = [u \in Users |-> {}]
    /\ revoked = {}
    /\ faulted = {}
    /\ called = {} /\ strays = {}

---------------------------------------------------------------------------
(* Helpers.                                                                *)

\* The Hub's event loop is free: no start() is in its synchronous part.
HubFree == hubUp /\ \A u \in Users : phase[u] # "preparing"

\* A notebook's own call counts as a kind of its own.
Fault(k) ==
    /\ k \in AllowedFaults
    /\ faulted' = faulted \cup {k}
    /\ Cardinality(faulted') + Cardinality(called) <= MaxFaultKinds
NoFault == UNCHANGED faulted

\* KBase, and so the services that ask it, accept a token.
Accepted(u, t) == <<u, t>> \notin revoked
TokenAccepted(u) == Accepted(u, envToken[u])

\* A Spawner object without attributes of its own, as the Hub makes one.
FreshSpawner(u) ==
    /\ envToken' = [envToken EXCEPT ![u] = NoToken]
    /\ envAddress' = [envAddress EXCEPT ![u] = NoAddress]
    /\ timeoutSet' = [timeoutSet EXCEPT ![u] = FALSE]

\* Bounds: clusters per user, and one user at a time asks for more than one.
MayAsk(u) ==
    /\ made[u] < MaxClusters
    /\ made[u] = 0 \/ \A v \in Users \ {u} : made[v] <= 1

To(u, p) == phase' = [phase EXCEPT ![u] = p]

\* The pod runs no more: its environment goes with it, and how long it was idle.
PodLeaves(u, state) ==
    /\ pod' = [pod EXCEPT ![u] = state]
    /\ podAddress' = [podAddress EXCEPT ![u] = NoAddress]
    /\ idle' = [idle EXCEPT ![u] = FALSE]

---------------------------------------------------------------------------
(* spark/cluster.py, called by the spawner in the Hub process.  Every      *)
(* exception is caught and logged by _start/_stop_spark_cluster.           *)

NewAddress(u) == [owner |-> u, id |-> made[u] + 1]

\* The manager replaces the user's cluster with a new one.
MakeCluster(u) ==
    /\ made' = [made EXCEPT ![u] = @ + 1]
    /\ cluster' = [cluster EXCEPT ![u] = made[u] + 1]

\* Mutant of CreateOk: only the Hub's environment gets the new address.
CreateOkHubOnly(u) ==
    /\ TokenAccepted(u)
    /\ MakeCluster(u)
    /\ hubAddress' = NewAddress(u)
    /\ NoFault
    /\ UNCHANGED envAddress

\* 201 with a master URL: it goes into the spawner's environment and into
\* the environment of the process that called create_cluster, the Hub.
CreateOk(u) ==
    /\ TokenAccepted(u)
    /\ MakeCluster(u)
    /\ envAddress' = [envAddress EXCEPT ![u] = NewAddress(u)]
    /\ hubAddress' = NewAddress(u)
    /\ NoFault

\* An error answer, or none: nothing was created.
CreateFails(u) ==
    /\ IF TokenAccepted(u) THEN Fault("createFail") ELSE NoFault
    /\ UNCHANGED <<cluster, made, envAddress, hubAddress>>

\* The cluster was created and the answer did not arrive or did not parse.
CreateLost(u) ==
    /\ TokenAccepted(u)
    /\ Fault("createLost")
    /\ MakeCluster(u)
    /\ UNCHANGED <<envAddress, hubAddress>>

StartSparkCluster(u) == CreateOk(u) \/ CreateFails(u) \/ CreateLost(u)

\* Mutant of DeleteOk: the Hub keeps the address of the deleted cluster.
DeleteOkKeepsAddress(u, t) ==
    /\ Accepted(u, t) /\ cluster[u] # 0
    /\ cluster' = [cluster EXCEPT ![u] = 0]
    /\ NoFault
    /\ UNCHANGED hubAddress

\* Mutant of DeleteOk: the record of the cluster is overwritten with an address.
DeleteOkMistyped(u, t) ==
    /\ Accepted(u, t) /\ cluster[u] # 0
    /\ cluster' = [cluster EXCEPT ![u] = NoAddress]
    /\ hubAddress' = NoAddress
    /\ NoFault

\* 200: the cluster is gone, and SPARK_MASTER_URL leaves the Hub's environment
\* whichever cluster it named.
DeleteOk(u, t) ==
    /\ Accepted(u, t) /\ cluster[u] # 0
    /\ cluster' = [cluster EXCEPT ![u] = 0]
    /\ hubAddress' = NoAddress
    /\ NoFault

\* An error answer: also the manager's answer when there is no cluster.
DeleteFails(u, t) ==
    /\ IF Accepted(u, t) /\ cluster[u] # 0 THEN Fault("deleteFail") ELSE NoFault
    /\ UNCHANGED <<cluster, hubAddress>>

\* The cluster is gone and the answer did not arrive or did not parse.
DeleteLost(u, t) ==
    /\ Accepted(u, t) /\ cluster[u] # 0
    /\ Fault("deleteLost")
    /\ cluster' = [cluster EXCEPT ![u] = 0]
    /\ UNCHANGED hubAddress

StopSparkCluster(u, t) ==
    /\ DeleteOk(u, t) \/ DeleteFails(u, t) \/ DeleteLost(u, t)
    /\ UNCHANGED made

---------------------------------------------------------------------------
(* start(): the Hub calls pre_spawn_start, then start().                   *)

RequestSpawn(u) ==
    /\ HubFree /\ phase[u] = "off"
    /\ authState[u] # NoToken
    /\ MayAsk(u)
    /\ To(u, "spawning")
    /\ envToken' = [envToken EXCEPT ![u] = authState[u]]
    /\ idle' = [idle EXCEPT ![u] = FALSE]
    /\ NoFault
    /\ UNCHANGED <<processVars, envAddress, timeoutSet, pod, podAddress,
                   clusterVars, late, userVars>>

\* The environment takes every variable of the Hub's it has no value for, and
\* the credentials request needs a token that KBase accepts.  Anything the
\* preparation raises makes the spawn fail before a cluster is asked for.
Configure(u) ==
    /\ HubFree /\ phase[u] = "spawning"
    /\ timeoutSet' = [timeoutSet EXCEPT ![u] = TRUE]
    /\ envAddress' = [envAddress EXCEPT ![u] = hubAddress]
    /\ \/ TokenAccepted(u) /\ To(u, "preparing") /\ NoFault
       \/ ~TokenAccepted(u) /\ To(u, "failed") /\ NoFault
       \/ To(u, "failed") /\ "prepareFail" \in AllowedFaults /\ NoFault
    /\ UNCHANGED <<processVars, envToken, podVars, clusterVars, late, userVars>>

CreateCluster(u) ==
    /\ hubUp /\ phase[u] = "preparing"
    /\ StartSparkCluster(u)
    /\ To(u, "launching")
    /\ UNCHANGED <<hubUp, authState, envToken, timeoutSet, podVars, late, userVars>>

\* super().start() posts the pod; it posts again when no answer arrives.
CreatePod(u) ==
    /\ HubFree /\ phase[u] = "launching" /\ pod[u] = "none"
    /\ pod' = [pod EXCEPT ![u] = "running"]
    /\ podAddress' = [podAddress EXCEPT ![u] = envAddress[u]]
    /\ \/ To(u, "waiting") /\ NoFault
       \/ UNCHANGED phase /\ Fault("replyLost")
    /\ UNCHANGED <<processVars, spawnerVars, idle, clusterVars, late, userVars>>

\* Mutant of ReplacePod: every launch stops the server first.
ReplaceAlways(u) ==
    /\ HubFree /\ phase[u] = "launching"
    /\ envToken[u] # NoToken
    /\ StopSparkCluster(u, envToken[u])
    /\ To(u, "replacing")
    /\ UNCHANGED <<hubUp, authState, spawnerVars, podVars, late, userVars>>

\* 409, a pod of that name exists: super().start() calls self.stop(True), the
\* overridden stop, and posts again.
ReplacePod(u) ==
    /\ HubFree /\ phase[u] = "launching" /\ pod[u] # "none"
    /\ envToken[u] # NoToken
    /\ StopSparkCluster(u, envToken[u])
    /\ To(u, "replacing")
    /\ UNCHANGED <<hubUp, authState, spawnerVars, podVars, late, userVars>>

PodReplaced(u) ==
    /\ HubFree /\ phase[u] = "replacing"
    /\ PodLeaves(u, "none")
    /\ To(u, "launching")
    /\ NoFault
    /\ UNCHANGED <<processVars, spawnerVars, clusterVars, late, userVars>>

PodReady(u) ==
    /\ HubFree /\ phase[u] = "waiting" /\ pod[u] = "running"
    /\ To(u, "up")
    /\ NoFault
    /\ UNCHANGED <<processVars, spawnerVars, podVars, clusterVars, late, userVars>>

\* super().start() raises: the pod ended before it was ready.
PodEndsEarly(u) ==
    /\ HubFree /\ phase[u] = "waiting" /\ pod[u] # "running"
    /\ To(u, "failed")
    /\ NoFault
    /\ UNCHANGED <<processVars, spawnerVars, podVars, clusterVars, late, userVars>>

\* Bound: launches of one user at a time outlive their starts.
LateUsers == {u \in Users : late[u] # {}}

\* start_timeout runs out: the Hub waits no longer, and what has not yet asked
\* for the pod is not cancelled.
LaunchTimesOut(u) ==
    /\ HubFree /\ phase[u] \in {"launching", "replacing", "waiting"}
    /\ phase[u] = "waiting" \/ LateUsers = {}
    /\ To(u, "failed")
    /\ late' = IF phase[u] = "waiting" THEN late
               ELSE [late EXCEPT ![u] = @ \cup
                       {[token |-> envToken[u], address |-> envAddress[u],
                         replacing |-> phase[u] = "replacing"]}]
    /\ Fault("launchTimeout")
    /\ UNCHANGED <<processVars, spawnerVars, podVars, clusterVars, userVars>>

\* A launch that goes on after it was given up makes its pod,
LateCreatePod(u, l) ==
    /\ HubFree /\ l \in late[u] /\ ~l.replacing /\ pod[u] = "none"
    /\ pod' = [pod EXCEPT ![u] = "running"]
    /\ podAddress' = [podAddress EXCEPT ![u] = l.address]
    /\ late' = [late EXCEPT ![u] = @ \ {l}]
    /\ NoFault
    /\ UNCHANGED <<processVars, phase, spawnerVars, idle, clusterVars, userVars>>

\* or meets one, of a later start too, and calls stop() with its own token,
LateReplacePod(u, l) ==
    /\ HubFree /\ l \in late[u] /\ ~l.replacing /\ pod[u] # "none"
    /\ l.token # NoToken
    /\ StopSparkCluster(u, l.token)
    /\ late' = [late EXCEPT ![u] = (@ \ {l}) \cup {[l EXCEPT !.replacing = TRUE]}]
    /\ UNCHANGED <<hubUp, authState, phase, spawnerVars, podVars, userVars>>

\* which deletes that pod before it posts its own.
LatePodReplaced(u, l) ==
    /\ HubFree /\ l \in late[u] /\ l.replacing
    /\ PodLeaves(u, "none")
    /\ late' = [late EXCEPT ![u] = (@ \ {l}) \cup {[l EXCEPT !.replacing = FALSE]}]
    /\ NoFault
    /\ UNCHANGED <<processVars, phase, spawnerVars, clusterVars, userVars>>

LateLaunch(u) ==
    \E l \in late[u] :
        LateCreatePod(u, l) \/ LateReplacePod(u, l) \/ LatePodReplaced(u, l)

---------------------------------------------------------------------------
(* stop() and poll().                                                      *)

\* Mutant of Stop: the pod goes and the cluster is not deleted.
StopPodOnly(u, p) ==
    /\ envToken[u] # NoToken
    /\ To(u, p)
    /\ NoFault
    /\ UNCHANGED <<processVars, spawnerVars, podVars, clusterVars, late, userVars>>

\* Mutant of Stop: the cluster is deleted and the pod is not.
StopClusterOnly(u, p) ==
    /\ envToken[u] # NoToken
    /\ StopSparkCluster(u, envToken[u])
    /\ UNCHANGED <<hubUp, authState, phase, spawnerVars, podVars, late, userVars>>

\* stop(): without a token in the environment it raises before it does
\* anything; else the cluster is deleted, then the pod.
Stop(u, p) ==
    /\ envToken[u] # NoToken
    /\ StopSparkCluster(u, envToken[u])
    /\ To(u, p)
    /\ UNCHANGED <<hubUp, authState, spawnerVars, podVars, late, userVars>>

\* A poll with an exit status: the Hub drops the server and does not call stop.
Forget(u) ==
    /\ To(u, "off")
    /\ FreshSpawner(u)
    /\ NoFault
    /\ UNCHANGED <<processVars, podVars, clusterVars, late, userVars>>

\* super().poll() itself calls self.stop for an exited container it may delete.
PollStops(u) == pod[u] = "exited" /\ DeleteStoppedPods
PollReportsExit(u) == pod[u] = "none" \/ (pod[u] = "exited" /\ ~DeleteStoppedPods)

\* Mutant of Poll: no idle check.
PollWithoutIdle(u) ==
    /\ HubFree /\ phase[u] = "up"
    /\ \/ PollReportsExit(u) /\ Forget(u)
       \/ PollStops(u) /\ Stop(u, "culling")

\* Mutant of Poll: an idle server is reported as ended and not stopped.
PollDropsIdle(u) ==
    /\ HubFree /\ phase[u] = "up"
    /\ \/ PollReportsExit(u) /\ Forget(u)
       \/ PollStops(u) /\ Stop(u, "culling")
       \/ pod[u] = "running" /\ timeoutSet[u] /\ idle[u] /\ Forget(u)

\* A poll reaches the idle check with a running pod; the check raises on a
\* Spawner object whose start() has not run.
Poll(u) ==
    /\ HubFree /\ phase[u] = "up"
    /\ \/ PollReportsExit(u) /\ Forget(u)
       \/ PollStops(u) /\ Stop(u, "culling")
       \/ pod[u] = "running" /\ timeoutSet[u] /\ idle[u] /\ Stop(u, "culling")

\* The user presses "Stop My Server": the Hub polls, then calls stop().
UserStop(u) ==
    /\ HubFree /\ phase[u] = "up" /\ pod[u] = "running"
    /\ Stop(u, "stopping")

\* The Hub cleans up after a start that raised: poll, then stop() if it runs.
AbortSpawn(u) ==
    /\ HubFree /\ phase[u] = "failed"
    /\ IF PollReportsExit(u) THEN Forget(u) ELSE Stop(u, "stopping")

FinishStop(u) ==
    /\ HubFree /\ phase[u] \in {"stopping", "culling"}
    /\ PodLeaves(u, "none")
    /\ To(u, "off")
    /\ FreshSpawner(u)
    /\ NoFault
    /\ UNCHANGED <<processVars, clusterVars, late, userVars>>

\* super().stop() raises while the pod is still there, the cluster deleted
\* already.  The Hub drops the server if it was the Hub that called stop(); a
\* poll that raises leaves it served, and a start that was replacing a pod fails.
StopFails(u) ==
    /\ HubFree /\ pod[u] # "none"
    /\ \/ /\ phase[u] = "stopping"
          /\ To(u, "off") /\ FreshSpawner(u)
       \/ phase[u] = "culling" /\ To(u, "up") /\ UNCHANGED spawnerVars
       \/ phase[u] = "replacing" /\ To(u, "failed") /\ UNCHANGED spawnerVars
    /\ Fault("stopFail")
    /\ UNCHANGED <<processVars, podVars, clusterVars, late, userVars>>

---------------------------------------------------------------------------
(* create_cluster and delete_cluster as a notebook calls them, with a token *)
(* of its user that KBase accepts: the user's cluster is replaced or gone,  *)
(* and only the environment of that notebook's process learns of it.       *)

\* A notebook of the user runs: a new pod has none before it is ready.
NotebookRuns(u) == pod[u] = "running" /\ phase[u] # "waiting"

NotebookCalls(u) ==
    /\ NotebookRuns(u)
    /\ \E t \in Tokens : Accepted(u, t)
    /\ called' = called \cup {u}
    /\ Cardinality(faulted) + Cardinality(called') <= MaxFaultKinds
    /\ NoFault
    /\ UNCHANGED <<processVars, phase, spawnerVars, podVars, late, revoked>>

\* Is the server on its way out, or unknown to the Hub: nothing will stop it.
PastItsStop(u) == phase[u] \in {"off", "stopping", "culling"}

NotebookCreates(u) ==
    /\ NotebookCalls(u)
    /\ MayAsk(u)
    /\ MakeCluster(u)
    /\ strays' = IF PastItsStop(u) THEN strays \cup {u} ELSE strays

NotebookDeletes(u) ==
    /\ NotebookCalls(u)
    /\ cluster[u] # 0
    /\ cluster' = [cluster EXCEPT ![u] = 0]
    /\ UNCHANGED <<made, strays>>

---------------------------------------------------------------------------
(* Users, KBase, Kubernetes and the Hub process.                           *)

Login(u, t) ==
    /\ HubFree /\ <<u, t>> \notin revoked
    /\ authState' = [authState EXCEPT ![u] = t]
    /\ NoFault
    /\ UNCHANGED <<hubUp, hubAddress, phase, spawnerVars, podVars, clusterVars,
                   late, userVars>>

Expire(u, t) ==
    /\ revoked' = revoked \cup {<<u, t>>}
    /\ Fault("expire")
    /\ UNCHANGED <<processVars, phase, spawnerVars, podVars, clusterVars, late,
                   called, strays>>

\* last_activity moves with use and falls behind without.
SetIdle(u, b) ==
    /\ pod[u] = "running" /\ phase[u] \in {"up", "off"}
    /\ idle' = [idle EXCEPT ![u] = b]
    /\ NoFault
    /\ UNCHANGED <<processVars, phase, spawnerVars, pod, podAddress,
                   clusterVars, late, userVars>>

\* The notebook server exits: "Shut Down" in JupyterLab, or out of memory.
ContainerExits(u) ==
    /\ pod[u] = "running"
    /\ PodLeaves(u, "exited")
    /\ NoFault
    /\ UNCHANGED <<processVars, phase, spawnerVars, clusterVars, late, userVars>>

\* Kubernetes removes the pod: it carries out a delete the Hub asked for, the pod
\* is nobody's any more, or a node is drained under a server.
RemovePod(u) ==
    /\ pod[u] # "none"
    /\ PodLeaves(u, "none")
    /\ IF PastItsStop(u) \/ phase[u] = "replacing" THEN NoFault ELSE Fault("evict")
    /\ UNCHANGED <<processVars, phase, spawnerVars, clusterVars, late, userVars>>

\* The Hub process dies: Spawner attributes and os.environ go with it, the
\* Hub's database still says which users had a server.
Crash ==
    /\ hubUp /\ hubUp' = FALSE
    /\ hubAddress' = NoAddress
    /\ envToken' = [u \in Users |-> NoToken]
    /\ envAddress' = [u \in Users |-> NoAddress]
    /\ timeoutSet' = [u \in Users |-> FALSE]
    /\ late' = [u \in Users |-> {}]
    /\ Fault("crash")
    /\ UNCHANGED <<authState, phase, podVars, clusterVars, userVars>>

\* Mutant of Restart: a poll that raises counts as running.
RestartKeepsPods ==
    /\ ~hubUp /\ hubUp' = TRUE
    /\ authState' = [u \in Users |-> NoToken]
    /\ phase' = [u \in Users |->
          IF phase[u] # "off" /\ pod[u] = "running" THEN "up" ELSE "off"]
    /\ NoFault
    /\ UNCHANGED <<hubAddress, spawnerVars, podVars, clusterVars, late, userVars>>

\* The entry point makes a new JUPYTERHUB_CRYPT_KEY, which no stored auth state
\* opens.  The Hub polls every server its database names on a new Spawner
\* object and keeps those whose poll returns None; a poll that raises counts
\* as not running.
Restart ==
    /\ ~hubUp /\ hubUp' = TRUE
    /\ authState' = [u \in Users |-> NoToken]
    /\ phase' = [u \in Users |->
          IF phase[u] # "off" /\ pod[u] = "running" /\ timeoutSet[u]
          THEN "up" ELSE "off"]
    /\ NoFault
    /\ UNCHANGED <<hubAddress, spawnerVars, podVars, clusterVars, late, userVars>>

---------------------------------------------------------------------------

Next ==
    \/ \E u \in Users :
          \/ RequestSpawn(u) \/ Configure(u) \/ CreateCluster(u)
          \/ CreatePod(u) \/ ReplacePod(u) \/ PodReplaced(u) \/ PodReady(u)
          \/ PodEndsEarly(u) \/ LaunchTimesOut(u) \/ LateLaunch(u)
          \/ Poll(u) \/ UserStop(u) \/ AbortSpawn(u)
          \/ FinishStop(u) \/ StopFails(u) \/ ContainerExits(u) \/ RemovePod(u)
          \/ NotebookCreates(u) \/ NotebookDeletes(u)
          \/ \E t \in Tokens : Login(u, t) \/ Expire(u, t)
          \/ \E b \in BOOLEAN : SetIdle(u, b)
    \/ Crash
    \/ Restart

Spec == Init /\ [][Next]_vars

\* The event loop's queue is first in, first out: a step that is due runs once
\* the loop is free, however often a start() blocks it meanwhile, hence strong
\* fairness.  Kubernetes answers one of the pod requests that are repeated, and
\* carries out one of the deletes that poll() repeats after a stop() that raised.
\* Users and faults are not fair.
HubProgress(u) ==
    \/ Configure(u) \/ CreateCluster(u) \/ CreatePod(u) \/ ReplacePod(u)
    \/ PodReplaced(u) \/ PodReady(u) \/ PodEndsEarly(u) \/ AbortSpawn(u)
    \/ FinishStop(u)

PodAnswered(u) == CreatePod(u) /\ phase'[u] = "waiting"

Fairness ==
    /\ \A u \in Users : /\ SF_vars(HubProgress(u)) /\ SF_vars(PodAnswered(u))
                        /\ SF_vars(Poll(u))
    /\ WF_vars(Restart)

FairSpec == Spec /\ Fairness

---------------------------------------------------------------------------
(* Properties.                                                             *)

Met(kinds) == faulted \cap kinds # {}
Live(a) == a # NoAddress /\ cluster[a.owner] = a.id

\* What lets a cluster outlive its server: stop() is not run or its delete is
\* not carried out.
LeakFaults == {"evict", "expire", "crash", "deleteFail", "launchTimeout"}

\* A server the Hub tracks can be polled and stopped: the Spawner object has the
\* token stop() insists on and, once start() has run, the idle_timeout that
\* poll() reads.  The Hub's restart must not break this.
TrackedServerIsStoppable ==
    hubUp => \A u \in Users :
        /\ phase[u] # "off" => envToken[u] # NoToken
        /\ phase[u] \notin {"off", "spawning"} => timeoutSet[u]

\* Where the Hub deletes exited pods, a user whose server is gone holds no Spark
\* cluster without a leak fault, unless a notebook of theirs made one behind
\* stop(): stop() deletes the cluster first, and every way a server ends passes
\* through it.
ClusterEndsWithServer ==
    \A u \in Users :
        phase[u] = "off" /\ cluster[u] # 0
            => Met(LeakFaults) \/ ~DeleteStoppedPods \/ u \in strays

\* A pod that runs while the Hub thinks the user has no server has survived the
\* Hub's own death, a stop() that raised, or was made by a launch the Hub had
\* given up.
UntrackedPodNeedsFault ==
    \A u \in Users :
        phase[u] = "off" /\ pod[u] = "running"
            => Met({"crash", "stopFail", "launchTimeout"})

\* SPARK_MASTER_URL in a user's pod names another user's cluster only if a
\* request to create a cluster did not succeed: the address was inherited from
\* the Hub's own environment.
ForeignAddressNeedsFailedCreate ==
    \A u \in Users :
        podAddress[u] # NoAddress /\ podAddress[u].owner # u
            => Met({"createFail", "createLost", "expire"})

\* What makes start() meet a pod of the same name and call stop(), which deletes
\* the cluster start() has just made, or leaves an address of a cluster that
\* stop() has deleted.
BelyingFaults ==
    {"crash", "replyLost", "createLost", "deleteLost", "stopFail", "launchTimeout"}

\* A served notebook whose SPARK_MASTER_URL is a cluster of the user's own finds
\* that cluster alive, unless the user's notebooks have replaced or deleted it, or
\* an answer was lost, the Hub died, or a stop or a launch went on unseen.
OwnAddressIsLive ==
    \A u \in Users :
        phase[u] = "up" /\ pod[u] = "running"
          /\ podAddress[u] # NoAddress /\ podAddress[u].owner = u
            => \/ Live(podAddress[u])
               \/ Met(BelyingFaults)
               \/ u \in called
               \/ ~DeleteStoppedPods

\* The address in the Hub's own environment, which every later start copies,
\* names a live cluster unless an answer of the cluster manager was lost or the
\* owner's notebooks have replaced or deleted it.
HubAddressIsLive ==
    hubAddress # NoAddress =>
        \/ Live(hubAddress)
        \/ Met({"createLost", "deleteLost"})
        \/ hubAddress.owner \in called

\* The same promises as an abstract specification (see ServerLease), of what the
\* Hub shows of a server and of whether its user holds a cluster.
HubView(p) ==
    CASE p = "off" -> "off"
      [] p = "up" -> "on"
      [] p \in {"stopping", "culling"} -> "stopping"
      [] OTHER -> "starting"

serverView == [u \in Users |-> HubView(phase[u])]
leaseView == [u \in Users |-> cluster[u] # 0]
ReleaseIsReliable == DeleteStoppedPods /\ AllowedFaults \cap LeakFaults = {}

Lease == INSTANCE ServerLease
         WITH Reliable <- ReleaseIsReliable, server <- serverView,
              lease <- leaseView, strays <- strays

\* Every start, stop, poll, fault and notebook's own call is a step of ServerLease
\* or changes nothing there.
ImplementsLease == Lease!LeaseSpec

\* An idle server is stopped, or used again, or goes by itself, or has been left
\* without a server by a stop() that raised.
IdleServerEnds ==
    \A u \in Users :
        idle[u] /\ pod[u] = "running"
            ~> \/ ~idle[u] \/ pod[u] # "running"
               \/ phase[u] = "off" /\ Met({"stopFail"})

\* A spawn ends: the server is served or the Hub has given it up.
SpawnResolves ==
    \A u \in Users : phase[u] = "spawning" ~> phase[u] \in {"up", "off"}

---------------------------------------------------------------------------
(* What the source says and the code does not keep.                        *)

\* "Set the master URL for the user" (cluster.py): the address a pod is given is
\* that user's.  The code sets it for the Hub process, whose environment every
\* pod inherits.
AddressIsForTheUser ==
    \A u \in Users : podAddress[u] # NoAddress => podAddress[u].owner = u

\* "If idle time exceeds the defined threshold, stops the container to save
\* resources" (poll): stated here for a Hub that may be restarted and in the end
\* stays up.
IdleServerStopped == <>[]hubUp => IdleServerEnds
=============================================================================
